---------------------------- MODULE ClientSession ----------------------------
(***************************************************************************)
(* The stored sign-in of the command line client for one server, and the   *)
(* requests made with it.  The endpoint is in one file, the mode that says *)
(* where its tokens are in another, the tokens in the OS keyring or, the   *)
(* access token, in the first file.  A change is a list of writes under    *)
(* the mutation lock; a refresh holds the refresh lock of the server from  *)
(* before it reads the pair until the new pair is stored.                  *)
(*                                                                         *)
(* A token pair is a number: access and refresh token of one issue.  Zero  *)
(* is no token.  Static tokens are issues without a refresh token.         *)
(***************************************************************************)
EXTENDS Naturals, Sequences, FiniteSets

CONSTANTS Clients, MaxIssues, MaxCommands, ReadAttempts, MaxLost, NoClient

ASSUME ClientAssumption == NoClient \notin Clients

VARIABLES csDB,        \* servers.json: {} or {access}
          csMode,      \* credential-state.json: {} or {[access, refresh]}
          csRing,      \* keyring: [up, access, refresh]
          csLock, csRefreshLock,
          csC,         \* client process -> what it does
          csIssued,    \* pairs issued so far
          csStatic,    \* issues that are static tokens
          csSent,      \* refresh tokens presented to the server
          csLost,      \* of these, the ones whose new pair did not get stored
          csTwice,     \* of these, the ones presented again though it did
          csOut,       \* a sign-out finished, no sign-in began to be stored since
          csCommands, csFaults

csVars == <<csDB, csMode, csRing, csLock, csRefreshLock, csC, csIssued, csStatic,
            csSent, csLost, csTwice, csOut, csCommands, csFaults>>
csStore == <<csDB, csMode, csRing>>
csServer == <<csIssued, csStatic, csSent, csLost, csTwice>>

None == 0
ClientIdle == [pc |-> "idle", op |-> "none", todo |-> <<>>, pair |-> None, ringed |-> FALSE,
               access |-> None, seen |-> [access |-> None, refresh |-> None],
               safe |-> FALSE, tries |-> 0, again |-> FALSE, done |-> 0]
ModeNone == [access |-> "none", refresh |-> "none"]

CSInit ==
  /\ csDB = {} /\ csMode = {} /\ csRing = [up |-> TRUE, access |-> None, refresh |-> None]
  /\ csLock = NoClient /\ csRefreshLock = NoClient
  /\ csC = [c \in Clients |-> ClientIdle]
  /\ csIssued = 0 /\ csStatic = {}
  /\ csSent = {} /\ csLost = {} /\ csTwice = {} /\ csOut = FALSE
  /\ csCommands = 0 /\ csFaults = 0

Client(c, r) == csC' = [csC EXCEPT ![c] = r]

\* The keyring daemon comes and goes.
KeyringMoves ==
  /\ csFaults < MaxLost /\ csFaults' = csFaults + 1
  /\ csRing' = [csRing EXCEPT !.up = ~@]
  /\ UNCHANGED <<csDB, csMode, csLock, csRefreshLock, csC, csServer, csOut, csCommands>>

(***************************************************************************)
(* Reading                                                                 *)
(***************************************************************************)
FileAccess == IF csDB = {} THEN None ELSE CHOOSE a \in csDB : TRUE

\* loadAccessToken: by the mode; without one, the file and then the keyring.
LoadAccess ==
  LET src == {m.access : m \in csMode}
  IN IF src = {"none"} THEN None
     ELSE IF src = {"file"} \/ (src = {} /\ FileAccess # None) THEN FileAccess
     ELSE csRing.access

\* loadRefreshToken.
LoadRefresh == IF {m.refresh : m \in csMode} = {"none"} THEN None ELSE csRing.refresh

\* A read that needs the keyring fails while it is down.
Readable == csRing.up \/ csMode = {ModeNone}
            \/ \E m \in csMode : m.access = "file" /\ m.refresh = "none"

\* credentialSnapshot.
Pair == [access |-> LoadAccess, refresh |-> LoadRefresh]

(***************************************************************************)
(* Changes: lists of writes under the mutation lock                        *)
(***************************************************************************)
\* Mutant: the pair in use stays in use until the new one is complete.
SaveTokensWritesInPlace == <<"refresh", "access", "db", "mode">>

\* saveTokens.
SaveTokensWrites == <<"nomode", "refresh", "access", "db", "mode">>

\* saveStaticToken, of a token and of none.
SaveStaticWrites == <<"nomode", "access", "db", "mode", "forgetrefresh", "forgetinactive">>
ClearStaticWrites == <<"nomode", "dbclear", "forgetaccess", "forgetrefresh">>

\* clearCredentials and RemoveEndpoint; SaveEndpoint.
ClearWrites == <<"nomode", "dbclear", "forgetaccess", "forgetrefresh">>
RemoveWrites == <<"nomode", "dbdelete", "forgetaccess", "forgetrefresh">>
EndpointWrites == <<"endpoint">>

WritesOf(op) ==
  CASE op \in {"login", "refresh"} -> SaveTokensWrites
    [] op = "static" -> SaveStaticWrites
    [] op = "logout" -> ClearWrites
    [] op = "revoke" -> ClearWrites
    [] op = "clear" -> ClearStaticWrites
    [] op = "remove" -> RemoveWrites
    [] op = "add" -> EndpointWrites

\* withCredentialMutation: one process at a time; the lock goes with the
\* process.
TakeLock(c) == csLock = NoClient /\ csLock' = c

\* One write of the list.
Write(c, w) ==
  LET me == csC[c]
      forget(field) == IF csRing.up THEN csRing' = [csRing EXCEPT ![field] = None]
                                    ELSE UNCHANGED csRing
  IN \/ w = "nomode" /\ csMode' = {ModeNone} /\ UNCHANGED <<csDB, csRing>>
     \/ /\ w = "refresh" /\ csRing.up
        /\ csRing' = [csRing EXCEPT !.refresh = me.pair] /\ UNCHANGED <<csDB, csMode>>
     \/ /\ w = "access"
        /\ csRing' = IF csRing.up THEN [csRing EXCEPT !.access = me.pair] ELSE csRing
        /\ UNCHANGED <<csDB, csMode>>
     \/ w = "db" /\ csDB' = {IF me.ringed THEN None ELSE me.pair} /\ UNCHANGED <<csMode, csRing>>
     \/ /\ w = "mode"
        /\ csMode' = {[access |-> IF me.ringed THEN "keyring" ELSE "file",
                       refresh |-> IF me.op = "static" THEN "none" ELSE "keyring"]}
        /\ UNCHANGED <<csDB, csRing>>
     \/ w = "dbclear" /\ csDB' = {None} /\ UNCHANGED <<csMode, csRing>>
     \/ w = "dbdelete" /\ csDB' = {} /\ UNCHANGED <<csMode, csRing>>
     \/ w = "endpoint" /\ csDB' = {FileAccess} /\ UNCHANGED <<csMode, csRing>>
     \/ w = "forgetaccess" /\ forget("access") /\ UNCHANGED <<csDB, csMode>>
     \/ w = "forgetrefresh" /\ forget("refresh") /\ UNCHANGED <<csDB, csMode>>
     \/ /\ w = "forgetinactive"
        /\ IF me.ringed THEN UNCHANGED csRing ELSE forget("access")
        /\ UNCHANGED <<csDB, csMode>>

EndsSession(op) == op \in {"logout", "clear", "remove", "revoke"}
AfterWrites(c) == IF csC[c].op = "refresh" THEN [csC[c] EXCEPT !.pc = "send", !.op = "request",
                                                  !.access = csC[c].pair, !.tries = 0, !.again = TRUE]
                  ELSE ClientIdle

\* The next write; after the last one the lock is free again.
Mutate(c) ==
  /\ csC[c].pc = "write" /\ csLock = c
  /\ LET me == csC[c]  w == Head(me.todo)  rest == Tail(me.todo)
     IN /\ Write(c, w)
        /\ csOut' = (csOut \/ (rest = <<>> /\ EndsSession(me.op)))
        /\ IF rest # <<>>
           THEN /\ Client(c, [me EXCEPT !.todo = rest,
                               !.ringed = IF w = "access" THEN csRing.up ELSE @])
                /\ UNCHANGED <<csLock, csRefreshLock>>
           ELSE /\ Client(c, AfterWrites(c)) /\ csLock' = NoClient
                /\ csRefreshLock' = IF csRefreshLock = c THEN NoClient ELSE csRefreshLock
  /\ UNCHANGED <<csServer, csCommands, csFaults>>

\* A write fails: the refresh token has no place but the keyring, and any
\* file may be unwritable.
MutateFails(c) ==
  /\ csC[c].pc = "write" /\ csLock = c
  /\ \/ Head(csC[c].todo) = "refresh" /\ ~csRing.up /\ UNCHANGED csFaults
     \/ csFaults < MaxLost /\ csFaults' = csFaults + 1
  /\ csLost' = IF csC[c].op = "refresh" THEN csLost \cup {csC[c].seen.refresh} ELSE csLost
  /\ csLock' = NoClient /\ csRefreshLock' = IF csRefreshLock = c THEN NoClient ELSE csRefreshLock
  /\ Client(c, ClientIdle)
  /\ UNCHANGED <<csStore, csIssued, csStatic, csSent, csTwice, csOut, csCommands>>

(***************************************************************************)
(* Commands                                                                *)
(***************************************************************************)
Command == csCommands < MaxCommands /\ csCommands' = csCommands + 1

\* DeviceLogin and LoopbackLogin: the server issues a pair, or the flow ends.
\* SaveTokens follows, SaveStaticToken when the user gave the token.
Login(c) ==
  /\ csC[c].pc = "idle" /\ Command
  /\ csIssued < MaxIssues /\ csIssued' = csIssued + 1
  /\ \E op \in {"login", "static"} :
       /\ Client(c, [ClientIdle EXCEPT !.op = op, !.pc = "lock", !.pair = csIssued + 1])
       /\ csStatic' = IF op = "static" THEN csStatic \cup {csIssued + 1} ELSE csStatic
  /\ UNCHANGED <<csStore, csLock, csRefreshLock, csSent, csLost, csTwice, csOut, csFaults>>

\* server logout, remove, add, add --clear-credentials.
Edit(c) ==
  /\ csC[c].pc = "idle" /\ Command
  /\ \E op \in {"logout", "remove", "add", "clear"} :
       /\ op \in {"logout"} => csDB # {}
       /\ Client(c, [ClientIdle EXCEPT !.op = op, !.pc = "lock"])
  /\ UNCHANGED <<csStore, csLock, csRefreshLock, csServer, csOut, csFaults>>

\* Mutant: what was read is not compared with what is there.
CurrentAnyway(c) == TRUE

\* SaveTokensIfCurrent, ClearCredentialsIfCurrent: the revision is the pair.
Current(c) == csC[c].op \in {"refresh", "revoke"} => (csDB # {} /\ Readable /\ Pair = csC[c].seen)

\* The lock is taken and the writes begin; a pair that was replaced meanwhile
\* is left alone, and a refresh goes on with what is there.
EnterLock(c) ==
  /\ csC[c].pc = "lock"
  /\ csOut' = (csOut /\ csC[c].op \notin {"login", "static"})
  /\ \/ Current(c) /\ TakeLock(c)
        /\ Client(c, [csC[c] EXCEPT !.pc = "write", !.todo = WritesOf(csC[c].op)])
        /\ UNCHANGED <<csLost, csRefreshLock>>
     \/ /\ ~Current(c) /\ csLock = NoClient /\ UNCHANGED csLock
        /\ IF csC[c].op = "refresh"
           THEN /\ csLost' = csLost \cup {csC[c].seen.refresh}
                /\ csRefreshLock' = NoClient
                /\ IF csDB # {} /\ Readable
                   THEN Client(c, [csC[c] EXCEPT !.pc = "send", !.op = "request",
                                     !.access = LoadAccess, !.tries = 0, !.again = TRUE])
                   ELSE Client(c, ClientIdle)
           ELSE Client(c, ClientIdle) /\ UNCHANGED <<csLost, csRefreshLock>>
  /\ UNCHANGED <<csStore, csIssued, csStatic, csSent, csTwice, csCommands, csFaults>>

\* server revoke: a snapshot, then RevokeCLIToken, which may fail.
Revoke(c) ==
  /\ csC[c].pc = "idle" /\ Command
  /\ csLock = NoClient /\ csDB # {} /\ Readable
  /\ Pair.access # None \/ Pair.refresh # None
  /\ \E r \in {[ClientIdle EXCEPT !.op = "revoke", !.pc = "lock", !.seen = Pair], ClientIdle} :
       Client(c, r)
  /\ UNCHANGED <<csStore, csLock, csRefreshLock, csServer, csOut, csFaults>>

(***************************************************************************)
(* Requests                                                                *)
(***************************************************************************)
\* Resolve, NewTokenSource: the access token is read once, without the lock.
\* Safe requests may be replayed.
Request(c) ==
  /\ csC[c].pc = "idle" /\ Command
  /\ csDB # {} /\ Readable
  /\ \E safe \in BOOLEAN :
       Client(c, [ClientIdle EXCEPT !.op = "request", !.pc = "send", !.access = LoadAccess, !.safe = safe])
  /\ UNCHANGED <<csStore, csLock, csRefreshLock, csServer, csOut, csFaults>>

\* Mutant: every request is replayed.
AttemptsForAll(safe) == ReadAttempts

Attempts(safe) == IF safe THEN ReadAttempts ELSE 1

\* DoJSON: the answer, an error that is not worth a retry, or one that is;
\* the work may have been done although no answer came.
Send(c) ==
  /\ csC[c].pc = "send"
  /\ LET me == csC[c]
     IN \/ /\ \E worked \in BOOLEAN : Client(c, [me EXCEPT !.pc = "end", !.done = IF worked THEN @ + 1 ELSE @])
           /\ UNCHANGED csFaults
        \/ /\ csFaults < MaxLost /\ csFaults' = csFaults + 1
           /\ \E worked \in BOOLEAN :
                Client(c, [me EXCEPT !.tries = @ + 1, !.done = IF worked THEN @ + 1 ELSE @,
                             !.pc = IF me.tries + 1 < Attempts(me.safe) THEN "send" ELSE "end"])
        \/ /\ me.access \notin csStatic    \* Execute: expired, once
           /\ Client(c, [me EXCEPT !.pc = IF me.again THEN "end" ELSE "refreshlock"])
           /\ UNCHANGED csFaults
  /\ UNCHANGED <<csStore, csLock, csRefreshLock, csServer, csOut, csCommands>>

EndRequest(c) ==
  /\ csC[c].pc = "end" /\ Client(c, ClientIdle)
  /\ UNCHANGED <<csStore, csLock, csRefreshLock, csServer, csOut, csCommands, csFaults>>

\* Mutant: two processes refresh at the same time.
WithRefreshLockFree(c) == csRefreshLock' = csRefreshLock

\* withRefreshLock: waits for the other process, or until the request's time
\* is over.
WithRefreshLock(c) == csRefreshLock = NoClient /\ csRefreshLock' = c

RefreshEnter(c) ==
  /\ csC[c].pc = "refreshlock"
  /\ \/ WithRefreshLock(c) /\ Client(c, [csC[c] EXCEPT !.pc = "snapshot"])
     \/ Client(c, ClientIdle) /\ UNCHANGED csRefreshLock
  /\ UNCHANGED <<csStore, csLock, csServer, csOut, csCommands, csFaults>>

\* snapshotCredentialsForRefresh: another process may have refreshed
\* already; the keyring must take a token before one is spent.
RefreshSnapshot(c) ==
  /\ csC[c].pc = "snapshot" /\ csLock = NoClient
  /\ LET me == csC[c]
     IN \/ /\ csDB = {} \/ ~Readable \/ (Pair.access = me.access /\ Pair.refresh = None)
              \/ (Pair.refresh # None /\ ~csRing.up)
           /\ Client(c, ClientIdle) /\ csRefreshLock' = NoClient
        \/ /\ csDB # {} /\ Readable /\ Pair.access # me.access /\ (Pair.refresh # None => csRing.up)
           /\ Client(c, [me EXCEPT !.pc = "send", !.access = Pair.access, !.tries = 0, !.again = TRUE])
           /\ csRefreshLock' = NoClient
        \/ /\ csDB # {} /\ Readable /\ Pair.access = me.access /\ Pair.refresh # None /\ csRing.up
           /\ Client(c, [me EXCEPT !.pc = "present", !.seen = Pair]) /\ UNCHANGED csRefreshLock
  /\ UNCHANGED <<csStore, csLock, csServer, csOut, csCommands, csFaults>>

\* RefreshAccessToken: one attempt.  The server rotates; its answer may be
\* lost.
RefreshPresent(c) ==
  /\ csC[c].pc = "present" /\ csIssued < MaxIssues
  /\ LET r == csC[c].seen.refresh
     IN /\ csSent' = csSent \cup {r}
        /\ csTwice' = IF r \in csSent \ csLost THEN csTwice \cup {r} ELSE csTwice
        /\ \/ /\ csIssued' = csIssued + 1
              /\ Client(c, [csC[c] EXCEPT !.pc = "lock", !.op = "refresh", !.pair = csIssued + 1])
              /\ UNCHANGED <<csLost, csRefreshLock, csFaults>>
           \/ /\ csFaults < MaxLost /\ csFaults' = csFaults + 1
              /\ csLost' = csLost \cup {r}
              /\ Client(c, ClientIdle) /\ csRefreshLock' = NoClient /\ UNCHANGED csIssued
  /\ UNCHANGED <<csStore, csLock, csStatic, csOut, csCommands>>

\* The process is killed: both locks go with it.
KillClient(c) ==
  /\ csC[c].pc \notin {"idle", "end"}
  /\ csFaults < MaxLost /\ csFaults' = csFaults + 1
  /\ csLock' = IF csLock = c THEN NoClient ELSE csLock
  /\ csRefreshLock' = IF csRefreshLock = c THEN NoClient ELSE csRefreshLock
  /\ csLost' = IF csC[c].op = "refresh" THEN csLost \cup {csC[c].seen.refresh} ELSE csLost
  /\ Client(c, ClientIdle)
  /\ UNCHANGED <<csStore, csIssued, csStatic, csSent, csTwice, csOut, csCommands>>

CSNext ==
  \/ KeyringMoves
  \/ \E c \in Clients :
       \/ Login(c) \/ Edit(c) \/ Revoke(c) \/ EnterLock(c) \/ Mutate(c) \/ MutateFails(c)
       \/ Request(c) \/ Send(c) \/ EndRequest(c)
       \/ RefreshEnter(c) \/ RefreshSnapshot(c) \/ RefreshPresent(c) \/ KillClient(c)

CSSpec == CSInit /\ [][CSNext]_csVars

(***************************************************************************)
(* Properties                                                              *)
(***************************************************************************)
\* Between two changes, the access and the refresh token that a reader finds
\* are one pair, also after a change that failed or was killed half way
\* ("a revisioned access and refresh token pair").
PairsStayTogether ==
  csLock = NoClient /\ Pair.access # None /\ Pair.refresh # None => Pair.access = Pair.refresh

\* After a sign-out nothing but a new sign-in brings tokens back: a refresh
\* that was under way stores nothing.
SignOutHolds == csOut /\ csLock = NoClient => Pair = [access |-> None, refresh |-> None]

\* The server takes a refresh token once and treats the next use as theft:
\* two processes whose access token expired present it once between them,
\* unless the new pair was lost.
RefreshedOnce == csTwice = {}

\* The server does the work of a request that must not be replayed at most
\* once, whatever answers are lost and whether the token expired.
DoneOnce == \A c \in Clients : ~csC[c].safe => csC[c].done <= 1

\* The stored sign-in, as a whole: pairs stay together, signed out stays signed out,
\* and neither a refresh token nor a request is used twice by retries and processes.
SignInHolds == PairsStayTogether /\ SignOutHolds /\ RefreshedOnce /\ DoneOnce
=============================================================================
