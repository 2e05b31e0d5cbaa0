----------------------------- MODULE AuthSession -----------------------------
(***************************************************************************)
(* Signing in to ayato (ayato/handler, ayato/auth, ayato/repository):      *)
(* device logins, one-time codes, access and refresh tokens, their         *)
(* rotation and revocation, log tokens and the admin allowlist.            *)
(*                                                                         *)
(* Tokens are signed and carry their own expiry, so the server keeps only  *)
(* markers with a time to live: a token was revoked, a session was         *)
(* revoked, something was spent.  Everything rests on a marker being there *)
(* for as long as what it forbids is valid, and on the order in which a    *)
(* handler reads and writes them.  Requests run concurrently; each read or *)
(* write of the store is one step.                                         *)
(*                                                                         *)
(* One tick of the clock stands for an interval of time.  A signed token   *)
(* is good up to and including the tick of its expiry, a marker of the SQL *)
(* store too (it is written after the token was); badger cuts expiries to  *)
(* whole seconds and drops a marker when that tick begins.  Records whose  *)
(* own expiry is in whole seconds (devices, log tokens) end with the tick  *)
(* before it.  PKCE, cookies and origins are taken as right.               *)
(***************************************************************************)
EXTENDS Integers, Sequences, FiniteSets, FiniteSetsExt, TLC

CONSTANTS
    AuthUsers,      \* GitHub accounts
    Bootstrap,      \* the admins at the start
    AuthCalls,      \* requests being served at one time
    AuthScenes,     \* what they may ask for, the tokens of an earlier login, the store,
                    \* how many tokens may be out and how many store calls may fail (bounds)
    AuthDevices, AuthJobs, \* the device codes and log tokens that may be drawn, as numbers
    AccessTTL, RefreshTTL, SessionTTL, CodeTTL, DeviceTTL, DeviceInterval, LogTokenTTL,
    AuthHorizon,    \* the last tick explored (bound)
    MaxTokens       \* tokens handed out in any of them (bound)

AuthKinds == {"refresh", "revoke", "logout", "access", "login", "device", "log", "admin"}

\* The configured lifetimes: an access token does not outlive a whole session.
\* What clients hold at first are pairs of earlier logins, no older than the first tick.
ASSUME AuthAssumption ==
    /\ Bootstrap \subseteq AuthUsers
    /\ {AccessTTL, RefreshTTL, SessionTTL, CodeTTL, DeviceTTL, DeviceInterval, LogTokenTTL} \subseteq Nat \ {0}
    /\ AccessTTL <= RefreshTTL
    /\ AuthDevices \cup AuthJobs \subseteq 1 .. MaxTokens
    /\ \A s \in AuthScenes : s.kinds \subseteq AuthKinds /\ s.store \in {"sql", "badger"} /\ s.failures \in Nat /\ s.most \in 0 .. MaxTokens
    /\ {AuthHorizon, MaxTokens} \subseteq Nat
    /\ \A s \in AuthScenes :
          /\ IsFiniteSet(s.held) /\ Cardinality(s.held) <= s.most
          /\ s.held \subseteq [typ : {"cli", "refresh"}, id : 1 .. Cardinality(s.held), fam : 1 .. Cardinality(s.held),
                               user : AuthUsers, exp : 0 .. (1 + RefreshTTL)]
          /\ \A t, u \in s.held : t.id = u.id => t = u

TokenTypes == {"cli", "refresh", "bearer", "session", "code_cli", "code_web"}
NoRow == 0
MarkNamespaces == {"deny", "deny-session", "replay", "devpoll", "devicespent", "logtokenspent"}
MarkKeys == MarkNamespaces \X (1 .. MaxTokens)

VARIABLES
    authNow,    \* the clock
    authScene,  \* what is asked for in this behaviour
    admins,     \* the allowlist
    adminMu,    \* the calls that hold adminMu
    marks,      \* the expiry of each marker's row, NoRow if there is none
    device,     \* the device records
    userIndex,  \* the user codes that still lead to a record
    logTokens,  \* the expiry of each log token's record
    tokens,     \* the tokens and codes clients hold
    calls,      \* the requests being served
    began,      \* the tick each of them began in
    redeemed,   \* how often each one-time credential was answered with success
    signedOut,  \* token ids and sessions whose revocation was acknowledged
    lastPoll,   \* when each device was last polled
    authFailures

authVars == <<authNow, authScene, admins, adminMu, marks, device, userIndex, logTokens,
              tokens, calls, began, redeemed, signedOut, lastPoll, authFailures>>

IdleCall == [pc |-> "idle"]
NoDevice == [status |-> "none", user |-> 0, exp |-> 0]
OneTime == {"refresh", "code", "device", "log"}

AuthInit ==
    /\ authNow = 1 /\ authScene \in AuthScenes
    /\ admins = Bootstrap /\ adminMu = {}
    /\ marks = [k \in MarkKeys |-> NoRow]
    /\ device = [d \in AuthDevices |-> NoDevice] /\ userIndex = {}
    /\ logTokens = [j \in AuthJobs |-> 0]
    /\ tokens = authScene.held /\ calls = [c \in AuthCalls |-> IdleCall]
    /\ began = [c \in AuthCalls |-> 0]
    /\ redeemed = [k \in OneTime \X (1 .. MaxTokens) |-> 0]
    /\ signedOut = {} /\ authFailures = 0
    /\ lastPoll = [d \in AuthDevices |-> 0]

-----------------------------------------------------------------------------
(* The store *)

\* Get of a marker.
LiveMark(k) ==
    /\ marks[k] # NoRow
    /\ IF authScene.store = "sql" THEN authNow <= marks[k] ELSE authNow < marks[k]

\* Add creates a row where there is none.  In SQL a row whose time has run out is still there.
AddCreates(k) == IF authScene.store = "sql" THEN marks[k] = NoRow ELSE ~LiveMark(k)

PutMark(k, exp) == marks' = [marks EXCEPT ![k] = exp]

\* A signed token carries its expiry; a record in whole seconds ends a tick earlier.
Valid(t) == authNow <= t.exp
LiveRecord(exp) == authNow < exp

DeviceLive(d) == device[d].status # "none" /\ LiveRecord(device[d].exp)
DeviceByUserCode(d) == d \in userIndex /\ DeviceLive(d)

-----------------------------------------------------------------------------
(* Requests *)

Running(c, pc) == calls[c].pc = pc
Goto(c, rec) ==
    /\ calls' = [calls EXCEPT ![c] = rec]
    /\ began' = [began EXCEPT ![c] = IF rec.pc = "idle" THEN 0 ELSE IF calls[c].pc = "idle" THEN authNow ELSE @]
AtStep(c, pc) == Goto(c, [calls[c] EXCEPT !.pc = pc])
Respond(c) == Goto(c, IdleCall)

\* The request is answered with success.  An answer that came too late is kept.
Grant(c, late) == Goto(c, IF late THEN [pc |-> "granted"] ELSE IdleCall)

Accepts(c, kind) == calls[c].pc = "idle" /\ kind \in authScene.kinds

\* sessionFamilyID, and the ids a token can be refused by.
Session(t) == <<"session", t.fam>>
TokenId(t) == <<"jti", t.id>>
SignedOut(t) == TokenId(t) \in signedOut \/ (t.fam # 0 /\ Session(t) \in signedOut)

Redeem(kind, id) == redeemed' = [redeemed EXCEPT ![<<kind, id>>] = @ + 1]

\* A jti is drawn when the token is made and unknown to anyone until the answer: it is named here.
NextId == Cardinality(tokens) + 1

\* issueAccessRefreshForSession: exps are the expiries computed when the tokens were made.
HandPair(user, fam, accessExp, refreshExp) ==
    LET f == IF fam = 0 THEN NextId ELSE fam
    IN /\ Cardinality(tokens) + 2 <= authScene.most
       /\ tokens' = tokens \cup
             {[typ |-> "cli", id |-> NextId, fam |-> f, user |-> user, exp |-> accessExp],
              [typ |-> "refresh", id |-> NextId + 1, fam |-> f, user |-> user, exp |-> refreshExp]}

HandToken(typ, user, ttl) ==
    /\ Cardinality(tokens) + 1 <= authScene.most
    /\ tokens' = tokens \cup {[typ |-> typ, id |-> NextId, fam |-> 0, user |-> user, exp |-> authNow + ttl]}

\* What the handlers of signed tokens leave alone.
Others == <<authNow, authScene, admins, adminMu, device, userIndex, logTokens, lastPoll, authFailures>>

\* What the device, log token and admin handlers leave alone besides.
Signed == <<authNow, authScene, signedOut, authFailures>>

-----------------------------------------------------------------------------
(* RefreshHandler *)

RefreshStart(c) ==
    /\ Accepts(c, "refresh")
    /\ \E t \in tokens :
          /\ t.typ = "refresh" /\ Valid(t)
          /\ Goto(c, [pc |-> "refresh_session", tok |-> t, late |-> SignedOut(t)])
    /\ UNCHANGED <<Others, marks, tokens, redeemed, signedOut>>

RefreshSession(c) ==
    /\ Running(c, "refresh_session")
    /\ IF LiveMark(<<"deny-session", calls[c].tok.fam>>) THEN Respond(c) ELSE AtStep(c, "refresh_admin")
    /\ UNCHANGED <<Others, marks, tokens, redeemed, signedOut>>

\* IsAdmin, and the new pair is made; the refresh token keeps the expiry of the session.
RefreshAdmin(c) ==
    LET t == calls[c].tok
    IN /\ Running(c, "refresh_admin")
       /\ IF t.user \in admins /\ Valid(t)
          THEN Goto(c, [pc |-> "refresh_consume", tok |-> t, late |-> calls[c].late,
                        access |-> authNow + AccessTTL])
          ELSE Respond(c)
       /\ UNCHANGED <<Others, marks, tokens, redeemed, signedOut>>

RefreshConsume(c) ==
    LET t == calls[c].tok
        k == <<"deny", t.id>>
    IN /\ Running(c, "refresh_consume")
       /\ IF Valid(t) /\ AddCreates(k)
          THEN PutMark(k, t.exp) /\ AtStep(c, "refresh_again")
          ELSE Respond(c) /\ UNCHANGED marks
       /\ UNCHANGED <<Others, tokens, redeemed, signedOut>>

\* The session is looked up again, and the pair goes out.
RefreshAgain(c) ==
    LET t == calls[c].tok
    IN /\ Running(c, "refresh_again")
       /\ IF LiveMark(<<"deny-session", t.fam>>)
          THEN Respond(c) /\ UNCHANGED <<tokens, redeemed>>
          ELSE /\ HandPair(t.user, t.fam, calls[c].access, t.exp)
               /\ Redeem("refresh", t.id) /\ Grant(c, calls[c].late)
       /\ UNCHANGED <<Others, marks, signedOut>>

-----------------------------------------------------------------------------
(* RevokeCLIHandler and LogoutHandler *)

\* An access token and a refresh token, or one of them.
RevokeStart(c) ==
    /\ Accepts(c, "revoke")
    /\ \E claims \in {S \in SUBSET {t \in tokens : t.typ \in {"cli", "refresh"} /\ Valid(t)} :
                         S # {} /\ \A t, u \in S : t.typ = u.typ => t = u} :
          Goto(c, [pc |-> "revoke_tokens", claims |-> claims, of |-> claims, families |-> {}])
    /\ UNCHANGED <<Others, marks, tokens, redeemed, signedOut>>

\* revocationPolicy.revoke: nothing is written for a token that has run out.
DenyToken(t) == IF Valid(t) THEN PutMark(<<"deny", t.id>>, t.exp) ELSE UNCHANGED marks

\* Deviation: the marker of a session lives as long as the presented token.
RevokeTokenBriefly(c) ==
    LET left == calls[c].claims
        t == CHOOSE u \in left : u.typ = "cli" \/ \A v \in left : v.typ # "cli"
    IN /\ Running(c, "revoke_tokens") /\ left # {}
       /\ DenyToken(t)
       /\ Goto(c, [calls[c] EXCEPT !.claims = left \ {t},
                                   !.families = @ \cup {[fam |-> t.fam, ttl |-> t.exp - authNow]}])
       /\ UNCHANGED <<Others, tokens, redeemed, signedOut>>

\* The access token first; the time to live of the family's marker is worked out on the way.
RevokeToken(c) ==
    LET left == calls[c].claims
        t == CHOOSE u \in left : u.typ = "cli" \/ \A v \in left : v.typ # "cli"
        ttl == Max({RefreshTTL, t.exp - authNow})
        same == {f \in calls[c].families : f.fam = t.fam}
        longest == Max({ttl} \cup {f.ttl : f \in same})
    IN /\ Running(c, "revoke_tokens") /\ left # {}
       /\ DenyToken(t)
       /\ Goto(c, [calls[c] EXCEPT !.claims = left \ {t},
                                   !.families = (@ \ same) \cup {[fam |-> t.fam, ttl |-> longest]}])
       /\ UNCHANGED <<Others, tokens, redeemed, signedOut>>

RevokeFamily(c) ==
    LET done == calls[c].of
    IN /\ Running(c, "revoke_tokens") /\ calls[c].claims = {}
       /\ \E f \in calls[c].families :
             /\ IF f.ttl > 0 THEN PutMark(<<"deny-session", f.fam>>, authNow + f.ttl) ELSE UNCHANGED marks
             /\ IF calls[c].families = {f}
                THEN /\ Respond(c)
                     /\ signedOut' = signedOut \cup {TokenId(t) : t \in done} \cup {Session(t) : t \in done}
                ELSE /\ Goto(c, [calls[c] EXCEPT !.families = @ \ {f}])
                     /\ UNCHANGED signedOut
       /\ UNCHANGED <<Others, tokens, redeemed>>

LogoutStart(c) ==
    /\ Accepts(c, "logout")
    /\ \E t \in tokens :
          /\ t.typ \in {"bearer", "cli"} /\ Valid(t)
          /\ Goto(c, [pc |-> "logout_token", tok |-> t])
    /\ UNCHANGED <<Others, marks, tokens, redeemed, signedOut>>

LogoutToken(c) ==
    LET t == calls[c].tok
    IN /\ Running(c, "logout_token")
       /\ DenyToken(t)
       /\ IF t.typ = "cli"
          THEN AtStep(c, "logout_session") /\ UNCHANGED signedOut
          ELSE Respond(c) /\ signedOut' = signedOut \cup {TokenId(t)}
       /\ UNCHANGED <<Others, tokens, redeemed>>

LogoutSession(c) ==
    LET t == calls[c].tok
    IN /\ Running(c, "logout_session")
       /\ PutMark(<<"deny-session", t.fam>>, authNow + RefreshTTL)
       /\ signedOut' = signedOut \cup {TokenId(t), Session(t)}
       /\ Respond(c)
       /\ UNCHANGED <<Others, tokens, redeemed>>

-----------------------------------------------------------------------------
(* authorizeAdminRequest and MeHandler: RequestResolver.Resolve *)

AccessStart(c) ==
    /\ Accepts(c, "access")
    /\ \E t \in tokens :
          /\ t.typ \in {"cli", "bearer", "session"} /\ Valid(t)
          /\ Goto(c, [pc |-> IF t.typ = "session" THEN "access_admin" ELSE "access_token",
                      tok |-> t, late |-> SignedOut(t)])
    /\ UNCHANGED <<Others, marks, tokens, redeemed, signedOut>>

\* ClaimsRevoked: the token by its jti, then its session.
AccessToken(c) ==
    LET t == calls[c].tok
    IN /\ Running(c, "access_token")
       /\ IF LiveMark(<<"deny", t.id>>) THEN Respond(c)
          ELSE AtStep(c, IF t.fam # 0 THEN "access_session" ELSE "access_admin")
       /\ UNCHANGED <<Others, marks, tokens, redeemed, signedOut>>

\* Deviation: only the token itself is looked up.
AccessSessionUnread(c) ==
    /\ Running(c, "access_session")
    /\ AtStep(c, "access_admin")
    /\ UNCHANGED <<Others, marks, tokens, redeemed, signedOut>>

AccessSession(c) ==
    /\ Running(c, "access_session")
    /\ IF LiveMark(<<"deny-session", calls[c].tok.fam>>) THEN Respond(c) ELSE AtStep(c, "access_admin")
    /\ UNCHANGED <<Others, marks, tokens, redeemed, signedOut>>

AccessAdmin(c) ==
    /\ Running(c, "access_admin")
    /\ IF calls[c].tok.user \in admins THEN Grant(c, calls[c].late /\ Valid(calls[c].tok)) ELSE Respond(c)
    /\ UNCHANGED <<Others, marks, tokens, redeemed, signedOut>>

-----------------------------------------------------------------------------
(* One-time codes: GitHubCallbackHandler for the browser flows, CLIExchangeHandler,
   WebExchangeHandler *)

\* GitHub answers with an account; without one, or without an admin, there is no code.
Callback(c) ==
    /\ Accepts(c, "login")
    /\ \E u \in admins, typ \in {"code_cli", "code_web", "session"} :
          HandToken(typ, u, IF typ = "session" THEN SessionTTL ELSE CodeTTL)
    /\ UNCHANGED <<Others, marks, calls, began, redeemed, signedOut>>

\* redeemCode: the code, its verifier and the allowlist are checked before it is spent.
ExchangeStart(c) ==
    /\ Accepts(c, "login")
    /\ \E t \in tokens :
          /\ t.typ \in {"code_cli", "code_web"} /\ Valid(t) /\ t.user \in admins
          /\ Goto(c, [pc |-> "exchange", tok |-> t])
    /\ UNCHANGED <<Others, marks, tokens, redeemed, signedOut>>

Exchange(c) ==
    LET t == calls[c].tok
        k == <<"replay", t.id>>
    IN /\ Running(c, "exchange")
       /\ IF Valid(t) /\ AddCreates(k)
          THEN /\ PutMark(k, t.exp) /\ Redeem("code", t.id) /\ Respond(c)
               /\ IF t.typ = "code_cli"
                  THEN HandPair(t.user, 0, authNow + AccessTTL, authNow + RefreshTTL)
                  ELSE HandToken("bearer", t.user, SessionTTL)
          ELSE Respond(c) /\ UNCHANGED <<marks, tokens, redeemed>>
       /\ UNCHANGED <<Others, signedOut>>

-----------------------------------------------------------------------------
(* The device flow *)

\* DeviceCodeHandler, CreateDevice: the record, then the user code that leads to it.
DeviceCode(c) ==
    /\ Accepts(c, "device")
    /\ \E d \in AuthDevices :
          /\ device[d] = NoDevice /\ redeemed[<<"device", d>>] = 0
          /\ device' = [device EXCEPT ![d] = [status |-> "pending", user |-> 0, exp |-> authNow + DeviceTTL]]
          /\ Goto(c, [pc |-> "device_index", dev |-> d])
    /\ UNCHANGED <<Signed, admins, adminMu, marks, userIndex, logTokens, tokens, redeemed, lastPoll>>

DeviceIndex(c) ==
    /\ Running(c, "device_index")
    /\ userIndex' = userIndex \cup {calls[c].dev}
    /\ Respond(c)
    /\ UNCHANGED <<Signed, admins, adminMu, marks, device, logTokens, tokens, redeemed, lastPoll>>

\* DeviceApproveHandler: only a pending code leads to GitHub.
ApproveStart(c) ==
    /\ Accepts(c, "device")
    /\ \E d \in AuthDevices :
          /\ DeviceByUserCode(d) /\ device[d].status = "pending"
          /\ Goto(c, [pc |-> "device_callback", dev |-> d])
    /\ UNCHANGED <<Signed, admins, adminMu, marks, device, userIndex, logTokens, tokens, redeemed, lastPoll>>

\* GitHubCallbackHandler: an account outside the allowlist denies the device.
DeviceCallback(c) ==
    /\ Running(c, "device_callback")
    /\ \E u \in AuthUsers :
          Goto(c, [pc |-> "device_read", dev |-> calls[c].dev, user |-> u,
                   status |-> IF u \in admins THEN "approved" ELSE "denied"])
    /\ UNCHANGED <<Signed, admins, adminMu, marks, device, userIndex, logTokens, tokens, redeemed, lastPoll>>

\* deviceRepository.transition reads the record and puts it back changed, whatever happened meanwhile.
TransitionRead(c) ==
    LET d == calls[c].dev
    IN /\ Running(c, "device_read")
       /\ IF DeviceByUserCode(d)
          THEN Goto(c, [pc |-> "device_put", dev |-> d,
                        rec |-> [status |-> calls[c].status,
                                 user |-> IF calls[c].status = "approved" THEN calls[c].user ELSE device[d].user,
                                 exp |-> device[d].exp]])
          ELSE Respond(c)
       /\ UNCHANGED <<Signed, admins, adminMu, marks, device, userIndex, logTokens, tokens, redeemed, lastPoll>>

TransitionPut(c) ==
    /\ Running(c, "device_put")
    /\ device' = [device EXCEPT ![calls[c].dev] = calls[c].rec]
    /\ Respond(c)
    /\ UNCHANGED <<Signed, admins, adminMu, marks, userIndex, logTokens, tokens, redeemed, lastPoll>>

\* Deviation: the pacing marker lives as long as the device.
PollStartOnce(c) ==
    /\ Accepts(c, "device")
    /\ \E d \in AuthDevices :
          LET k == <<"devpoll", d>>
          IN /\ device[d] # NoDevice
             /\ IF AddCreates(k)
                THEN /\ PutMark(k, device[d].exp)
                     /\ Goto(c, [pc |-> "poll_read", dev |-> d])
                ELSE /\ UNCHANGED marks
                     /\ IF lastPoll[d] # 0 /\ authNow >= lastPoll[d] + DeviceInterval
                        THEN Goto(c, [pc |-> "slowed"]) ELSE UNCHANGED <<calls, began>>
             /\ lastPoll' = [lastPoll EXCEPT ![d] = authNow]
    /\ UNCHANGED <<Signed, admins, adminMu, device, userIndex, logTokens, tokens, redeemed>>

\* DeviceTokenHandler: a poll within the interval of the last accepted one is told to slow down.
PollStart(c) ==
    /\ Accepts(c, "device")
    /\ \E d \in AuthDevices :
          LET k == <<"devpoll", d>>
              rested == authNow >= lastPoll[d] + DeviceInterval
          IN /\ device[d] # NoDevice
             /\ IF AddCreates(k)
                THEN /\ PutMark(k, authNow + DeviceInterval)
                     /\ Goto(c, [pc |-> "poll_read", dev |-> d])
                ELSE /\ UNCHANGED marks
                     /\ IF lastPoll[d] # 0 /\ rested THEN Goto(c, [pc |-> "slowed"]) ELSE UNCHANGED <<calls, began>>
             /\ lastPoll' = [lastPoll EXCEPT ![d] = authNow]
    /\ UNCHANGED <<Signed, admins, adminMu, device, userIndex, logTokens, tokens, redeemed>>

\* Pacing is best effort: when the store fails the poll goes on.
PollUnpaced(c) ==
    /\ Accepts(c, "device") /\ authFailures < authScene.failures
    /\ \E d \in AuthDevices :
          /\ device[d] # NoDevice
          /\ Goto(c, [pc |-> "poll_read", dev |-> d])
          /\ lastPoll' = [lastPoll EXCEPT ![d] = authNow]
    /\ authFailures' = authFailures + 1
    /\ UNCHANGED <<authNow, authScene, signedOut, admins, adminMu, marks, device, userIndex, logTokens,
                   tokens, redeemed>>

PollRead(c) ==
    LET d == calls[c].dev
    IN /\ Running(c, "poll_read")
       /\ IF DeviceLive(d) /\ device[d].status = "approved"
          THEN Goto(c, [pc |-> "poll_admin", dev |-> d, user |-> device[d].user])
          ELSE Respond(c)
       /\ UNCHANGED <<Signed, admins, adminMu, marks, device, userIndex, logTokens, tokens, redeemed, lastPoll>>

\* issueDeviceToken: the allowlist again, the pair is made, ConsumeDevice reads the record.
PollAdmin(c) ==
    LET d == calls[c].dev
    IN /\ Running(c, "poll_admin")
       /\ IF calls[c].user \in admins /\ DeviceLive(d)
          THEN Goto(c, [pc |-> "poll_spend", dev |-> d, user |-> calls[c].user,
                        exp |-> device[d].exp, made |-> authNow])
          ELSE Respond(c)
       /\ UNCHANGED <<Signed, admins, adminMu, marks, device, userIndex, logTokens, tokens, redeemed, lastPoll>>

\* Deviation: the device is spent by deleting its record.
PollSpendByDeleting(c) ==
    /\ Running(c, "poll_spend")
    /\ AtStep(c, "poll_unindex")
    /\ UNCHANGED <<Signed, admins, adminMu, marks, device, userIndex, logTokens, tokens, redeemed, lastPoll>>

PollSpend(c) ==
    LET k == <<"devicespent", calls[c].dev>>
    IN /\ Running(c, "poll_spend")
       /\ IF LiveRecord(calls[c].exp) /\ AddCreates(k)
          THEN PutMark(k, calls[c].exp) /\ AtStep(c, "poll_unindex")
          ELSE Respond(c) /\ UNCHANGED marks
       /\ UNCHANGED <<Signed, admins, adminMu, device, userIndex, logTokens, tokens, redeemed, lastPoll>>

\* Both deletions are best effort.
PollUnindex(c) ==
    /\ Running(c, "poll_unindex")
    /\ userIndex' \in {userIndex, userIndex \ {calls[c].dev}}
    /\ AtStep(c, "poll_answer")
    /\ UNCHANGED <<Signed, admins, adminMu, marks, device, logTokens, tokens, redeemed, lastPoll>>

PollAnswer(c) ==
    LET d == calls[c].dev
        made == calls[c].made
    IN /\ Running(c, "poll_answer")
       /\ device' \in {device, [device EXCEPT ![d] = NoDevice]}
       /\ HandPair(calls[c].user, 0, made + AccessTTL, made + RefreshTTL)
       /\ Redeem("device", d) /\ Respond(c)
       /\ UNCHANGED <<Signed, admins, adminMu, marks, userIndex, logTokens, lastPoll>>

-----------------------------------------------------------------------------
(* Log tokens: MintLogTokenHandler, RequireLogAccess, ConsumeLogToken *)

MintLogToken(c) ==
    /\ Accepts(c, "log")
    /\ \E j \in AuthJobs :
          /\ logTokens[j] = 0 /\ redeemed[<<"log", j>>] = 0
          /\ logTokens' = [logTokens EXCEPT ![j] = authNow + LogTokenTTL]
    /\ UNCHANGED <<Signed, admins, adminMu, marks, device, userIndex, tokens, calls, began, redeemed, lastPoll>>

LogTokenRead(c) ==
    /\ Accepts(c, "log")
    /\ \E j \in AuthJobs :
          /\ logTokens[j] # 0 /\ LiveRecord(logTokens[j])
          /\ Goto(c, [pc |-> "log_spend", job |-> j, exp |-> logTokens[j]])
    /\ UNCHANGED <<Signed, admins, adminMu, marks, device, userIndex, logTokens, tokens, redeemed, lastPoll>>

LogTokenSpend(c) ==
    LET k == <<"logtokenspent", calls[c].job>>
    IN /\ Running(c, "log_spend")
       /\ IF LiveRecord(calls[c].exp) /\ AddCreates(k)
          THEN PutMark(k, calls[c].exp) /\ AtStep(c, "log_delete")
          ELSE Respond(c) /\ UNCHANGED marks
       /\ UNCHANGED <<Signed, admins, adminMu, device, userIndex, logTokens, tokens, redeemed, lastPoll>>

LogTokenDelete(c) ==
    LET j == calls[c].job
    IN /\ Running(c, "log_delete")
       /\ logTokens' \in {logTokens, [logTokens EXCEPT ![j] = 0]}
       /\ Redeem("log", j) /\ Respond(c)
       /\ UNCHANGED <<Signed, admins, adminMu, marks, device, userIndex, tokens, lastPoll>>

-----------------------------------------------------------------------------
(* The allowlist: AddAdmin, RemoveAdmin *)

AddAdmin(c) ==
    /\ Accepts(c, "admin") /\ adminMu = {}
    /\ \E u \in AuthUsers : admins' = admins \cup {u}
    /\ UNCHANGED <<Signed, adminMu, marks, device, userIndex, logTokens, tokens, calls, began, redeemed, lastPoll>>

\* Deviation: the mutex is not held from the listing to the removal.
RemoveListUnlocked(c) ==
    /\ Accepts(c, "admin")
    /\ \E u \in AuthUsers :
          IF admins = {u}
          THEN UNCHANGED <<calls, began>>
          ELSE Goto(c, [pc |-> "remove", user |-> u])
    /\ UNCHANGED <<Signed, admins, adminMu, marks, device, userIndex, logTokens, tokens, redeemed, lastPoll>>

RemoveList(c) ==
    /\ Accepts(c, "admin") /\ adminMu = {}
    /\ \E u \in AuthUsers :
          IF admins = {u}
          THEN UNCHANGED <<adminMu, calls, began>>
          ELSE adminMu' = {c} /\ Goto(c, [pc |-> "remove", user |-> u])
    /\ UNCHANGED <<Signed, admins, marks, device, userIndex, logTokens, tokens, redeemed, lastPoll>>

RemoveAdmin(c) ==
    /\ Running(c, "remove")
    /\ admins' = admins \ {calls[c].user}
    /\ adminMu' = {} /\ Respond(c)
    /\ UNCHANGED <<Signed, marks, device, userIndex, logTokens, tokens, redeemed, lastPoll>>

-----------------------------------------------------------------------------
\* A store call fails and the handler gives up.  A write that was carried out although it
\* failed shows as the next step failing.
StoreFails(c) ==
    /\ authFailures < authScene.failures
    /\ calls[c].pc \notin {"idle", "granted", "slowed", "poll_unindex", "poll_answer", "log_delete"}
    /\ authFailures' = authFailures + 1
    /\ adminMu' = adminMu \ {c}
    /\ Respond(c)
    /\ UNCHANGED <<authNow, authScene, signedOut, admins, marks, device, userIndex, logTokens,
                   tokens, redeemed, lastPoll>>

\* A request is answered within moments and lifetimes are minutes or more: none is still
\* running at the end of the tick after the one it began in.
AuthTick ==
    /\ authNow < AuthHorizon
    /\ \A c \in AuthCalls : calls[c].pc # "idle" => began[c] = authNow
    /\ authNow' = authNow + 1
    /\ UNCHANGED <<authScene, admins, adminMu, marks, device, userIndex, logTokens, tokens, calls,
                   began, redeemed, signedOut, lastPoll, authFailures>>

AuthStep(c) ==
    \/ RefreshStart(c) \/ RefreshSession(c) \/ RefreshAdmin(c) \/ RefreshConsume(c) \/ RefreshAgain(c)
    \/ RevokeStart(c) \/ RevokeToken(c) \/ RevokeFamily(c)
    \/ LogoutStart(c) \/ LogoutToken(c) \/ LogoutSession(c)
    \/ AccessStart(c) \/ AccessToken(c) \/ AccessSession(c) \/ AccessAdmin(c)
    \/ Callback(c) \/ ExchangeStart(c) \/ Exchange(c)
    \/ DeviceCode(c) \/ DeviceIndex(c) \/ ApproveStart(c) \/ DeviceCallback(c)
    \/ TransitionRead(c) \/ TransitionPut(c)
    \/ PollStart(c) \/ PollUnpaced(c) \/ PollRead(c) \/ PollAdmin(c) \/ PollSpend(c)
    \/ PollUnindex(c) \/ PollAnswer(c)
    \/ MintLogToken(c) \/ LogTokenRead(c) \/ LogTokenSpend(c) \/ LogTokenDelete(c)
    \/ AddAdmin(c) \/ RemoveList(c) \/ RemoveAdmin(c) \/ StoreFails(c)

AuthNext == AuthTick \/ \E c \in AuthCalls : AuthStep(c)

AuthSpec == AuthInit /\ [][AuthNext]_authVars

-----------------------------------------------------------------------------
(* Properties *)

\* A refresh token, a one-time code, a device code and a log token are each answered with
\* success at most once, whatever requests race for them, whatever a late approval puts back
\* and however long the token still lives.  (With badger this fails for signed tokens in the
\* last second of their life, where the marker is gone before the token.)
SingleUse == authScene.store = "sql" => \A k \in DOMAIN redeemed : redeemed[k] <= 1

\* No request that began after its token or its session was signed out is granted: the session's
\* marker outlives every token of the session, those of a refresh that raced the revocation included.
\* (A token that runs out while its request is served is not held against it: its own marker runs out
\* with it, and the next request would be refused for the expiry.)
SignedOutIsRefused == authScene.store = "sql" => \A c \in AuthCalls : calls[c].pc # "granted"

\* A client that waits the advertised interval between polls is never told to slow down.
\* On a SQL store the code does not keep it (README, section 6).
PatientPollServed == \A c \in AuthCalls : calls[c].pc # "slowed"

\* The same where the markers are in badger, whose Add takes an expired marker for none.
BadgerPollServed == authScene.store = "badger" => PatientPollServed

\* RemoveAdmin never empties the allowlist of one process.
SomeAdmin == admins # {}

\* Signing in, as a whole: nothing is redeemed twice, nothing outlives a sign-out, a
\* patient device is served, and an administrator is left, however requests overlap.
SessionsHold == SingleUse /\ SignedOutIsRefused /\ BadgerPollServed /\ SomeAdmin
=============================================================================
