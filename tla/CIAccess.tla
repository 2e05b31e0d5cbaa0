------------------------------ MODULE CIAccess ------------------------------
(***************************************************************************)
(* Who may publish without being a person: the routes of ayato that accept *)
(* an API key or an OIDC token of a CI run next to an administrator's      *)
(* session, run on every request of a small world.                         *)
(*                                                                         *)
(* A request is a record [apiKey, bearer, admin]: the X-API-Key header ("" *)
(* for none), what the Authorization header holds, and whether session or  *)
(* token are an administrator's.  A bearer is a record [shape, genuine,    *)
(* claims] of a shape in {"none", "jwt", "own", "basic"}; genuine says     *)
(* that signature, issuer, audience and expiry verify.                     *)
(***************************************************************************)
EXTENDS Naturals, Sequences

CONSTANTS CISettings,   \* records [keys, oidc, publishers, legacyBasic]
          CIRequests, CITargets

\* The keys are a list.
ASSUME CIAccessAssumption ==
  \A s \in CISettings : s.keys \in Seq({s.keys[i] : i \in DOMAIN s.keys})

VARIABLE ciCase         \* the input and the outcome of the last request

AnyTarget == "*"

Granted(allowed, target) == target \in allowed \/ AnyTarget \in allowed

\* match: the last of the entries with this key.
MatchKey(keys, presented) ==
  LET at == {i \in DOMAIN keys : keys[i].key = presented}
  IN IF at = {} THEN {} ELSE {keys[CHOOSE i \in at : \A k \in at : k <= i]}

\* authorizeGrant.
AuthorizeGrant(keys, presented, target, grant) ==
  \E e \in MatchKey(keys, presented) : Granted(IF grant = "service" THEN e.scopes ELSE e.repos, target)

\* Deviation: the slug is good enough.
PublisherMatchesSlug(p, c) == c.repository = p.repository \/ (p.id # "" /\ c.id = p.id)

\* matches: the immutable id when it is configured, else the slug.
PublisherMatches(p, c) == IF p.id # "" THEN c.id = p.id ELSE c.repository = p.repository

\* authorizeClaims.  The event "pull_request" stands for all three that are refused:
\* pull_request, pull_request_target and a subject that ends in :pull_request.
AuthorizeClaims(publishers, c, repo) ==
  /\ c.event # "pull_request"
  /\ \E i \in DOMAIN publishers :
       LET p == publishers[i]
       IN PublisherMatches(p, c) /\ c.ref \in p.refs /\ Granted(p.repos, repo)

\* Authorize: one verifier, chosen by the shape of the headers.
Authorize(s, r, repo) ==
  IF r.apiKey # ""
  THEN IF AuthorizeGrant(s.keys, r.apiKey, repo, "repository") THEN "allow" ELSE "deny"
  ELSE IF r.bearer.shape = "jwt"
  THEN IF s.oidc /\ r.bearer.genuine /\ AuthorizeClaims(s.publishers, r.bearer.claims, repo) THEN "allow" ELSE "deny"
  ELSE "none"

AuthorizeScope(s, r, scope) ==
  IF r.apiKey = "" THEN "none"
  ELSE IF AuthorizeGrant(s.keys, r.apiKey, scope, "service") THEN "allow" ELSE "deny"

\* Enabled.
CIEnabled(s) == s.keys # <<>> \/ s.oidc

\* RequireAdmin: a token in the Authorization header is looked at after the cookie;
\* an administrator's token as a Basic password only where it is allowed.
\* The same-origin check of a cookie's request and an answer that the session store is
\* unavailable refuse more than this, and are left out.
RequireAdmin(r, allowBasic) ==
  \/ r.admin = "cookie"
  \/ r.admin = "token" /\ r.bearer.shape = "own"
  \/ r.admin = "token" /\ r.bearer.shape = "basic" /\ allowBasic

\* Deviation: a credential that is refused leaves the request to the administrators.
AfterCIWeak(outcome, r) == outcome = "allow" \/ RequireAdmin(r, FALSE)

\* A credential that is refused is final.
AfterCI(outcome, r) == outcome = "allow" \/ (outcome = "none" /\ RequireAdmin(r, FALSE))

\* RequireCI.
RequireCI(s, r, repo) ==
  IF CIEnabled(s) THEN AfterCI(Authorize(s, r, repo), r) ELSE RequireAdmin(r, FALSE)

\* RequireServiceScope.
RequireServiceScope(s, r, scope) ==
  IF CIEnabled(s) THEN AfterCI(AuthorizeScope(s, r, scope), r) ELSE RequireAdmin(r, FALSE)

\* RequireSignerRegistration.
RequireSignerRegistration(s, r) ==
  IF r.apiKey = "" /\ s.legacyBasic /\ r.bearer.shape = "basic" THEN RequireAdmin(r, TRUE)
  ELSE RequireServiceScope(s, r, "signer:register")

CIAInit == ciCase = [kind |-> "none"]

PublishCase(s, r, repo) ==
  ciCase' = [kind |-> "publish", s |-> s, r |-> r, target |-> repo, ok |-> RequireCI(s, r, repo)]

RegisterCase(s, r) ==
  ciCase' = [kind |-> "register", s |-> s, r |-> r, target |-> "signer:register",
             ok |-> RequireSignerRegistration(s, r)]

CIANext ==
  /\ ciCase.kind = "none"
  /\ \E s \in CISettings, r \in CIRequests :
       \/ RegisterCase(s, r)
       \/ \E repo \in CITargets : PublishCase(s, r, repo)

CIASpec == CIAInit /\ [][CIANext]_ciCase

Route(kind, s, r, target) ==
  IF kind = "publish" THEN RequireCI(s, r, target) ELSE RequireSignerRegistration(s, r)

\* Where CI access is configured, an API key decides alone: whether the request
\* also carries an administrator's session or a token changes nothing, and what it
\* opens was granted to an entry with that key.  A CI token decides alone where
\* packages are published.
CredentialDecides ==
  (ciCase.kind # "none" /\ CIEnabled(ciCase.s)) =>
    LET c == ciCase
        decides == c.r.apiKey # "" \/ (c.kind = "publish" /\ c.r.bearer.shape = "jwt")
        opens == {i \in DOMAIN c.s.keys : c.s.keys[i].key = c.r.apiKey}
    IN /\ decides => \A o \in CIRequests :
            (o.apiKey = c.r.apiKey /\ (c.r.apiKey # "" \/ o.bearer = c.r.bearer)) =>
               Route(c.kind, c.s, o, c.target) = c.ok
       /\ (c.r.apiKey # "" /\ c.ok) =>
            \E i \in opens : {c.target, AnyTarget} \cap (IF c.kind = "publish" THEN c.s.keys[i].repos
                                                                     ELSE c.s.keys[i].scopes) # {}

\* What a CI token publishes was configured for the repository that ran: by its
\* id where one is given, whoever holds the slug today, and never by a run for
\* a pull request.
TokenIsPinned ==
  (ciCase.kind = "publish" /\ ciCase.ok /\ CIEnabled(ciCase.s)
     /\ ciCase.r.apiKey = "" /\ ciCase.r.bearer.shape = "jwt") =>
    LET c == ciCase.r.bearer.claims
        may == {i \in DOMAIN ciCase.s.publishers :
                  /\ c.ref \in ciCase.s.publishers[i].refs
                  /\ ciCase.s.publishers[i].repos \cap {ciCase.target, AnyTarget} # {}}
    IN /\ ciCase.r.bearer.genuine /\ c.event # "pull_request"
       /\ \E i \in may : LET p == ciCase.s.publishers[i]
                         IN c.id = p.id \/ (p.id = "" /\ c.repository = p.repository)

\* CI access, as a whole: one credential decides, and a token is pinned to its source.
AccessHolds == CredentialDecides /\ TokenIsPinned
=============================================================================
