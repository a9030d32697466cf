------------------------------ MODULE Callout -------------------------------
(***************************************************************************)
(* The authorizer of the callout service (internal/callout) at work:       *)
(* requests handled by Authorize, concurrently with Reload, with the key   *)
(* rotation of the identity providers and with the passing of time.        *)
(*                                                                         *)
(* A Reload replaces the ruleset (verifier and policy) by storing a new    *)
(* pointer.  The rulesets are numbered in the order in which they are      *)
(* installed (generations); the pointer is the number of the last one.     *)
(* Each owns a verifier, hence a key cache per issuer that starts empty.   *)
(*                                                                         *)
(* The life of a request, by the pc of the worker that runs Authorize:     *)
(*                                                                         *)
(*   idle -> load -> verify -> (fetch) -> claims -> evaluate -> sign       *)
(*        -> allow -> done                                                 *)
(*                                                                         *)
(* and from load, verify, fetch, claims and evaluate also -> deny ->       *)
(* reason -> done.  "done" keeps the answer until the next request.        *)
(***************************************************************************)
EXTENDS Decision

CONSTANTS
    Workers,       \* goroutines that may run Authorize
    Tokens,        \* the tokens clients may present
    Configs,       \* the loaded configurations a Reload may install
    InitConfig,    \* the configuration the service starts with
    Providers,     \* the identity providers
    Published,     \* Published[p]: the key sets p publishes, one per epoch
    MaxGens,       \* bound on the rulesets installed, the first included
    MaxRequests,   \* bound on the requests received
    StartClock,    \* the clock when the service starts, in ticks
    MaxClock       \* bound on the clock

(* What config.Load and verifier.New guarantee of an installed config.     *)
ASSUME ConfigAssumption ==
    /\ InitConfig \in Configs
    /\ \A c \in Configs :
        /\ VerifierValid(c) /\ PolicyValid(c.policy)
        /\ DOMAIN c.policy = 1..Len(c.policy) /\ Len(c.policy) \in Nat
        /\ Issuers(c) \subseteq Providers
        /\ \A i \in 1..Len(c.policy) : c.policy[i].maxExpiry \in Int

ASSUME TokenAssumption ==
    /\ NoToken \notin Tokens
    /\ \A t \in Tokens : t.exp \in Nat /\ t.nbf \in Nat

ASSUME PublishedAssumption ==
    \A p \in Providers : Len(Published[p]) \in Nat /\ Len(Published[p]) > 0

ASSUME BoundAssumption ==
    /\ MaxGens \in Nat \ {0} /\ MaxRequests \in Nat
    /\ StartClock \in Nat /\ MaxClock \in Nat /\ StartClock <= MaxClock

Gens == 1..MaxGens

(* The denial reasons the code counts under, and the accounts it grants.   *)
Reasons  == {"no_token", "verification_failed", "policy_no_match", "signing_failed"}
Accounts == UNION {{c.policy[i].account : i \in 1..Len(c.policy)} : c \in Configs}
ClaimSets == UNION {Parse(t.payload) : t \in Tokens}

VARIABLES
    clock,      \* time.Now(), in ticks
    state,      \* Authorizer.state: the generation of the current ruleset
    config,     \* config[g]: the configuration ruleset g was built from
    born,       \* born[g][p]: the key epoch of p when g was installed
    keys,       \* keys[g][p]: the epoch of the keys g has cached, 0 for none
    fetch,      \* fetch[g][p]: the epoch in which the running fetch began, 0 for none
    epoch,      \* epoch[p]: the current key epoch of provider p
    req,        \* req[w]: the request worker w handles or has last answered
    received,   \* requests received
    allowed,    \* authorization_requests_total{result="allowed"}
    denied,     \* authorization_requests_total{result="denied"}
    denials     \* authorization_denials_total, by reason

cfgVars     == <<state, config, born>>
keyVars     == <<keys, fetch>>
metricsVars == <<allowed, denied, denials>>
vars        == <<clock, cfgVars, keyVars, epoch, req, received, metricsVars>>

-----------------------------------------------------------------------------
(* A request: the token presented; the generation current and the time     *)
(* when it arrived (lo, start); the ruleset it loaded (st); the time of    *)
(* the expiry check and the epoch of the keys that verified it; the claims *)
(* and the rule under evaluation; the user JWT issued (account, expires)   *)
(* and when; the verdict and the generation current at the answer (hi).    *)
NoRequest ==
    [pc |-> "idle", token |-> NoToken, lo |-> 1, start |-> StartClock, st |-> 1,
     checkedAt |-> StartClock, keyEpoch |-> 0, claims |-> {}, rule |-> 1,
     account |-> "", expires |-> 0, signedAt |-> StartClock,
     verdict |-> "none", reason |-> "none", hi |-> 1]

Init ==
    /\ clock = StartClock
    /\ state = 1
    /\ config = [g \in Gens |-> InitConfig]
    /\ born   = [g \in Gens |-> [p \in Providers |-> 1]]
    /\ keys   = [g \in Gens |-> [p \in Providers |-> 0]]
    /\ fetch  = [g \in Gens |-> [p \in Providers |-> 0]]
    /\ epoch  = [p \in Providers |-> 1]
    /\ req    = [w \in Workers |-> NoRequest]
    /\ received = 0
    /\ allowed = 0 /\ denied = 0
    /\ denials = [r \in Reasons |-> 0]

-----------------------------------------------------------------------------
(* Authorize, step by step.  A definition named X_Y is X with the mistake  *)
(* Y; it is not part of the specification, and shows that a property       *)
(* notices the mistake.                                                    *)

(* The request leaves Authorize through RecordDenied with this reason.     *)
Deny(r, reason) == [r EXCEPT !.pc = "deny", !.reason = reason]

Receive_NoStart(w, t) ==
    /\ req[w].pc \in {"idle", "done"}
    /\ received < MaxRequests
    /\ req' = [req EXCEPT ![w] = [NoRequest EXCEPT
                    !.pc = "load", !.token = t, !.lo = state, !.start = 0]]
    /\ received' = received + 1
    /\ UNCHANGED <<clock, cfgVars, keyVars, epoch, metricsVars>>

(* Authorize is entered; start is taken.                                   *)
Receive(w, t) ==
    /\ req[w].pc \in {"idle", "done"}
    /\ received < MaxRequests
    /\ req' = [req EXCEPT ![w] = [NoRequest EXCEPT
                    !.pc = "load", !.token = t, !.lo = state, !.start = clock]]
    /\ received' = received + 1
    /\ UNCHANGED <<clock, cfgVars, keyVars, epoch, metricsVars>>

(* st := a.state.Load(), then the check for an empty token.                *)
LoadState(w) ==
    LET r == [req[w] EXCEPT !.st = state]
    IN  /\ req[w].pc = "load"
        /\ req' = [req EXCEPT ![w] =
                IF r.token = NoToken THEN Deny(r, "no_token")
                                     ELSE [r EXCEPT !.pc = "verify"]]
        /\ UNCHANGED <<clock, cfgVars, keyVars, epoch, received, metricsVars>>

RejectToken(w) ==
    LET r == req[w]
    IN  /\ r.pc = "verify"
        /\ ~Admissible(config[r.st], r.token, clock)
        /\ req' = [req EXCEPT ![w] = Deny(r, "verification_failed")]
        /\ UNCHANGED <<clock, cfgVars, keyVars, epoch, received, metricsVars>>

(* Keys of epoch e contain the key that signed the token.                  *)
SignedWithin(tok, e) == e # 0 /\ tok.key \in Published[tok.iss][e]

UseCachedKeys(w) ==
    LET r == req[w]
    IN  /\ r.pc = "verify"
        /\ Admissible(config[r.st], r.token, clock)
        /\ SignedWithin(r.token, keys[r.st][r.token.iss])
        /\ req' = [req EXCEPT ![w] = [r EXCEPT !.pc = "claims", !.checkedAt = clock,
                                               !.keyEpoch = keys[r.st][r.token.iss]]]
        /\ UNCHANGED <<clock, cfgVars, keyVars, epoch, received, metricsVars>>

(* No cached key verifies the token: start a fetch, or join the running    *)
(* one (go-oidc keeps one fetch in flight per key set).                    *)
AwaitKeys(w) ==
    LET r == req[w]
        p == r.token.iss
    IN  /\ r.pc = "verify"
        /\ Admissible(config[r.st], r.token, clock)
        /\ ~SignedWithin(r.token, keys[r.st][p])
        /\ req' = [req EXCEPT ![w] = [r EXCEPT !.pc = "fetch", !.checkedAt = clock]]
        /\ fetch' = IF fetch[r.st][p] = 0
                    THEN [fetch EXCEPT ![r.st][p] = epoch[p]] ELSE fetch
        /\ UNCHANGED <<clock, cfgVars, keys, epoch, received, metricsVars>>

Waiting(w, g, p) == req[w].pc = "fetch" /\ req[w].st = g /\ req[w].token.iss = p

(* A fetch brings the keys of an epoch it overlapped; every request that   *)
(* waits for it is verified with them.                                     *)
KeysArrive(g, p) ==
    /\ fetch[g][p] # 0
    /\ \E e \in fetch[g][p]..epoch[p] :
        /\ keys' = [keys EXCEPT ![g][p] = e]
        /\ req' = [w \in Workers |->
                IF ~Waiting(w, g, p) THEN req[w]
                ELSE IF SignedWithin(req[w].token, e)
                     THEN [req[w] EXCEPT !.pc = "claims", !.keyEpoch = e]
                     ELSE Deny(req[w], "verification_failed")]
    /\ fetch' = [fetch EXCEPT ![g][p] = 0]
    /\ UNCHANGED <<clock, cfgVars, epoch, received, metricsVars>>

KeysFail(g, p) ==
    /\ fetch[g][p] # 0
    /\ fetch' = [fetch EXCEPT ![g][p] = 0]
    /\ req' = [w \in Workers |-> IF Waiting(w, g, p) THEN Deny(req[w], "verification_failed")
                                                     ELSE req[w]]
    /\ UNCHANGED <<clock, cfgVars, keys, epoch, received, metricsVars>>

VerifyTimeout_Never(w) == w \notin Workers /\ UNCHANGED vars

(* verifyTimeout: the request stops waiting; the fetch goes on.            *)
VerifyTimeout(w) ==
    /\ req[w].pc = "fetch"
    /\ req' = [req EXCEPT ![w] = Deny(req[w], "verification_failed")]
    /\ UNCHANGED <<clock, cfgVars, keyVars, epoch, received, metricsVars>>

(* The policy is taken from a second a.state.Load().                       *)
CheckClaims_LoadsAgain(w) ==
    LET r == req[w]
        cfg == config[r.st]
    IN  /\ r.pc = "claims"
        /\ \E claims \in Parse(r.token.payload) :
            req' = [req EXCEPT ![w] =
                IF /\ AudienceAllowed(cfg, r.token)
                   /\ RequiredClaimsHeld(cfg, r.token, claims)
                THEN [r EXCEPT !.pc = "evaluate", !.claims = claims, !.st = state]
                ELSE Deny(r, "verification_failed")]
        /\ UNCHANGED <<clock, cfgVars, keyVars, epoch, received, metricsVars>>

(* The issuer's required claims are not looked at.                         *)
CheckClaims_NotRequired(w) ==
    LET r == req[w]
    IN  /\ r.pc = "claims"
        /\ \E claims \in Parse(r.token.payload) :
            req' = [req EXCEPT ![w] =
                IF AudienceAllowed(config[r.st], r.token)
                THEN [r EXCEPT !.pc = "evaluate", !.claims = claims]
                ELSE Deny(r, "verification_failed")]
        /\ UNCHANGED <<clock, cfgVars, keyVars, epoch, received, metricsVars>>

(* The rest of Verify: audience, claim set, the issuer's required claims.  *)
CheckClaims(w) ==
    LET r == req[w]
        cfg == config[r.st]
    IN  /\ r.pc = "claims"
        /\ \E claims \in Parse(r.token.payload) :
            req' = [req EXCEPT ![w] =
                IF /\ AudienceAllowed(cfg, r.token)
                   /\ RequiredClaimsHeld(cfg, r.token, claims)
                THEN [r EXCEPT !.pc = "evaluate", !.claims = claims]
                ELSE Deny(r, "verification_failed")]
        /\ UNCHANGED <<clock, cfgVars, keyVars, epoch, received, metricsVars>>

(* One round of Evaluate's loop: a CEL rule reads the clock anew.          *)
EvaluateRule(w) ==
    LET r == req[w]
        policy == config[r.st].policy
        match == RuleMatches(policy[r.rule], VerifiedIdentity(r.token, r.claims), clock)
    IN  /\ r.pc = "evaluate"
        /\ \/ /\ match
              /\ req' = [req EXCEPT ![w].pc = "sign"]
           \/ /\ ~match /\ r.rule < Len(policy)
              /\ req' = [req EXCEPT ![w].rule = r.rule + 1]
           \/ /\ ~match /\ r.rule = Len(policy)
              /\ req' = [req EXCEPT ![w] = Deny(r, "policy_no_match")]
        /\ UNCHANGED <<clock, cfgVars, keyVars, epoch, received, metricsVars>>

(* The user JWT is made and encoded.                                       *)
Sign(w) ==
    LET r == req[w]
        grant == config[r.st].policy[r.rule]
    IN  /\ r.pc = "sign"
        /\ req' = [req EXCEPT ![w] = [r EXCEPT !.pc = "allow", !.account = grant.account,
                !.expires = Unix(CappedExpiry(r.token.exp * TPS, grant.maxExpiry, clock)),
                !.signedAt = clock]]
        /\ UNCHANGED <<clock, cfgVars, keyVars, epoch, received, metricsVars>>

(* Encode fails: Authorize returns without touching the metrics.           *)
SignFails(w) ==
    /\ req[w].pc = "sign"
    /\ req' = [req EXCEPT ![w] = [req[w] EXCEPT !.pc = "done", !.verdict = "denied",
                                    !.reason = "signing_failed", !.hi = state]]
    /\ UNCHANGED <<clock, cfgVars, keyVars, epoch, received, metricsVars>>

(* metrics.RecordAllowed, and the answer.                                  *)
RecordAllowed(w) ==
    /\ req[w].pc = "allow"
    /\ allowed' = allowed + 1
    /\ req' = [req EXCEPT ![w] = [req[w] EXCEPT !.pc = "done", !.verdict = "granted",
                                                !.hi = state]]
    /\ UNCHANGED <<clock, cfgVars, keyVars, epoch, received, denied, denials>>

RecordDenied_NoTotal(w) ==
    /\ req[w].pc = "deny"
    /\ req' = [req EXCEPT ![w].pc = "reason"]
    /\ UNCHANGED <<clock, cfgVars, keyVars, epoch, received, metricsVars>>

(* metrics.RecordDenied increments two counters, one after the other.      *)
RecordDenied(w) ==
    /\ req[w].pc = "deny"
    /\ denied' = denied + 1
    /\ req' = [req EXCEPT ![w].pc = "reason"]
    /\ UNCHANGED <<clock, cfgVars, keyVars, epoch, received, allowed, denials>>

RecordReason(w) ==
    /\ req[w].pc = "reason"
    /\ denials' = [denials EXCEPT ![req[w].reason] = @ + 1]
    /\ req' = [req EXCEPT ![w] = [req[w] EXCEPT !.pc = "done", !.verdict = "denied",
                                                !.hi = state]]
    /\ UNCHANGED <<clock, cfgVars, keyVars, epoch, received, allowed, denied>>

-----------------------------------------------------------------------------
(* The environment of the request handlers.                                *)

(* The new verifier takes over the key cache of the old one.               *)
Reload_KeepsKeys(c) ==
    /\ state < MaxGens
    /\ state' = state + 1
    /\ config' = [config EXCEPT ![state + 1] = c]
    /\ born' = [born EXCEPT ![state + 1] = epoch]
    /\ keys' = [keys EXCEPT ![state + 1] = keys[state]]
    /\ UNCHANGED <<clock, fetch, epoch, req, received, metricsVars>>

(* Authorizer.Reload: a new ruleset, its key cache empty, in one store.    *)
Reload(c) ==
    /\ state < MaxGens
    /\ state' = state + 1
    /\ config' = [config EXCEPT ![state + 1] = c]
    /\ born' = [born EXCEPT ![state + 1] = epoch]
    /\ UNCHANGED <<clock, keyVars, epoch, req, received, metricsVars>>

RotateKeys(p) ==
    /\ epoch[p] < Len(Published[p])
    /\ epoch' = [epoch EXCEPT ![p] = @ + 1]
    /\ UNCHANGED <<clock, cfgVars, keyVars, req, received, metricsVars>>

Tick ==
    /\ clock < MaxClock
    /\ clock' = clock + 1
    /\ UNCHANGED <<cfgVars, keyVars, epoch, req, received, metricsVars>>

(* No request is left to answer and none may arrive any more.              *)
Quiescent ==
    /\ received = MaxRequests
    /\ \A w \in Workers : req[w].pc \in {"idle", "done"}
    /\ UNCHANGED vars

Authorize(w) ==
    \/ LoadState(w) \/ RejectToken(w) \/ UseCachedKeys(w) \/ AwaitKeys(w)
    \/ VerifyTimeout(w) \/ CheckClaims(w) \/ EvaluateRule(w)
    \/ Sign(w) \/ SignFails(w)
    \/ RecordAllowed(w) \/ RecordDenied(w) \/ RecordReason(w)

Next ==
    \/ \E w \in Workers, t \in Tokens \cup {NoToken} : Receive(w, t)
    \/ \E w \in Workers : Authorize(w)
    \/ \E g \in Gens, p \in Providers : KeysArrive(g, p) \/ KeysFail(g, p)
    \/ \E c \in Configs : Reload(c)
    \/ \E p \in Providers : RotateKeys(p)
    \/ Tick
    \/ Quiescent

(* A goroutine that can run does run, and a context's deadline does pass.  *)
Fairness == \A w \in Workers : WF_vars(Authorize(w))

Spec == Init /\ [][Next]_vars /\ Fairness

-----------------------------------------------------------------------------
(* Properties.                                                             *)

Request ==
    [pc : {"idle", "load", "verify", "fetch", "claims", "evaluate", "sign",
           "allow", "deny", "reason", "done"},
     token : Tokens \cup {NoToken}, lo : Gens, start : StartClock..MaxClock,
     st : Gens, checkedAt : StartClock..MaxClock, keyEpoch : Nat,
     claims : ClaimSets \cup {{}}, rule : Nat, account : Accounts \cup {""},
     expires : Int, signedAt : StartClock..MaxClock,
     verdict : {"none", "granted", "denied"}, reason : Reasons \cup {"none"},
     hi : Gens]

(* Every variable keeps to the type its comment gives; in particular the   *)
(* pointer always names an installed ruleset and no worker leaves the      *)
(* steps of Authorize.                                                     *)
TypeOK ==
    /\ clock \in StartClock..MaxClock
    /\ state \in Gens
    /\ config \in [Gens -> Configs]
    /\ born \in [Gens -> [Providers -> Nat]]
    /\ keys \in [Gens -> [Providers -> Nat]]
    /\ fetch \in [Gens -> [Providers -> Nat]]
    /\ epoch \in [Providers -> Nat]
    /\ req \in [Workers -> Request]
    /\ received \in 0..MaxRequests
    /\ allowed \in Nat /\ denied \in Nat
    /\ denials \in [Reasons -> Nat]

Granted(w) == req[w].pc = "done" /\ req[w].verdict = "granted"

(* Configuration cfg explains the grant in r: at moments between the       *)
(* arrival of the request and the signing of the JWT, it accepts the token *)
(* and the rule applied is its first match.                                *)
Explains(cfg, r) ==
    /\ Accepts(cfg, r.token, r.claims, r.start..r.signedAt)
    /\ FirstMatch(cfg, r.rule, r.token, r.claims, r.start..r.signedAt)
    /\ r.account = cfg.policy[r.rule].account

(* A Reload in the middle of Authorize never mixes two configurations: the *)
(* verification and the policy decision of a grant are those of one        *)
(* configuration, which was current at some time between the arrival of    *)
(* the request and its answer (the snapshot of Authorize).                 *)
GrantFromOneConfig ==
    \A w \in Workers :
        Granted(w) => \E g \in req[w].lo..req[w].hi : Explains(config[g], req[w])

(* However long verification takes, and whatever is reloaded meanwhile,    *)
(* the JWT expires at the last whole second that is later neither than the *)
(* token's expiry nor, if the rule has a cap, than signing time plus cap   *)
(* (cappedExpiry and Unix).                                                *)
GrantExpiry ==
    \A w \in Workers :
        Granted(w) =>
            LET r == req[w]
                cap == config[r.st].policy[r.rule].maxExpiry
                limits == {r.token.exp * TPS}
                            \cup (IF cap > 0 THEN {r.signedAt + cap} ELSE {})
            IN  /\ \A l \in limits : r.expires * TPS <= l
                /\ \E l \in limits : l < (r.expires + 1) * TPS

(* A reload forgets the keys fetched before it: a request that arrives     *)
(* after a reload is granted only with a key its issuer published at or    *)
(* after that reload, so a key withdrawn before it no longer verifies      *)
(* (verifier.New builds a new key cache).                                  *)
ReloadForgetsKeys ==
    \A w \in Workers :
        Granted(w) =>
            LET r == req[w]
                p == r.token.iss
            IN  \E e \in born[r.lo][p]..Len(Published[p]) : r.token.key \in Published[p][e]

(* The two denial counters differ by exactly the requests that are between *)
(* the two increments of RecordDenied, so a scrape is off by at most the   *)
(* requests in flight and the totals agree when none is.                   *)
DenialsAddUp ==
    denied = denials["no_token"] + denials["verification_failed"]
                + denials["policy_no_match"] + denials["signing_failed"]
                + Cardinality({w \in Workers : req[w].pc = "reason"})

(* Every request that was answered is counted as allowed or as denied.     *)
EveryAnswerCounted ==
    received = allowed + denied
        + Cardinality({w \in Workers : req[w].pc \notin {"idle", "reason", "done"}})

(* Every request is answered, even if the identity provider never is.      *)
EveryRequestAnswered ==
    \A w \in Workers : req[w].pc = "load" ~> req[w].pc = "done"

(* What the outside sees of a request: nothing between arrival and answer. *)
Asked(r) ==
    [phase |-> CASE r.pc = "idle" -> "idle" [] r.pc = "done" -> "answered" [] OTHER -> "pending",
     token |-> r.token, lo |-> r.lo, start |-> r.start,
     answer |-> [verdict |-> IF r.pc = "done" THEN r.verdict ELSE "none",
                 account |-> IF r.pc = "done" THEN r.account ELSE "",
                 expires |-> IF r.pc = "done" THEN r.expires ELSE 0,
                 reason  |-> IF r.pc = "done" THEN r.reason ELSE "none"]]

Promise == INSTANCE Authorization WITH asked <- [w \in Workers |-> Asked(req[w])]

(* The authorizer implements the promise: whatever is interleaved, each    *)
(* answer is the one a single configuration current during the request     *)
(* gives, a denial carries the reason that applies, and an answer once     *)
(* given does not change.                                                  *)
KeepsPromise == Promise!Spec
=============================================================================
