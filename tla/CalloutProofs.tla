--------------------------- MODULE CalloutProofs ----------------------------
(***************************************************************************)
(* Proofs about the authorizer, for any workers, tokens, configurations,   *)
(* providers, key schedule and bounds.                                     *)
(***************************************************************************)
EXTENDS Callout, FiniteSetTheorems, TLAPS

-----------------------------------------------------------------------------
(* Facts about the operators.                                              *)

(* The account of any rule of any configuration is a known account.        *)
LEMMA AccountKnown ==
    ASSUME NEW c \in Configs, NEW i \in 1..Len(c.policy)
    PROVE  c.policy[i].account \in Accounts
BY DEF Accounts

(* Whatever Parse makes of a token is a known claim set.                   *)
LEMMA ClaimsKnown ==
    ASSUME NEW t \in Tokens, NEW claims \in Parse(t.payload)
    PROVE  claims \in ClaimSets
BY DEF ClaimSets

(* Unix is the last whole second that is not after the given time.         *)
LEMMA UnixFloor ==
    ASSUME NEW t \in Int
    PROVE  /\ Unix(t) \in Int
           /\ Unix(t) * TPS <= t
           /\ t < (Unix(t) + 1) * TPS
BY TPSAssumption DEF Unix

(* cappedExpiry returns a time.                                            *)
LEMMA CappedExpiryType ==
    ASSUME NEW e \in Int, NEW m \in Int, NEW now \in Int
    PROVE  CappedExpiry(e, m, now) \in Int
BY DEF CappedExpiry

-----------------------------------------------------------------------------
(* The inductive invariant.  ReqOK says what Authorize knows of a request  *)
(* r at each of its steps, at time now, when gen rulesets are installed,   *)
(* built from the configurations cf.                                       *)

(* r is at one of the steps, or is a grant: what a step has established of *)
(* a request still holds of the grant it becomes.                          *)
At(r, steps) == r.pc \in steps \/ (r.pc = "done" /\ r.verdict = "granted")

(* When r arrived, and which ruleset it loaded.                            *)
Placed(r, now, gen) ==
    /\ r.start <= now
    /\ r.lo <= gen
    /\ r.pc # "load" => r.lo <= r.st /\ r.st <= gen
    /\ r.pc = "done" => r.st <= r.hi /\ r.hi <= gen

(* What the verifier of its ruleset has established.                       *)
Vetted(r, now, cf) ==
    /\ At(r, {"verify", "fetch", "claims", "evaluate", "sign", "allow"}) => r.token \in Tokens
    /\ At(r, {"fetch", "claims", "evaluate", "sign", "allow"}) =>
        r.checkedAt \in r.start..now /\ Admissible(cf[r.st], r.token, r.checkedAt)
    /\ At(r, {"evaluate", "sign", "allow"}) =>
        /\ AudienceAllowed(cf[r.st], r.token)
        /\ r.claims \in Parse(r.token.payload)
        /\ RequiredClaimsHeld(cf[r.st], r.token, r.claims)

(* How far the evaluation of its policy has come.                          *)
Judged(r, now, cf) ==
    /\ r.pc \in {"load", "verify", "fetch", "claims"} => r.rule = 1
    /\ At(r, {"evaluate", "sign", "allow"}) => r.rule \in 1..Len(cf[r.st].policy)
    /\ r.pc \in {"evaluate", "sign"} =>
        \A j \in 1..(r.rule - 1) : Misses(cf[r.st], j, r.token, r.claims, r.start..now)
    /\ r.pc = "sign" => FirstMatch(cf[r.st], r.rule, r.token, r.claims, r.start..now)

(* What was signed.                                                        *)
Signed(r, now, cf) ==
    At(r, {"allow"}) =>
        /\ r.signedAt \in r.start..now
        /\ r.checkedAt <= r.signedAt
        /\ FirstMatch(cf[r.st], r.rule, r.token, r.claims, r.start..r.signedAt)
        /\ r.account = cf[r.st].policy[r.rule].account
        /\ r.expires = Unix(CappedExpiry(r.token.exp * TPS, cf[r.st].policy[r.rule].maxExpiry,
                                         r.signedAt))

ReqOK(r, now, gen, cf) ==
    Placed(r, now, gen) /\ Vetted(r, now, cf) /\ Judged(r, now, cf) /\ Signed(r, now, cf)

RequestsOK == \A w \in Workers : ReqOK(req[w], clock, state, config)

IndInv == TypeOK /\ RequestsOK

-----------------------------------------------------------------------------
(* Time and reloads do not disturb a request.                              *)

(* What a rule missed or matched in a period, it did in any longer one.    *)
LEMMA LongerPeriod ==
    ASSUME NEW c, NEW i, NEW t, NEW claims, NEW a \in Int, NEW b \in Int, NEW d \in Int,
           b <= d
    PROVE  /\ Misses(c, i, t, claims, a..b) => Misses(c, i, t, claims, a..d)
           /\ FirstMatch(c, i, t, claims, a..b) => FirstMatch(c, i, t, claims, a..d)
<1>1. a..b \subseteq a..d
  OBVIOUS
<1>2. ASSUME NEW j PROVE Misses(c, j, t, claims, a..b) => Misses(c, j, t, claims, a..d)
  BY <1>1 DEF Misses
<1>3. FirstMatch(c, i, t, claims, a..b) => FirstMatch(c, i, t, claims, a..d)
  BY <1>1, <1>2 DEF FirstMatch
<1> QED
  BY <1>2, <1>3

(* The numbers in a request.                                               *)
LEMMA RequestNumbers ==
    ASSUME NEW r \in Request
    PROVE  /\ r.start \in Int /\ r.checkedAt \in Int /\ r.signedAt \in Int
           /\ r.lo \in Nat /\ r.st \in Nat /\ r.hi \in Nat /\ r.st >= 1 /\ r.lo >= 1
           /\ r.st \in Gens /\ r.rule \in Nat
<1>1. /\ r.start \in StartClock..MaxClock
      /\ r.checkedAt \in StartClock..MaxClock
      /\ r.signedAt \in StartClock..MaxClock
  BY DEF Request
<1>2. r.lo \in Gens /\ r.st \in Gens /\ r.hi \in Gens /\ r.rule \in Nat
  BY DEF Request
<1>3. \A g \in Gens : g \in Nat /\ g >= 1
  BY BoundAssumption DEF Gens
<1>4. \A n \in StartClock..MaxClock : n \in Int
  BY BoundAssumption
<1> QED
  BY <1>1, <1>2, <1>3, <1>4

(* ReqOK survives later times, further rulesets and configurations that    *)
(* agree on the rulesets installed.                                        *)
LEMMA ReqMonotone ==
    ASSUME NEW r \in Request,
           NEW now \in Int, NEW now2 \in Int, now <= now2,
           NEW gen \in Nat, NEW gen2 \in Nat, gen <= gen2,
           NEW cf, NEW cf2, \A g \in 1..gen : cf2[g] = cf[g],
           ReqOK(r, now, gen, cf)
    PROVE  ReqOK(r, now2, gen2, cf2)
<1>0. r.start \in Int /\ r.lo \in Nat /\ r.st \in Nat /\ r.hi \in Nat /\ r.st >= 1
  BY RequestNumbers
<1>1. Placed(r, now2, gen2)
  BY <1>0 DEF ReqOK, Placed
<1>2. r.pc # "load" => cf2[r.st] = cf[r.st]
  BY <1>0 DEF ReqOK, Placed
<1>3. r.start..now \subseteq r.start..now2
  BY <1>0
<1>4. Vetted(r, now2, cf2)
  BY <1>2, <1>3 DEF ReqOK, Vetted, At
<1>5. Judged(r, now2, cf2)
  BY <1>0, <1>2, LongerPeriod DEF ReqOK, Judged, At
<1>6. Signed(r, now2, cf2)
  BY <1>2, <1>3 DEF ReqOK, Signed, At
<1> QED
  BY <1>1, <1>4, <1>5, <1>6 DEF ReqOK

(* A step that only replaces the request of w by a good one is good.       *)
LEMMA OneRequest ==
    ASSUME IndInv, NEW w \in Workers, NEW r \in Request,
           ReqOK(r, clock, state, config),
           req' = [req EXCEPT ![w] = r],
           UNCHANGED <<clock, state, config>>
    PROVE  req' \in [Workers -> Request] /\ RequestsOK'
BY DEF IndInv, TypeOK, RequestsOK

(* A denial knows nothing that could be wrong.                             *)
LEMMA DenyOK ==
    ASSUME NEW r \in Request, NEW reason \in Reasons,
           NEW now, NEW gen, NEW cf, Placed(r, now, gen), r.pc # "load", r.pc # "done"
    PROVE  Deny(r, reason) \in Request /\ ReqOK(Deny(r, reason), now, gen, cf)
<1>1. Deny(r, reason) \in Request
  BY DEF Deny, Request
<1>2. ReqOK(Deny(r, reason), now, gen, cf)
  BY DEF Deny, Request, ReqOK, Placed, Vetted, Judged, Signed, At
<1> QED
  BY <1>1, <1>2

-----------------------------------------------------------------------------
(* Authorize keeps the invariant, step by step.                            *)

(* What every step may use.                                                *)
LEMMA StateFacts ==
    ASSUME IndInv, NEW w \in Workers
    PROVE  /\ clock \in StartClock..MaxClock /\ clock \in Int
           /\ state \in Gens /\ state \in Nat
           /\ req[w] \in Request /\ ReqOK(req[w], clock, state, config)
           /\ config[req[w].st] \in Configs
           /\ Len(config[req[w].st].policy) \in Nat
<1>1. clock \in StartClock..MaxClock /\ state \in Gens /\ req[w] \in Request
  BY DEF IndInv, TypeOK
<1>2. clock \in Int /\ state \in Nat
  BY <1>1, BoundAssumption DEF Gens
<1>3. ReqOK(req[w], clock, state, config)
  BY DEF IndInv, RequestsOK
<1>4. config[req[w].st] \in Configs
  BY <1>1, RequestNumbers DEF IndInv, TypeOK
<1>5. Len(config[req[w].st].policy) \in Nat
  BY <1>4, ConfigAssumption
<1> QED
  BY <1>1, <1>2, <1>3, <1>4, <1>5

(* A request whose token is admissible has a known issuer.                 *)
LEMMA IssuerKnown ==
    ASSUME NEW c \in Configs, NEW t, NEW now, Admissible(c, t, now)
    PROVE  t.iss \in Providers
BY ConfigAssumption DEF Admissible, IssuerTrusted

(* A request on its way to a denial.                                       *)
LEMMA DeniedOK ==
    ASSUME NEW q, NEW now, NEW gen, NEW cf, q.pc \in {"deny", "reason"}, Placed(q, now, gen)
    PROVE  ReqOK(q, now, gen, cf)
BY DEF ReqOK, Vetted, Judged, Signed, At

(* Any step that ends in RecordDenied.                                     *)
LEMMA DenyStep ==
    ASSUME IndInv, NEW w \in Workers, NEW reason \in Reasons,
           req[w].pc \notin {"load", "done"},
           req' = [req EXCEPT ![w] = Deny(req[w], reason)],
           UNCHANGED <<clock, state, config>>
    PROVE  req' \in [Workers -> Request] /\ RequestsOK'
<1>1. req[w] \in Request /\ Placed(req[w], clock, state)
  BY StateFacts DEF ReqOK
<1>2. Deny(req[w], reason) \in Request /\ ReqOK(Deny(req[w], reason), clock, state, config)
  BY <1>1, DenyOK
<1> QED
  BY <1>2, OneRequest

LEMMA ReceiveOK ==
    ASSUME IndInv, NEW w \in Workers, NEW t \in Tokens \cup {NoToken}, Receive(w, t)
    PROVE  req' \in [Workers -> Request] /\ RequestsOK'
<1> DEFINE r == [NoRequest EXCEPT !.pc = "load", !.token = t, !.lo = state, !.start = clock]
<1>0. /\ clock \in StartClock..MaxClock /\ StartClock \in StartClock..MaxClock
      /\ state \in Gens /\ 1 \in Gens
  BY BoundAssumption DEF IndInv, TypeOK, Gens
<1>1. NoRequest \in Request
  BY <1>0 DEF NoRequest, Request
<1>2. r \in Request
  BY <1>0, <1>1 DEF Request
<1>3. ReqOK(r, clock, state, config)
  BY BoundAssumption
  DEF IndInv, TypeOK, NoRequest, Gens, ReqOK, Placed, Vetted, Judged, Signed, At
<1> QED
  BY <1>2, <1>3, OneRequest DEF Receive, cfgVars

LEMMA LoadStateOK ==
    ASSUME IndInv, NEW w \in Workers, LoadState(w)
    PROVE  req' \in [Workers -> Request] /\ RequestsOK'
<1> DEFINE r == [req[w] EXCEPT !.st = state]
<1>0. req[w] \in Request /\ ReqOK(req[w], clock, state, config) /\ req[w].pc = "load"
  BY DEF IndInv, TypeOK, RequestsOK, LoadState
<1>1. state \in Gens /\ state \in Nat
  BY BoundAssumption DEF IndInv, TypeOK, Gens
<1>2. CASE r.token = NoToken
  <2> DEFINE q == [req[w] EXCEPT !.st = state, !.pc = "deny", !.reason = "no_token"]
  <2>1. q \in Request
    BY <1>0, <1>1 DEF Request, Reasons
  <2>2. ReqOK(q, clock, state, config)
    <3>1. /\ q.pc = "deny" /\ q.start = req[w].start
          /\ q.lo = req[w].lo /\ q.st = state
      BY <1>0 DEF Request
    <3> HIDE DEF q
    <3>2. Placed(q, clock, state)
      BY <1>0, <1>1, <3>1 DEF ReqOK, Placed
    <3> QED
      BY <3>1, <3>2 DEF ReqOK, Vetted, Judged, Signed, At
  <2>3. req' = [req EXCEPT ![w] = q] /\ UNCHANGED <<clock, state, config>>
    BY <1>2 DEF LoadState, cfgVars, Deny
  <2> QED
    BY <2>1, <2>2, <2>3, OneRequest
<1>3. CASE r.token # NoToken
  <2> DEFINE q == [req[w] EXCEPT !.st = state, !.pc = "verify"]
  <2>1. q \in Request
    BY <1>0, <1>1 DEF Request
  <2>2. ReqOK(q, clock, state, config)
    <3>1. /\ q.pc = "verify" /\ q.start = req[w].start /\ q.token = req[w].token
          /\ q.lo = req[w].lo /\ q.st = state /\ q.rule = req[w].rule
      BY <1>0 DEF Request
    <3>2. req[w].token \in Tokens
      BY <1>0, <1>3 DEF Request
    <3> HIDE DEF q
    <3>3. Placed(q, clock, state)
      BY <1>0, <1>1, <3>1 DEF ReqOK, Placed
    <3> QED
      BY <1>0, <3>1, <3>2, <3>3 DEF ReqOK, Vetted, Judged, Signed, At
  <2>3. req' = [req EXCEPT ![w] = q] /\ UNCHANGED <<clock, state, config>>
    BY <1>3 DEF LoadState, cfgVars
  <2> QED
    BY <2>1, <2>2, <2>3, OneRequest
<1> QED
  BY <1>2, <1>3

LEMMA RejectTokenOK ==
    ASSUME IndInv, NEW w \in Workers, RejectToken(w) \/ VerifyTimeout(w)
    PROVE  req' \in [Workers -> Request] /\ RequestsOK'
<1>1. /\ req[w].pc \in {"verify", "fetch"}
      /\ req' = [req EXCEPT ![w] = Deny(req[w], "verification_failed")]
      /\ UNCHANGED <<clock, state, config>>
  BY DEF RejectToken, VerifyTimeout, cfgVars
<1> QED
  BY <1>1, DenyStep DEF Reasons

LEMMA UseCachedKeysOK ==
    ASSUME IndInv, NEW w \in Workers, UseCachedKeys(w)
    PROVE  req' \in [Workers -> Request] /\ RequestsOK'
<1> DEFINE r == req[w]
           k == keys[r.st][r.token.iss]
           q == [r EXCEPT !.pc = "claims", !.checkedAt = clock, !.keyEpoch = k]
<1>0. r \in Request /\ ReqOK(r, clock, state, config) /\ clock \in StartClock..MaxClock
  BY StateFacts
<1>1. r.pc = "verify" /\ Admissible(config[r.st], r.token, clock)
  BY DEF UseCachedKeys
<1>2. k \in Nat
  <2>1. r.token.iss \in Providers
    BY <1>1, StateFacts, IssuerKnown
  <2> QED
    BY <1>0, <2>1, RequestNumbers DEF IndInv, TypeOK
<1>3. q \in Request
  <2> HIDE DEF k
  <2> QED
    BY <1>0, <1>2 DEF Request
<1>4. ReqOK(q, clock, state, config)
  <2>1. /\ q.pc = "claims" /\ q.start = r.start /\ q.token = r.token /\ q.lo = r.lo
        /\ q.st = r.st /\ q.rule = r.rule /\ q.checkedAt = clock
    BY <1>0 DEF Request
  <2>2. clock \in r.start..clock
    BY <1>0, RequestNumbers, StateFacts DEF ReqOK, Placed
  <2> HIDE DEF q
  <2> QED
    BY <1>0, <1>1, <2>1, <2>2 DEF ReqOK, Placed, Vetted, Judged, Signed, At
<1>5. req' = [req EXCEPT ![w] = q] /\ UNCHANGED <<clock, state, config>>
  BY DEF UseCachedKeys, cfgVars
<1> QED
  BY <1>3, <1>4, <1>5, OneRequest

LEMMA AwaitKeysOK ==
    ASSUME IndInv, NEW w \in Workers, AwaitKeys(w)
    PROVE  req' \in [Workers -> Request] /\ RequestsOK'
<1> DEFINE r == req[w]
           q == [r EXCEPT !.pc = "fetch", !.checkedAt = clock]
<1>0. r \in Request /\ ReqOK(r, clock, state, config) /\ clock \in StartClock..MaxClock
  BY StateFacts
<1>1. r.pc = "verify" /\ Admissible(config[r.st], r.token, clock)
  BY DEF AwaitKeys
<1>2. q \in Request
  BY <1>0 DEF Request
<1>3. ReqOK(q, clock, state, config)
  <2>1. /\ q.pc = "fetch" /\ q.start = r.start /\ q.token = r.token /\ q.lo = r.lo
        /\ q.st = r.st /\ q.rule = r.rule /\ q.checkedAt = clock
    BY <1>0 DEF Request
  <2>2. clock \in r.start..clock
    BY <1>0, RequestNumbers, StateFacts DEF ReqOK, Placed
  <2> HIDE DEF q
  <2> QED
    BY <1>0, <1>1, <2>1, <2>2 DEF ReqOK, Placed, Vetted, Judged, Signed, At
<1>4. req' = [req EXCEPT ![w] = q] /\ UNCHANGED <<clock, state, config>>
  BY DEF AwaitKeys, cfgVars
<1> QED
  BY <1>2, <1>3, <1>4, OneRequest

(* A fetched key that verifies the token moves the request on.             *)
LEMMA FetchedOK ==
    ASSUME NEW r \in Request, NEW e \in Nat, r.pc = "fetch",
           NEW now, NEW gen, NEW cf, ReqOK(r, now, gen, cf),
           NEW q, q = [r EXCEPT !.pc = "claims", !.keyEpoch = e]
    PROVE  q \in Request /\ ReqOK(q, now, gen, cf)
<1>1. q \in Request
  BY DEF Request
<1>2. /\ q.pc = "claims" /\ q.start = r.start /\ q.token = r.token /\ q.lo = r.lo
      /\ q.st = r.st /\ q.rule = r.rule /\ q.checkedAt = r.checkedAt
  BY DEF Request
<1>3. ReqOK(q, now, gen, cf)
  BY <1>2 DEF ReqOK, Placed, Vetted, Judged, Signed, At
<1> QED
  BY <1>1, <1>3

LEMMA KeysArriveOK ==
    ASSUME IndInv, NEW g \in Gens, NEW p \in Providers, KeysArrive(g, p) \/ KeysFail(g, p)
    PROVE  req' \in [Workers -> Request] /\ RequestsOK'
<1>1. UNCHANGED <<clock, state, config>>
  BY DEF KeysArrive, KeysFail, cfgVars
<1>2. PICK e \in Nat :
        \/ req' = [w \in Workers |->
                IF ~Waiting(w, g, p) THEN req[w]
                ELSE IF SignedWithin(req[w].token, e)
                     THEN [req[w] EXCEPT !.pc = "claims", !.keyEpoch = e]
                     ELSE Deny(req[w], "verification_failed")]
        \/ req' = [w \in Workers |-> IF Waiting(w, g, p)
                                     THEN Deny(req[w], "verification_failed")
                                     ELSE req[w]]
  <2>1. CASE KeysArrive(g, p)
    <3>1. \A e \in fetch[g][p]..epoch[p] : e \in Nat
      BY DEF IndInv, TypeOK
    <3> QED
      BY <2>1, <3>1 DEF KeysArrive
  <2>2. CASE KeysFail(g, p)
    BY <2>2 DEF KeysFail
  <2> QED
    BY <2>1, <2>2
<1>3. ASSUME NEW w \in Workers
      PROVE  req'[w] \in Request /\ ReqOK(req'[w], clock, state, config)
  <2>1. req[w] \in Request /\ ReqOK(req[w], clock, state, config)
    BY StateFacts
  <2>2. CASE req'[w] = req[w]
    BY <2>1, <2>2
  <2>3. CASE Waiting(w, g, p) /\ req'[w] = Deny(req[w], "verification_failed")
    BY <2>1, <2>3, DenyOK DEF Waiting, ReqOK, Reasons
  <2>4. CASE Waiting(w, g, p) /\ req'[w] = [req[w] EXCEPT !.pc = "claims", !.keyEpoch = e]
    BY <2>1, <2>4, FetchedOK DEF Waiting
  <2> QED
    BY <1>2, <2>2, <2>3, <2>4
<1>4. req' \in [Workers -> Request]
  BY <1>2, <1>3
<1> QED
  BY <1>1, <1>3, <1>4 DEF RequestsOK

LEMMA CheckClaimsOK ==
    ASSUME IndInv, NEW w \in Workers, CheckClaims(w)
    PROVE  req' \in [Workers -> Request] /\ RequestsOK'
<1> DEFINE r == req[w]
<1>0. r \in Request /\ ReqOK(r, clock, state, config) /\ r.pc = "claims"
  BY StateFacts DEF CheckClaims
<1>1. UNCHANGED <<clock, state, config>>
  BY DEF CheckClaims, cfgVars
<1>2. r.token \in Tokens
  BY <1>0 DEF ReqOK, Vetted, At
<1>3. PICK claims \in Parse(r.token.payload) :
        req' = [req EXCEPT ![w] =
            IF /\ AudienceAllowed(config[r.st], r.token)
               /\ RequiredClaimsHeld(config[r.st], r.token, claims)
            THEN [r EXCEPT !.pc = "evaluate", !.claims = claims]
            ELSE Deny(r, "verification_failed")]
  BY DEF CheckClaims
<1>4. CASE /\ AudienceAllowed(config[r.st], r.token)
           /\ RequiredClaimsHeld(config[r.st], r.token, claims)
  <2> DEFINE q == [r EXCEPT !.pc = "evaluate", !.claims = claims]
  <2>1. claims \in ClaimSets
    BY <1>2, ClaimsKnown
  <2>2. q \in Request
    BY <1>0, <2>1 DEF Request
  <2>3. /\ q.pc = "evaluate" /\ q.start = r.start /\ q.token = r.token /\ q.lo = r.lo
        /\ q.st = r.st /\ q.rule = r.rule /\ q.checkedAt = r.checkedAt /\ q.claims = claims
    BY <1>0 DEF Request
  <2>4. r.rule = 1 /\ 1 \in 1..Len(config[r.st].policy)
    <3>1. r.rule = 1
      BY <1>0 DEF ReqOK, Judged
    <3>2. Len(config[r.st].policy) > 0 /\ Len(config[r.st].policy) \in Nat
      BY StateFacts, ConfigAssumption DEF PolicyValid
    <3> QED
      BY <3>1, <3>2
  <2>5. ReqOK(q, clock, state, config)
    <3> HIDE DEF q
    <3>1. Placed(q, clock, state) /\ Vetted(q, clock, config) /\ Signed(q, clock, config)
      BY <1>0, <1>2, <1>4, <2>3 DEF ReqOK, Placed, Vetted, Signed, At
    <3>2. Judged(q, clock, config)
      BY <2>3, <2>4 DEF Judged, At
    <3> QED
      BY <3>1, <3>2 DEF ReqOK
  <2> QED
    BY <1>1, <1>3, <1>4, <2>2, <2>5, OneRequest
<1>5. CASE ~(/\ AudienceAllowed(config[r.st], r.token)
             /\ RequiredClaimsHeld(config[r.st], r.token, claims))
  BY <1>0, <1>1, <1>3, <1>5, DenyStep DEF Reasons
<1> QED
  BY <1>4, <1>5

LEMMA EvaluateRuleOK ==
    ASSUME IndInv, NEW w \in Workers, EvaluateRule(w)
    PROVE  req' \in [Workers -> Request] /\ RequestsOK'
<1> DEFINE r == req[w]
           policy == config[r.st].policy
           match == RuleMatches(policy[r.rule], VerifiedIdentity(r.token, r.claims), clock)
           judged == /\ r.rule \in 1..Len(policy)
                     /\ \A j \in 1..(r.rule - 1) :
                            Misses(config[r.st], j, r.token, r.claims, r.start..clock)
<1>0. r \in Request /\ ReqOK(r, clock, state, config) /\ r.pc = "evaluate"
  BY StateFacts DEF EvaluateRule
<1>1. UNCHANGED <<clock, state, config>>
  BY DEF EvaluateRule, cfgVars
<1>2. clock \in r.start..clock /\ r.rule \in Nat /\ Len(policy) \in Nat
  BY <1>0, RequestNumbers, StateFacts DEF ReqOK, Placed
<1>3. judged
  BY <1>0 DEF ReqOK, Judged, At
<1>4. CASE match /\ req' = [req EXCEPT ![w].pc = "sign"]
  <2> DEFINE q == [r EXCEPT !.pc = "sign"]
  <2>1. q \in Request
    BY <1>0 DEF Request
  <2>2. /\ q.pc = "sign" /\ q.start = r.start /\ q.token = r.token /\ q.lo = r.lo
        /\ q.st = r.st /\ q.rule = r.rule /\ q.checkedAt = r.checkedAt /\ q.claims = r.claims
    BY <1>0 DEF Request
  <2>3. FirstMatch(config[r.st], r.rule, r.token, r.claims, r.start..clock)
    BY <1>2, <1>3, <1>4 DEF FirstMatch
  <2>4. req' = [req EXCEPT ![w] = q]
    BY <1>4
  <2> HIDE DEF q
  <2>5. ReqOK(q, clock, state, config)
    BY <1>0, <1>3, <2>2, <2>3 DEF ReqOK, Placed, Vetted, Judged, Signed, At
  <2> QED
    BY <1>1, <2>1, <2>4, <2>5, OneRequest
<1>5. CASE ~match /\ r.rule < Len(policy) /\ req' = [req EXCEPT ![w].rule = r.rule + 1]
  <2> DEFINE n == r.rule + 1
             q == [r EXCEPT !.rule = n]
  <2>1. n \in 1..Len(policy) /\ n \in Nat
    <3>1. r.rule < Len(policy)
      BY <1>5
    <3> QED
      BY <1>2, <3>1
  <2>2. \A j \in 1..(n - 1) : Misses(config[r.st], j, r.token, r.claims, r.start..clock)
    <3>1. Misses(config[r.st], r.rule, r.token, r.claims, r.start..clock)
      BY <1>2, <1>5 DEF Misses
    <3>2. \A j \in 1..(n - 1) : j = r.rule \/ j \in 1..(r.rule - 1)
      BY <1>2
    <3> QED
      BY <1>3, <3>1, <3>2
  <2>3. req' = [req EXCEPT ![w] = q]
    BY <1>5
  <2> HIDE DEF n
  <2>4. q \in Request
    BY <1>0, <2>1 DEF Request
  <2>5. /\ q.pc = "evaluate" /\ q.start = r.start /\ q.token = r.token /\ q.lo = r.lo
        /\ q.st = r.st /\ q.rule = n /\ q.checkedAt = r.checkedAt /\ q.claims = r.claims
    BY <1>0 DEF Request
  <2> HIDE DEF q
  <2>6. ReqOK(q, clock, state, config)
    <3>1. Judged(q, clock, config)
      BY <2>1, <2>2, <2>5 DEF Judged, At
    <3>2. Placed(q, clock, state) /\ Vetted(q, clock, config) /\ Signed(q, clock, config)
      BY <1>0, <2>5 DEF ReqOK, Placed, Vetted, Signed, At
    <3> QED
      BY <3>1, <3>2 DEF ReqOK
  <2> QED
    BY <1>1, <2>3, <2>4, <2>6, OneRequest
<1>6. CASE req' = [req EXCEPT ![w] = Deny(r, "policy_no_match")]
  BY <1>0, <1>1, <1>6, DenyStep DEF Reasons
<1> QED
  BY <1>4, <1>5, <1>6 DEF EvaluateRule

LEMMA SignOK ==
    ASSUME IndInv, NEW w \in Workers, Sign(w)
    PROVE  req' \in [Workers -> Request] /\ RequestsOK'
<1> DEFINE r == req[w]
           grant == config[r.st].policy[r.rule]
           exp == Unix(CappedExpiry(r.token.exp * TPS, grant.maxExpiry, clock))
           q == [r EXCEPT !.pc = "allow", !.account = grant.account, !.expires = exp,
                          !.signedAt = clock]
<1>0. /\ r \in Request /\ ReqOK(r, clock, state, config) /\ r.pc = "sign"
      /\ clock \in StartClock..MaxClock /\ clock \in Int /\ config[r.st] \in Configs
  BY StateFacts DEF Sign
<1>1. r.token \in Tokens /\ r.rule \in 1..Len(config[r.st].policy)
  BY <1>0 DEF ReqOK, Vetted, Judged, At
<1>2. grant.account \in Accounts
  BY <1>0, <1>1, AccountKnown
<1>3. exp \in Int
  <2>1. r.token.exp * TPS \in Int
    BY <1>1, TokenAssumption, TPSAssumption
  <2>2. grant.maxExpiry \in Int
    BY <1>0, <1>1, ConfigAssumption
  <2> QED
    BY <1>0, <2>1, <2>2, CappedExpiryType, UnixFloor
<1>4. q \in Request
  <2> HIDE DEF exp, grant
  <2> QED
    BY <1>0, <1>2, <1>3 DEF Request
<1>5. /\ q.pc = "allow" /\ q.start = r.start /\ q.token = r.token /\ q.lo = r.lo
      /\ q.st = r.st /\ q.rule = r.rule /\ q.checkedAt = r.checkedAt /\ q.claims = r.claims
      /\ q.account = grant.account /\ q.expires = exp /\ q.signedAt = clock
  <2> HIDE DEF exp, grant
  <2> QED
    BY <1>0 DEF Request
<1>6. req' = [req EXCEPT ![w] = q] /\ UNCHANGED <<clock, state, config>>
  BY DEF Sign, cfgVars
<1>7. clock \in r.start..clock /\ r.checkedAt <= clock
  BY <1>0, RequestNumbers DEF ReqOK, Placed, Vetted, At
<1>8. ReqOK(q, clock, state, config)
  <2> HIDE DEF q
  <2>1. Placed(q, clock, state) /\ Vetted(q, clock, config) /\ Judged(q, clock, config)
    BY <1>0, <1>1, <1>5 DEF ReqOK, Placed, Vetted, Judged, At
  <2>2. FirstMatch(config[r.st], r.rule, r.token, r.claims, r.start..clock)
    BY <1>0 DEF ReqOK, Judged
  <2>3. Signed(q, clock, config)
    BY <1>5, <1>7, <2>2 DEF Signed
  <2> QED
    BY <2>1, <2>3 DEF ReqOK
<1> QED
  BY <1>4, <1>6, <1>8, OneRequest

LEMMA SignFailsOK ==
    ASSUME IndInv, NEW w \in Workers, SignFails(w)
    PROVE  req' \in [Workers -> Request] /\ RequestsOK'
<1> DEFINE r == req[w]
           q == [r EXCEPT !.pc = "done", !.verdict = "denied", !.reason = "signing_failed",
                          !.hi = state]
<1>0. /\ r \in Request /\ ReqOK(r, clock, state, config) /\ r.pc = "sign"
      /\ state \in Gens /\ state \in Nat
  BY StateFacts DEF SignFails
<1>1. q \in Request
  BY <1>0 DEF Request, Reasons
<1>2. /\ q.pc = "done" /\ q.verdict = "denied" /\ q.start = r.start /\ q.lo = r.lo
      /\ q.st = r.st /\ q.hi = state
  BY <1>0 DEF Request
<1>3. req' = [req EXCEPT ![w] = q] /\ UNCHANGED <<clock, state, config>>
  BY DEF SignFails, cfgVars
<1> HIDE DEF q
<1>4. ReqOK(q, clock, state, config)
  BY <1>0, <1>2 DEF ReqOK, Placed, Vetted, Judged, Signed, At
<1> QED
  BY <1>1, <1>3, <1>4, OneRequest

LEMMA RecordAllowedOK ==
    ASSUME IndInv, NEW w \in Workers, RecordAllowed(w)
    PROVE  req' \in [Workers -> Request] /\ RequestsOK'
<1> DEFINE r == req[w]
           q == [r EXCEPT !.pc = "done", !.verdict = "granted", !.hi = state]
<1>0. /\ r \in Request /\ ReqOK(r, clock, state, config) /\ r.pc = "allow"
      /\ state \in Gens /\ state \in Nat
  BY StateFacts DEF RecordAllowed
<1>1. q \in Request
  BY <1>0 DEF Request
<1>2. /\ q.pc = "done" /\ q.start = r.start /\ q.token = r.token /\ q.lo = r.lo
      /\ q.st = r.st /\ q.rule = r.rule /\ q.checkedAt = r.checkedAt /\ q.claims = r.claims
      /\ q.account = r.account /\ q.expires = r.expires /\ q.signedAt = r.signedAt
      /\ q.hi = state
  BY <1>0 DEF Request
<1>3. req' = [req EXCEPT ![w] = q] /\ UNCHANGED <<clock, state, config>>
  BY DEF RecordAllowed, cfgVars
<1> HIDE DEF q
<1>4. ReqOK(q, clock, state, config)
  <2>1. Placed(q, clock, state)
    BY <1>0, <1>2 DEF ReqOK, Placed
  <2>2. Vetted(q, clock, config)
    BY <1>0, <1>2 DEF ReqOK, Vetted, At
  <2>3. Judged(q, clock, config)
    BY <1>0, <1>2 DEF ReqOK, Judged, At
  <2>4. Signed(q, clock, config)
    BY <1>0, <1>2 DEF ReqOK, Signed, At
  <2> QED
    BY <2>1, <2>2, <2>3, <2>4 DEF ReqOK
<1> QED
  BY <1>1, <1>3, <1>4, OneRequest

LEMMA RecordDeniedOK ==
    ASSUME IndInv, NEW w \in Workers, RecordDenied(w)
    PROVE  req' \in [Workers -> Request] /\ RequestsOK'
<1> DEFINE r == req[w]
           q == [r EXCEPT !.pc = "reason"]
<1>0. r \in Request /\ ReqOK(r, clock, state, config) /\ r.pc = "deny"
  BY StateFacts DEF RecordDenied
<1>1. q \in Request
  BY <1>0 DEF Request
<1>2. q.pc = "reason" /\ q.start = r.start /\ q.lo = r.lo /\ q.st = r.st
  BY <1>0 DEF Request
<1>3. req' = [req EXCEPT ![w] = q] /\ UNCHANGED <<clock, state, config>>
  BY DEF RecordDenied, cfgVars
<1> HIDE DEF q
<1>4. ReqOK(q, clock, state, config)
  BY <1>0, <1>2, DeniedOK DEF ReqOK, Placed
<1> QED
  BY <1>1, <1>3, <1>4, OneRequest

LEMMA RecordReasonOK ==
    ASSUME IndInv, NEW w \in Workers, RecordReason(w)
    PROVE  req' \in [Workers -> Request] /\ RequestsOK'
<1> DEFINE r == req[w]
           q == [r EXCEPT !.pc = "done", !.verdict = "denied", !.hi = state]
<1>0. /\ r \in Request /\ ReqOK(r, clock, state, config) /\ r.pc = "reason"
      /\ state \in Gens /\ state \in Nat
  BY StateFacts DEF RecordReason
<1>1. q \in Request
  BY <1>0 DEF Request
<1>2. /\ q.pc = "done" /\ q.verdict = "denied" /\ q.start = r.start /\ q.lo = r.lo
      /\ q.st = r.st /\ q.hi = state
  BY <1>0 DEF Request
<1>3. req' = [req EXCEPT ![w] = q] /\ UNCHANGED <<clock, state, config>>
  BY DEF RecordReason, cfgVars
<1> HIDE DEF q
<1>4. ReqOK(q, clock, state, config)
  BY <1>0, <1>2 DEF ReqOK, Placed, Vetted, Judged, Signed, At
<1> QED
  BY <1>1, <1>3, <1>4, OneRequest

-----------------------------------------------------------------------------
(* The steps of the environment leave the requests alone.                  *)
LEMMA EnvironmentOK ==
    ASSUME IndInv,
           \/ \E c \in Configs : Reload(c)
           \/ \E p \in Providers : RotateKeys(p)
           \/ Tick
           \/ UNCHANGED vars
    PROVE  req' \in [Workers -> Request] /\ RequestsOK'
<1>1. req' = req
  BY DEF Reload, RotateKeys, Tick, vars
<1>2. /\ clock \in Int /\ clock' \in Int /\ clock <= clock'
      /\ state \in Nat /\ state' \in Nat /\ state <= state'
  <2>1. clock \in Int /\ state \in Nat
    BY BoundAssumption DEF IndInv, TypeOK, Gens
  <2>2. CASE \E c \in Configs : Reload(c)
    <3>1. clock' = clock /\ state' = state + 1
      BY <2>2 DEF Reload
    <3> QED
      BY <2>1, <3>1
  <2>3. CASE \E p \in Providers : RotateKeys(p)
    <3>1. clock' = clock /\ state' = state
      BY <2>3 DEF RotateKeys, cfgVars
    <3> QED
      BY <2>1, <3>1
  <2>4. CASE Tick
    <3>1. clock' = clock + 1 /\ state' = state
      BY <2>4 DEF Tick, cfgVars
    <3> QED
      BY <2>1, <3>1
  <2>5. CASE UNCHANGED vars
    BY <2>1, <2>5 DEF vars, cfgVars
  <2> QED
    BY <2>2, <2>3, <2>4, <2>5
<1>3. \A g \in 1..state : config'[g] = config[g]
  <2>1. CASE \E c \in Configs : Reload(c)
    <3>1. PICK c : config' = [config EXCEPT ![state + 1] = c]
      BY <2>1 DEF Reload
    <3>2. \A g \in 1..state : g # state + 1 /\ g \in Gens
      BY BoundAssumption, <1>2 DEF IndInv, TypeOK, Gens
    <3> QED
      BY <3>1, <3>2 DEF IndInv, TypeOK
  <2>2. CASE config' = config
    BY <2>2
  <2> QED
    BY <2>1, <2>2 DEF RotateKeys, Tick, vars, cfgVars
<1>4. ASSUME NEW w \in Workers PROVE ReqOK(req[w], clock', state', config')
  BY <1>2, <1>3, ReqMonotone, StateFacts
<1> QED
  BY <1>1, <1>4 DEF RequestsOK, IndInv, TypeOK

(* All steps together.                                                     *)
LEMMA RequestsStep ==
    ASSUME IndInv, [Next]_vars
    PROVE  req' \in [Workers -> Request] /\ RequestsOK'
<1>1. ASSUME NEW w \in Workers, NEW t \in Tokens \cup {NoToken}, Receive(w, t)
      PROVE  req' \in [Workers -> Request] /\ RequestsOK'
  BY <1>1, ReceiveOK
<1>2. ASSUME NEW w \in Workers, Authorize(w)
      PROVE  req' \in [Workers -> Request] /\ RequestsOK'
  BY <1>2, LoadStateOK, RejectTokenOK, UseCachedKeysOK, AwaitKeysOK, CheckClaimsOK,
     EvaluateRuleOK, SignOK, SignFailsOK, RecordAllowedOK, RecordDeniedOK, RecordReasonOK
  DEF Authorize
<1>3. ASSUME NEW g \in Gens, NEW p \in Providers, KeysArrive(g, p) \/ KeysFail(g, p)
      PROVE  req' \in [Workers -> Request] /\ RequestsOK'
  BY <1>3, KeysArriveOK
<1> QED
  BY <1>1, <1>2, <1>3, EnvironmentOK DEF Next, Quiescent

(* The variables other than req keep their types.                          *)
LEMMA OtherTypes ==
    ASSUME IndInv, [Next]_vars, req' \in [Workers -> Request]
    PROVE  TypeOK'
<1> USE DEF IndInv, cfgVars, keyVars, metricsVars
<1>1. ASSUME NEW w \in Workers, NEW t, Receive(w, t) PROVE TypeOK'
  BY <1>1, BoundAssumption DEF TypeOK, Receive
<1>2. ASSUME NEW w \in Workers, Authorize(w) PROVE TypeOK'
  <2>1. CASE AwaitKeys(w)
    <3> DEFINE r == req[w]
               p == r.token.iss
    <3>1. p \in Providers /\ r.st \in Gens
      BY <2>1, StateFacts, IssuerKnown, RequestNumbers DEF AwaitKeys
    <3>2. epoch[p] \in Nat
      BY <3>1 DEF TypeOK
    <3>3. fetch' \in [Gens -> [Providers -> Nat]]
      <4> HIDE DEF p
      <4>1. [fetch EXCEPT ![r.st][p] = epoch[p]] \in [Gens -> [Providers -> Nat]]
        BY <3>1, <3>2 DEF TypeOK
      <4> QED
        BY <2>1, <4>1 DEF AwaitKeys, TypeOK, p
    <3> QED
      BY <2>1, <3>3 DEF TypeOK, AwaitKeys
  <2>2. CASE RecordAllowed(w)
    BY <2>2 DEF TypeOK, RecordAllowed
  <2>3. CASE RecordDenied(w)
    BY <2>3 DEF TypeOK, RecordDenied
  <2>4. CASE RecordReason(w)
    <3> DEFINE x == req[w].reason
    <3>1. denials' = [denials EXCEPT ![x] = denials[x] + 1]
      BY <2>4 DEF RecordReason
    <3>2. UNCHANGED <<clock, cfgVars, keyVars, epoch, received, allowed, denied>>
      BY <2>4 DEF RecordReason
    <3> HIDE DEF x
    <3>3. denials' \in [Reasons -> Nat]
      <4>1. denials \in [Reasons -> Nat]
        BY DEF TypeOK
      <4>2. CASE x \in Reasons
        BY <3>1, <4>1, <4>2
      <4>3. CASE x \notin Reasons
        <5>1. denials' = denials
          BY <3>1, <4>1, <4>3
        <5> QED
          BY <4>1, <5>1
      <4> QED
        BY <4>2, <4>3
    <3> QED
      BY <3>2, <3>3 DEF TypeOK
  <2>5. CASE \/ LoadState(w) \/ RejectToken(w) \/ UseCachedKeys(w) \/ VerifyTimeout(w)
             \/ CheckClaims(w) \/ EvaluateRule(w) \/ Sign(w) \/ SignFails(w)
    <3>1. UNCHANGED <<clock, cfgVars, keyVars, epoch, received, metricsVars>>
      BY <2>5 DEF LoadState, RejectToken, UseCachedKeys, VerifyTimeout, CheckClaims,
                  EvaluateRule, Sign, SignFails
    <3> QED
      BY <3>1 DEF TypeOK
  <2> QED
    BY <1>2, <2>1, <2>2, <2>3, <2>4, <2>5 DEF Authorize
<1>3. ASSUME NEW g \in Gens, NEW p \in Providers, KeysArrive(g, p) PROVE TypeOK'
  <2>1. PICK e \in fetch[g][p]..epoch[p] : keys' = [keys EXCEPT ![g][p] = e]
    BY <1>3 DEF KeysArrive
  <2>2. e \in Nat
    BY DEF TypeOK
  <2> QED
    BY <1>3, <2>1, <2>2 DEF TypeOK, KeysArrive
<1>4. ASSUME NEW g \in Gens, NEW p \in Providers, KeysFail(g, p) PROVE TypeOK'
  BY <1>4 DEF TypeOK, KeysFail
<1>5. ASSUME NEW c \in Configs, Reload(c) PROVE TypeOK'
  <2>1. state' \in Gens
    BY <1>5, BoundAssumption DEF TypeOK, Gens, Reload
  <2> QED
    BY <1>5, <2>1 DEF TypeOK, Reload
<1>6. ASSUME NEW p \in Providers, RotateKeys(p) PROVE TypeOK'
  BY <1>6 DEF TypeOK, RotateKeys
<1>7. CASE Tick
  BY <1>7, BoundAssumption DEF TypeOK, Tick
<1>8. CASE UNCHANGED vars
  BY <1>8 DEF TypeOK, vars
<1> QED
  BY <1>1, <1>2, <1>3, <1>4, <1>5, <1>6, <1>7, <1>8 DEF Next, Quiescent

LEMMA InitInv == Init => IndInv
<1> SUFFICES ASSUME Init PROVE IndInv
  OBVIOUS
<1>1. /\ StartClock \in StartClock..MaxClock /\ StartClock \in Int
      /\ 1 \in Gens /\ 0 \in 0..MaxRequests /\ InitConfig \in Configs
  BY BoundAssumption, ConfigAssumption DEF Gens
<1>2. NoRequest \in Request
  BY <1>1 DEF NoRequest, Request
<1>3. TypeOK
  BY <1>1, <1>2 DEF TypeOK, Init
<1>4. ReqOK(NoRequest, StartClock, 1, config)
  BY <1>1 DEF NoRequest, ReqOK, Placed, Vetted, Judged, Signed, At
<1>5. RequestsOK
  BY <1>4 DEF RequestsOK, Init
<1> QED
  BY <1>3, <1>5 DEF IndInv

LEMMA StepInv ==
    ASSUME IndInv, [Next]_vars
    PROVE  IndInv'
BY RequestsStep, OtherTypes DEF IndInv

(* The authorizer keeps its inductive invariant, whatever the workers,     *)
(* tokens, configurations, key schedule and bounds: at every step of       *)
(* Authorize, what it has established about its request holds of the       *)
(* ruleset it loaded.                                                      *)
THEOREM Invariance == Spec => []IndInv
BY StepInv, InitInv, PTL DEF Spec

(* Every variable of the authorizer keeps its type; no request leaves the  *)
(* steps of Authorize and no step touches a ruleset not yet installed.     *)
THEOREM TypeCorrect == Spec => []TypeOK
<1>1. IndInv => TypeOK
  BY DEF IndInv
<1> QED
  BY <1>1, Invariance, PTL

(* A grant is explained by the configuration of the ruleset it loaded.     *)
LEMMA GrantExplained ==
    ASSUME IndInv, NEW w \in Workers, Granted(w)
    PROVE  /\ req[w].st \in req[w].lo..req[w].hi /\ req[w].st \in req[w].lo..state
           /\ Explains(config[req[w].st], req[w])
<1> DEFINE r == req[w]
<1>1. /\ r \in Request /\ ReqOK(r, clock, state, config)
      /\ r.pc = "done" /\ r.verdict = "granted"
  BY StateFacts DEF Granted
<1>2. r.st \in r.lo..r.hi /\ r.st \in r.lo..state
  BY <1>1, RequestNumbers, StateFacts DEF ReqOK, Placed
<1>3. r.checkedAt \in r.start..r.signedAt
  <2>1. r.checkedAt \in r.start..clock /\ r.checkedAt <= r.signedAt
    BY <1>1 DEF ReqOK, Vetted, Signed, At
  <2>2. r.checkedAt \in Int /\ r.start \in Int /\ r.signedAt \in Int /\ clock \in Int
    BY <1>1, RequestNumbers, StateFacts
  <2> QED
    BY <2>1, <2>2
<1>4. Accepts(config[r.st], r.token, r.claims, r.start..r.signedAt)
  BY <1>1, <1>3 DEF ReqOK, Vetted, At, Accepts
<1>5. /\ FirstMatch(config[r.st], r.rule, r.token, r.claims, r.start..r.signedAt)
      /\ r.account = config[r.st].policy[r.rule].account
  BY <1>1 DEF ReqOK, Signed, At
<1> QED
  BY <1>2, <1>4, <1>5 DEF Explains

(* A reload concurrent with Authorize never mixes two configurations: each *)
(* grant is explained by one that was current during the request, namely   *)
(* that of the ruleset Authorize loaded.                                   *)
THEOREM GrantsFromOneConfig == Spec => []GrantFromOneConfig
<1>1. IndInv => GrantFromOneConfig
  BY GrantExplained DEF GrantFromOneConfig
<1> QED
  BY <1>1, Invariance, PTL

(* What the invariant says of the expiry of a grant.                       *)
LEMMA ExpiryHolds == IndInv => GrantExpiry
<1> SUFFICES ASSUME IndInv, NEW w \in Workers, Granted(w)
             PROVE  LET r == req[w]
                        cap == config[r.st].policy[r.rule].maxExpiry
                        limits == {r.token.exp * TPS}
                                    \cup (IF cap > 0 THEN {r.signedAt + cap} ELSE {})
                    IN  /\ \A l \in limits : r.expires * TPS <= l
                        /\ \E l \in limits : l < (r.expires + 1) * TPS
  BY DEF GrantExpiry
<1> DEFINE r == req[w]
           cap == config[r.st].policy[r.rule].maxExpiry
           end == r.token.exp * TPS
           least == CappedExpiry(end, cap, r.signedAt)
<1>1. /\ r \in Request /\ ReqOK(r, clock, state, config)
      /\ r.pc = "done" /\ r.verdict = "granted" /\ config[r.st] \in Configs
  BY StateFacts DEF Granted
<1>2. r.token \in Tokens /\ r.rule \in 1..Len(config[r.st].policy)
  BY <1>1 DEF ReqOK, Vetted, Judged, At
<1>3. end \in Int /\ cap \in Int /\ r.signedAt \in Int
  <2>1. r.token.exp \in Int /\ TPS \in Int
    BY <1>2, TokenAssumption, TPSAssumption
  <2>2. cap \in Int
    BY <1>1, <1>2, ConfigAssumption
  <2>3. r.signedAt \in Int
    BY <1>1, RequestNumbers
  <2> QED
    BY <2>1, <2>2, <2>3
<1>4. r.expires = Unix(least)
  BY <1>1 DEF ReqOK, Signed, At
<1> HIDE DEF r, cap, end
<1>5. /\ least \in Int /\ least <= end
      /\ cap > 0 => least <= r.signedAt + cap
      /\ least = end \/ (cap > 0 /\ least = r.signedAt + cap)
  BY <1>3 DEF CappedExpiry
<1> HIDE DEF least
<1>6. /\ r.expires \in Int
      /\ r.expires * TPS <= least /\ least < (r.expires + 1) * TPS
  BY <1>4, <1>5, UnixFloor
<1>7. r.expires * TPS \in Int
  BY <1>6, TPSAssumption
<1>8. r.expires * TPS <= end /\ (cap > 0 => r.expires * TPS <= r.signedAt + cap)
  BY <1>3, <1>5, <1>6, <1>7
<1>9. end < (r.expires + 1) * TPS \/ (cap > 0 /\ r.signedAt + cap < (r.expires + 1) * TPS)
  BY <1>5, <1>6
<1> QED
  BY <1>8, <1>9 DEF r, cap, end

(* A user JWT expires at the last whole second that is neither after the   *)
(* expiry of the token nor after the cap of the rule, for any resolution   *)
(* of the clock and however long the request took.                         *)
THEOREM GrantsExpire == Spec => []GrantExpiry
<1>1. IndInv => GrantExpiry
  BY ExpiryHolds
<1> QED
  BY <1>1, Invariance, PTL

-----------------------------------------------------------------------------
(* Keys.  KeysOK places the key epochs a ruleset knows between the epoch   *)
(* in which it was installed and the current one, and KeyOK says of a      *)
(* verified request that keys of its own ruleset contain the signing key.  *)

Fresh(e, g, p) == e # 0 => g <= state /\ born[g][p] <= e /\ e <= epoch[p]

KeysOK ==
    /\ \A p \in Providers : epoch[p] <= Len(Published[p])
    /\ \A g \in Gens, p \in Providers :
        Fresh(keys[g][p], g, p) /\ Fresh(fetch[g][p], g, p)
    /\ \A g, h \in Gens, p \in Providers :
        g <= h /\ h <= state => born[g][p] <= born[h][p] /\ born[h][p] <= epoch[p]

KeyOK(r, b) ==
    At(r, {"claims", "evaluate", "sign", "allow"}) =>
        /\ r.keyEpoch \in b[r.st][r.token.iss]..Len(Published[r.token.iss])
        /\ r.token.key \in Published[r.token.iss][r.keyEpoch]

KeyInv == KeysOK /\ \A w \in Workers : KeyOK(req[w], born)

(* The key caches keep to their epochs: a reload starts one empty, a fetch *)
(* fills it with the keys of an epoch not before the reload.               *)
LEMMA KeysStep ==
    ASSUME IndInv, KeysOK, [Next]_vars
    PROVE  KeysOK'
<1> USE DEF cfgVars, keyVars, metricsVars
<1>0. /\ state \in Nat /\ \A g \in Gens : g \in Nat
      /\ \A g \in Gens, p \in Providers : /\ born[g][p] \in Nat /\ keys[g][p] \in Nat
                                          /\ fetch[g][p] \in Nat
      /\ \A p \in Providers : epoch[p] \in Nat /\ Len(Published[p]) \in Nat
  BY BoundAssumption, PublishedAssumption DEF IndInv, TypeOK, Gens
<1>1. CASE UNCHANGED <<state, born, keys, fetch, epoch>>
  BY <1>1 DEF KeysOK, Fresh
<1>2. ASSUME NEW w \in Workers, AwaitKeys(w)
      PROVE  KeysOK'
  <2> DEFINE r == req[w]
             q == r.token.iss
  <2>1. q \in Providers /\ r.st \in Gens /\ r.st <= state
    BY <1>2, StateFacts, IssuerKnown, RequestNumbers DEF AwaitKeys, ReqOK, Placed
  <2>2. UNCHANGED <<state, born, keys, epoch>>
    BY <1>2 DEF AwaitKeys
  <2>3. fetch' = fetch \/ fetch' = [fetch EXCEPT ![r.st][q] = epoch[q]]
    BY <1>2 DEF AwaitKeys
  <2> HIDE DEF r, q
  <2>4. ASSUME NEW g \in Gens, NEW p \in Providers
        PROVE  fetch'[g][p] = fetch[g][p] \/ (g = r.st /\ p = q /\ fetch'[g][p] = epoch[p])
    BY <2>1, <2>3 DEF IndInv, TypeOK
  <2>5. ASSUME NEW g \in Gens, NEW p \in Providers
        PROVE  Fresh(fetch[g][p], g, p)' /\ Fresh(keys[g][p], g, p)'
    <3>1. g = r.st => born[g][p] <= epoch[p]
      BY <1>0, <2>1 DEF KeysOK
    <3> QED
      BY <1>0, <2>1, <2>2, <2>4, <3>1 DEF KeysOK, Fresh
  <2> QED
    BY <2>2, <2>5 DEF KeysOK
<1>3. ASSUME NEW g \in Gens, NEW p \in Providers, KeysArrive(g, p) \/ KeysFail(g, p)
      PROVE  KeysOK'
  <2>1. UNCHANGED <<state, born, epoch>> /\ fetch' = [fetch EXCEPT ![g][p] = 0]
    BY <1>3 DEF KeysArrive, KeysFail
  <2>2. keys' = keys \/ \E e \in fetch[g][p]..epoch[p] : keys' = [keys EXCEPT ![g][p] = e]
    BY <1>3 DEF KeysArrive, KeysFail
  <2>3. fetch[g][p] # 0
    BY <1>3 DEF KeysArrive, KeysFail
  <2>4. ASSUME NEW h \in Gens, NEW q \in Providers
        PROVE  Fresh(fetch[h][q], h, q)' /\ Fresh(keys[h][q], h, q)'
    <3>1. fetch'[h][q] = fetch[h][q] \/ fetch'[h][q] = 0
      BY <2>1 DEF IndInv, TypeOK
    <3>2. \/ keys'[h][q] = keys[h][q]
          \/ h = g /\ q = p /\ keys'[h][q] \in fetch[g][p]..epoch[p]
      BY <2>2 DEF IndInv, TypeOK
    <3>3. Fresh(fetch[h][q], h, q) /\ Fresh(keys[h][q], h, q)
      BY DEF KeysOK
    <3> QED
      BY <1>0, <2>1, <2>3, <3>1, <3>2, <3>3 DEF Fresh
  <2> QED
    BY <2>1, <2>4 DEF KeysOK
<1>4. ASSUME NEW c \in Configs, Reload(c)
      PROVE  KeysOK'
  <2>1. /\ state' = state + 1 /\ UNCHANGED <<keys, fetch, epoch>>
        /\ born' = [born EXCEPT ![state + 1] = epoch]
    BY <1>4 DEF Reload
  <2>2. \A g \in Gens : born'[g] = IF g = state + 1 THEN epoch ELSE born[g]
    BY <2>1 DEF IndInv, TypeOK
  <2>3. ASSUME NEW h \in Gens, NEW q \in Providers
        PROVE  Fresh(fetch[h][q], h, q)' /\ Fresh(keys[h][q], h, q)'
    BY <1>0, <2>1, <2>2 DEF KeysOK, Fresh
  <2>4. ASSUME NEW g \in Gens, NEW h \in Gens, NEW q \in Providers, g <= h, h <= state + 1
        PROVE  born'[g][q] <= born'[h][q] /\ born'[h][q] <= epoch[q]
    <3>1. CASE h = state + 1 /\ g = state + 1
      BY <1>0, <2>2, <3>1
    <3>2. CASE h = state + 1 /\ g # state + 1
      <4>1. g <= state
        BY <1>0, <2>4, <3>2
      <4>2. born[g][q] <= epoch[q]
        BY <1>0, <4>1 DEF KeysOK
      <4> QED
        BY <1>0, <2>2, <3>2, <4>2
    <3>3. CASE h # state + 1
      <4>1. h <= state /\ g # state + 1
        BY <1>0, <2>4, <3>3
      <4> QED
        BY <2>2, <2>4, <3>3, <4>1 DEF KeysOK
    <3> QED
      BY <3>1, <3>2, <3>3
  <2> QED
    BY <2>1, <2>3, <2>4 DEF KeysOK
<1>5. ASSUME NEW p \in Providers, RotateKeys(p)
      PROVE  KeysOK'
  <2>1. UNCHANGED <<state, born, keys, fetch>> /\ epoch[p] < Len(Published[p])
    BY <1>5 DEF RotateKeys
  <2>2. \A q \in Providers : epoch'[q] = IF q = p THEN epoch[p] + 1 ELSE epoch[q]
    BY <1>5 DEF RotateKeys, IndInv, TypeOK
  <2>3. \A q \in Providers : epoch'[q] \in Nat /\ epoch[q] <= epoch'[q]
                             /\ epoch'[q] <= Len(Published[q])
    BY <1>0, <2>1, <2>2 DEF KeysOK
  <2>4. ASSUME NEW h \in Gens, NEW q \in Providers
        PROVE  Fresh(fetch[h][q], h, q)' /\ Fresh(keys[h][q], h, q)'
    BY <1>0, <2>1, <2>3 DEF KeysOK, Fresh
  <2>5. ASSUME NEW g \in Gens, NEW h \in Gens, NEW q \in Providers, g <= h, h <= state
        PROVE  born[g][q] <= born[h][q] /\ born[h][q] <= epoch'[q]
    BY <1>0, <2>3, <2>5 DEF KeysOK
  <2> QED
    BY <2>1, <2>3, <2>4, <2>5 DEF KeysOK
<1>6. ASSUME NEW w \in Workers, Authorize(w)
      PROVE  AwaitKeys(w) \/ UNCHANGED <<state, born, keys, fetch, epoch>>
  BY <1>6 DEF Authorize, LoadState, RejectToken, UseCachedKeys, VerifyTimeout, CheckClaims,
              EvaluateRule, Sign, SignFails, RecordAllowed, RecordDenied, RecordReason
<1>7. ASSUME NEW w \in Workers, NEW t, Receive(w, t)
      PROVE  UNCHANGED <<state, born, keys, fetch, epoch>>
  BY <1>7 DEF Receive
<1>8. Tick \/ UNCHANGED vars => UNCHANGED <<state, born, keys, fetch, epoch>>
  BY DEF Tick, vars
<1> QED
  BY <1>1, <1>2, <1>3, <1>4, <1>5, <1>6, <1>7, <1>8 DEF Next, Quiescent

(* A request that is not past verification has no key to account for, and  *)
(* one that is keeps the key it was verified with.                         *)
LEMMA KeyKept ==
    ASSUME NEW r, NEW q, NEW b, KeyOK(r, b),
           \/ ~At(q, {"claims", "evaluate", "sign", "allow"})
           \/ /\ At(r, {"claims", "evaluate", "sign", "allow"})
              /\ q.token = r.token /\ q.st = r.st /\ q.keyEpoch = r.keyEpoch
    PROVE  KeyOK(q, b)
BY DEF KeyOK

(* Keys that ruleset g holds of p verify for the requests that loaded g.   *)
LEMMA KeyFound ==
    ASSUME IndInv, KeysOK, NEW g \in Gens, NEW p \in Providers, NEW e \in Nat,
           Fresh(e, g, p), NEW q, q.st = g, q.token.iss = p, q.keyEpoch = e,
           SignedWithin(q.token, e)
    PROVE  KeyOK(q, born)
<1>1. born[g][p] \in Nat /\ epoch[p] \in Nat /\ Len(Published[p]) \in Nat
  BY PublishedAssumption DEF IndInv, TypeOK
<1>2. e # 0 /\ q.token.key \in Published[p][e]
  BY DEF SignedWithin
<1>3. e \in born[g][p]..Len(Published[p])
  BY <1>1, <1>2 DEF Fresh, KeysOK
<1> QED
  BY <1>2, <1>3 DEF KeyOK

(* No step of Authorize lets a request past verification without a key of  *)
(* its own ruleset.                                                        *)
LEMMA KeyAuthorize ==
    ASSUME IndInv, KeyInv, NEW w \in Workers, Authorize(w)
    PROVE  KeyOK(req'[w], born)
<1> DEFINE r == req[w]
           past == {"claims", "evaluate", "sign", "allow"}
<1>0. r \in Request /\ KeyOK(r, born) /\ req \in [Workers -> Request]
  BY StateFacts DEF KeyInv, IndInv, TypeOK
<1>1. ASSUME NEW reason, req'[w] = Deny(r, reason)
      PROVE  KeyOK(req'[w], born)
  <2>1. ~At(Deny(r, reason), past)
    BY <1>0 DEF Deny, At, Request
  <2> QED
    BY <1>0, <1>1, <2>1, KeyKept
<1>2. CASE LoadState(w)
  <2>1. req'[w].pc \in {"deny", "verify"}
    BY <1>0, <1>2 DEF LoadState, Deny, Request
  <2> QED
    BY <1>0, <2>1, KeyKept DEF At
<1>3. CASE RejectToken(w) \/ VerifyTimeout(w)
  <2>1. req'[w] = Deny(r, "verification_failed")
    BY <1>0, <1>3 DEF RejectToken, VerifyTimeout
  <2> QED
    BY <1>1, <2>1
<1>4. CASE UseCachedKeys(w)
  <2> DEFINE p == r.token.iss
             e == keys[r.st][p]
  <2>1. p \in Providers /\ r.st \in Gens
    BY <1>4, StateFacts, IssuerKnown, RequestNumbers DEF UseCachedKeys
  <2>2. e \in Nat /\ Fresh(e, r.st, p)
    BY <2>1 DEF KeyInv, KeysOK, IndInv, TypeOK
  <2>3. SignedWithin(r.token, e)
    BY <1>4 DEF UseCachedKeys
  <2>4. req'[w] = [r EXCEPT !.pc = "claims", !.checkedAt = clock, !.keyEpoch = e]
    BY <1>0, <1>4 DEF UseCachedKeys
  <2> HIDE DEF e
  <2>5. req'[w].token = r.token /\ req'[w].st = r.st /\ req'[w].keyEpoch = e
    BY <1>0, <2>4 DEF Request
  <2> QED
    BY <2>1, <2>2, <2>3, <2>5, KeyFound DEF KeyInv
<1>5. CASE AwaitKeys(w)
  <2>1. req'[w] = [r EXCEPT !.pc = "fetch", !.checkedAt = clock]
    BY <1>0, <1>5 DEF AwaitKeys
  <2>2. ~At(req'[w], past)
    BY <1>0, <2>1 DEF At, Request
  <2> QED
    BY <1>0, <2>2, KeyKept
<1>6. CASE CheckClaims(w)
  <2>1. PICK claims : \/ req'[w] = Deny(r, "verification_failed")
                      \/ req'[w] = [r EXCEPT !.pc = "evaluate", !.claims = claims]
    BY <1>0, <1>6 DEF CheckClaims
  <2>2. CASE req'[w] = [r EXCEPT !.pc = "evaluate", !.claims = claims]
    <3>1. /\ req'[w].token = r.token /\ req'[w].st = r.st /\ req'[w].keyEpoch = r.keyEpoch
          /\ At(r, past)
      BY <1>0, <1>6, <2>2 DEF At, Request, CheckClaims
    <3> QED
      BY <1>0, <3>1, KeyKept
  <2> QED
    BY <1>1, <2>1, <2>2
<1>7. CASE EvaluateRule(w)
  <2>1. \/ req'[w] = Deny(r, "policy_no_match")
        \/ req' = [req EXCEPT ![w].pc = "sign"]
        \/ req' = [req EXCEPT ![w].rule = r.rule + 1]
    BY <1>0, <1>7 DEF EvaluateRule
  <2>2. CASE req' = [req EXCEPT ![w].pc = "sign"] \/ req' = [req EXCEPT ![w].rule = r.rule + 1]
    <3>1. At(r, past)
      BY <1>7 DEF At, EvaluateRule
    <3>2. req'[w] = [r EXCEPT !.pc = "sign"] \/ req'[w] = [r EXCEPT !.rule = r.rule + 1]
      BY <1>0, <2>2
    <3>3. req'[w].token = r.token /\ req'[w].st = r.st /\ req'[w].keyEpoch = r.keyEpoch
      BY <1>0, <3>2 DEF Request
    <3> QED
      BY <1>0, <3>1, <3>3, KeyKept
  <2> QED
    BY <1>1, <2>1, <2>2
<1>8. CASE Sign(w)
  <2>1. /\ req'[w].token = r.token /\ req'[w].st = r.st /\ req'[w].keyEpoch = r.keyEpoch
        /\ At(r, past)
    BY <1>0, <1>8 DEF At, Request, Sign
  <2> QED
    BY <1>0, <2>1, KeyKept
<1>9. CASE RecordAllowed(w)
  <2>1. /\ req'[w].token = r.token /\ req'[w].st = r.st /\ req'[w].keyEpoch = r.keyEpoch
        /\ At(r, past)
    BY <1>0, <1>9 DEF At, Request, RecordAllowed
  <2> QED
    BY <1>0, <2>1, KeyKept
<1>10. CASE SignFails(w) \/ RecordDenied(w) \/ RecordReason(w)
  <2>1. req'[w].pc = "reason" \/ (req'[w].pc = "done" /\ req'[w].verdict = "denied")
    <3>1. SignFails(w) => req'[w].pc = "done" /\ req'[w].verdict = "denied"
      <4>1. SignFails(w) => req'[w] = [r EXCEPT !.pc = "done", !.verdict = "denied",
                                          !.reason = "signing_failed", !.hi = state]
        BY <1>0 DEF SignFails
      <4> QED
        BY <1>0, <4>1 DEF Request
    <3>2. RecordDenied(w) => req'[w].pc = "reason"
      <4>1. RecordDenied(w) => req'[w] = [r EXCEPT !.pc = "reason"]
        BY <1>0 DEF RecordDenied
      <4> QED
        BY <1>0, <4>1 DEF Request
    <3>3. RecordReason(w) => req'[w].pc = "done" /\ req'[w].verdict = "denied"
      <4>1. RecordReason(w) => req'[w] = [r EXCEPT !.pc = "done", !.verdict = "denied",
                                                   !.hi = state]
        BY <1>0 DEF RecordReason
      <4> QED
        BY <1>0, <4>1 DEF Request
    <3> QED
      BY <1>10, <3>1, <3>2, <3>3
  <2> QED
    BY <1>0, <2>1, KeyKept DEF At
<1> QED
  BY <1>2, <1>3, <1>4, <1>5, <1>6, <1>7, <1>8, <1>9, <1>10 DEF Authorize

(* The requests that waited for a fetch are verified with what it brings.  *)
LEMMA KeyArrives ==
    ASSUME IndInv, KeyInv, NEW g \in Gens, NEW p \in Providers,
           KeysArrive(g, p) \/ KeysFail(g, p), NEW w \in Workers
    PROVE  KeyOK(req'[w], born)
<1> DEFINE r == req[w]
<1>0. r \in Request /\ KeyOK(r, born)
  BY StateFacts DEF KeyInv
<1>1. CASE req'[w] = r
  BY <1>0, <1>1
<1>2. CASE req'[w] = Deny(r, "verification_failed")
  <2>1. ~At(Deny(r, "verification_failed"), {"claims", "evaluate", "sign", "allow"})
    BY <1>0 DEF Deny, At, Request
  <2> QED
    BY <1>0, <1>2, <2>1, KeyKept
<1>3. ASSUME NEW e \in fetch[g][p]..epoch[p], Waiting(w, g, p), SignedWithin(r.token, e),
             fetch[g][p] # 0, req'[w] = [r EXCEPT !.pc = "claims", !.keyEpoch = e]
      PROVE  KeyOK(req'[w], born)
  <2>1. fetch[g][p] \in Nat /\ epoch[p] \in Nat /\ born[g][p] \in Nat
    BY DEF IndInv, TypeOK
  <2>2. e \in Nat /\ Fresh(e, g, p)
    BY <1>3, <2>1 DEF KeyInv, KeysOK, Fresh
  <2>3. req'[w].token = r.token /\ req'[w].st = g /\ req'[w].keyEpoch = e /\ r.token.iss = p
    BY <1>0, <1>3 DEF Request, Waiting
  <2> QED
    BY <1>3, <2>2, <2>3, KeyFound DEF KeyInv
<1>4. CASE KeysArrive(g, p)
  <2>1. fetch[g][p] # 0
    BY <1>4 DEF KeysArrive
  <2>2. \E e \in fetch[g][p]..epoch[p] :
          req'[w] = IF ~Waiting(w, g, p) THEN r
                    ELSE IF SignedWithin(r.token, e)
                         THEN [r EXCEPT !.pc = "claims", !.keyEpoch = e]
                         ELSE Deny(r, "verification_failed")
    BY <1>4 DEF KeysArrive
  <2> QED
    BY <1>1, <1>2, <1>3, <2>1, <2>2
<1>5. CASE KeysFail(g, p)
  BY <1>1, <1>2, <1>5 DEF KeysFail
<1> QED
  BY <1>4, <1>5

(* Authorize touches no request but its own.                               *)
LEMMA OthersUntouched ==
    ASSUME IndInv, NEW w \in Workers, Authorize(w), NEW v \in Workers, v # w
    PROVE  req'[v] = req[v]
<1> USE DEF IndInv, TypeOK
<1>1. LoadState(w) => req'[v] = req[v]
  BY DEF LoadState
<1>2. RejectToken(w) \/ VerifyTimeout(w) => req'[v] = req[v]
  BY DEF RejectToken, VerifyTimeout
<1>3. UseCachedKeys(w) \/ AwaitKeys(w) => req'[v] = req[v]
  BY DEF UseCachedKeys, AwaitKeys
<1>4. CheckClaims(w) => req'[v] = req[v]
  BY DEF CheckClaims
<1>5. EvaluateRule(w) => req'[v] = req[v]
  BY DEF EvaluateRule
<1>6. Sign(w) \/ SignFails(w) => req'[v] = req[v]
  BY DEF Sign, SignFails
<1>7. RecordAllowed(w) \/ RecordDenied(w) \/ RecordReason(w) => req'[v] = req[v]
  BY DEF RecordAllowed, RecordDenied, RecordReason
<1> QED
  BY <1>1, <1>2, <1>3, <1>4, <1>5, <1>6, <1>7 DEF Authorize

LEMMA KeyStep ==
    ASSUME IndInv, KeyInv, [Next]_vars
    PROVE  KeyInv'
<1>1. KeysOK'
  BY KeysStep DEF KeyInv
<1>2. ASSUME NEW v \in Workers PROVE KeyOK(req[v], born)'
  <2>0. req \in [Workers -> Request] /\ KeyOK(req[v], born)
    BY DEF IndInv, TypeOK, KeyInv
  <2>1. ASSUME NEW w \in Workers, NEW t, Receive(w, t)
        PROVE  KeyOK(req[v], born)'
    <3>1. born' = born /\ (req'[v] = req[v] \/ req'[v].pc = "load")
      BY <2>0, <2>1 DEF Receive, cfgVars, NoRequest
    <3> QED
      BY <2>0, <3>1, KeyKept DEF At
  <2>2. ASSUME NEW w \in Workers, Authorize(w)
        PROVE  KeyOK(req[v], born)'
    <3>1. born' = born
      BY <2>2 DEF Authorize, LoadState, RejectToken, UseCachedKeys, AwaitKeys, VerifyTimeout,
              CheckClaims, EvaluateRule, Sign, SignFails, RecordAllowed, RecordDenied,
              RecordReason, cfgVars
    <3>2. v # w => req'[v] = req[v]
      BY <2>2, OthersUntouched
    <3> QED
      BY <2>0, <2>2, <3>1, <3>2, KeyAuthorize
  <2>3. ASSUME NEW g \in Gens, NEW p \in Providers, KeysArrive(g, p) \/ KeysFail(g, p)
        PROVE  KeyOK(req[v], born)'
    <3>1. born' = born
      BY <2>3 DEF KeysArrive, KeysFail, cfgVars
    <3> QED
      BY <2>3, <3>1, KeyArrives
  <2>4. ASSUME NEW c \in Configs, Reload(c)
        PROVE  KeyOK(req[v], born)'
    <3>1. req' = req /\ born' = [born EXCEPT ![state + 1] = epoch]
      BY <2>4 DEF Reload
    <3>2. req[v].pc # "load" => born'[req[v].st] = born[req[v].st]
      <4>1. /\ req[v].st \in Gens /\ req[v].st \in Nat /\ state \in Nat
            /\ req[v].pc # "load" => req[v].st <= state
        BY StateFacts, RequestNumbers DEF ReqOK, Placed
      <4>2. req[v].pc # "load" => req[v].st # state + 1
        BY <4>1
      <4> QED
        BY <3>1, <4>1, <4>2 DEF IndInv, TypeOK
    <3> QED
      BY <2>0, <3>1, <3>2 DEF KeyOK, At
  <2>5. CASE (\E p \in Providers : RotateKeys(p)) \/ Tick \/ UNCHANGED vars
    BY <2>0, <2>5 DEF RotateKeys, Tick, vars, cfgVars
  <2> QED
    BY <2>1, <2>2, <2>3, <2>4, <2>5 DEF Next, Quiescent
<1> QED
  BY <1>1, <1>2 DEF KeyInv

(* At first no key is cached and no request is verified.                   *)
LEMMA KeyInit == Init => KeyInv
<1> SUFFICES ASSUME Init PROVE KeyInv
  OBVIOUS
<1>1. KeysOK
  BY PublishedAssumption DEF Init, KeysOK, Fresh
<1>2. \A w \in Workers : req[w].pc = "idle"
  BY DEF Init, NoRequest
<1> QED
  BY <1>1, <1>2 DEF KeyInv, KeyOK, At

(* What the invariants say of the key of a grant.                          *)
LEMMA KeysHold == IndInv /\ KeyInv => ReloadForgetsKeys
<1> SUFFICES ASSUME IndInv, KeyInv, NEW w \in Workers, Granted(w)
             PROVE  LET r == req[w]
                        p == r.token.iss
                    IN  \E e \in born[r.lo][p]..Len(Published[p]) :
                          r.token.key \in Published[p][e]
  BY DEF ReloadForgetsKeys
<1> DEFINE r == req[w]
           p == r.token.iss
<1>1. /\ r \in Request /\ ReqOK(r, clock, state, config) /\ config[r.st] \in Configs
      /\ At(r, {"claims", "evaluate", "sign", "allow"}) /\ r.pc = "done"
      /\ At(r, {"fetch", "claims", "evaluate", "sign", "allow"})
  BY StateFacts DEF Granted, At
<1>2. r.lo \in Gens /\ r.st \in Gens /\ r.lo <= r.st /\ r.st <= state
  BY <1>1, RequestNumbers DEF ReqOK, Placed, Request
<1>3. p \in Providers
  BY <1>1, IssuerKnown DEF ReqOK, Vetted
<1>4. born[r.lo][p] <= born[r.st][p]
  BY <1>2, <1>3 DEF KeyInv, KeysOK
<1>5. r.keyEpoch \in born[r.st][p]..Len(Published[p]) /\ r.token.key \in Published[p][r.keyEpoch]
  BY <1>1 DEF KeyInv, KeyOK
<1>6. born[r.lo][p] \in Nat /\ born[r.st][p] \in Nat /\ Len(Published[p]) \in Nat
  BY <1>2, <1>3, PublishedAssumption DEF IndInv, TypeOK
<1>7. r.keyEpoch \in born[r.lo][p]..Len(Published[p])
  BY <1>4, <1>5, <1>6
<1> QED
  BY <1>5, <1>7

(* A reload forgets the keys fetched before it, for every key schedule and *)
(* any number of reloads: the keys of a grant were published when, or      *)
(* after, the ruleset current at the arrival of the request was installed. *)
THEOREM KeysForgotten == Spec => []ReloadForgetsKeys
<1>1. Init => KeyInv
  BY KeyInit
<1>2. IndInv /\ KeyInv /\ [Next]_vars => KeyInv'
  BY KeyStep
<1>3. IndInv /\ KeyInv => ReloadForgetsKeys
  BY KeysHold
<1> QED
  BY <1>1, <1>2, <1>3, Invariance, PTL DEF Spec

-----------------------------------------------------------------------------
(* The counters.  Recording are the workers between the two increments of  *)
(* RecordDenied; whoever is about to count a denial has a reason to count  *)
(* it under.                                                               *)

Recording == {w \in Workers : req[w].pc = "reason"}

CountInv ==
    /\ \A w \in Workers : req[w].pc \in {"deny", "reason"} => req[w].reason \in Reasons
    /\ IsFiniteSet(Recording)
    /\ DenialsAddUp

(* A step of Authorize other than the two increments neither enters nor    *)
(* leaves Recording, and gives a denial one of the reasons.                *)
LEMMA StepKinds ==
    ASSUME IndInv, NEW w \in Workers, Authorize(w)
    PROVE  \/ RecordDenied(w) \/ RecordReason(w)
           \/ /\ req[w].pc # "reason" /\ req'[w].pc # "reason"
              /\ req'[w].pc = "deny" => req'[w].reason \in Reasons
              /\ UNCHANGED <<denied, denials>>
<1> DEFINE r == req[w]
           Quiet(q) == q.pc # "reason" /\ (q.pc = "deny" => q.reason \in Reasons)
<1>0. r \in Request /\ req \in [Workers -> Request]
  BY DEF IndInv, TypeOK
<1> USE DEF metricsVars
<1>1. ASSUME NEW reason \in Reasons PROVE Quiet(Deny(r, reason))
  BY <1>0 DEF Deny, Request
<1>2. CASE LoadState(w)
  <2>1. \/ req'[w] = Deny([r EXCEPT !.st = state], "no_token")
        \/ req'[w] = [[r EXCEPT !.st = state] EXCEPT !.pc = "verify"]
    BY <1>0, <1>2 DEF LoadState
  <2>2. Quiet(req'[w])
    BY <1>0, <2>1 DEF Deny, Request, Reasons
  <2> QED
    BY <1>2, <2>2 DEF LoadState
<1>3. CASE RejectToken(w) \/ VerifyTimeout(w)
  <2>1. req'[w] = Deny(r, "verification_failed")
    BY <1>0, <1>3 DEF RejectToken, VerifyTimeout
  <2> QED
    BY <1>1, <1>3, <2>1 DEF RejectToken, VerifyTimeout, Reasons
<1>4. CASE UseCachedKeys(w) \/ AwaitKeys(w)
  <2>1. PICK e : \/ req'[w] = [r EXCEPT !.pc = "claims", !.checkedAt = clock, !.keyEpoch = e]
                 \/ req'[w] = [r EXCEPT !.pc = "fetch", !.checkedAt = clock]
    BY <1>0, <1>4 DEF UseCachedKeys, AwaitKeys
  <2>2. Quiet(req'[w])
    BY <1>0, <2>1 DEF Request
  <2> QED
    BY <1>4, <2>2 DEF UseCachedKeys, AwaitKeys
<1>5. CASE CheckClaims(w)
  <2>1. PICK claims : \/ req'[w] = Deny(r, "verification_failed")
                      \/ req'[w] = [r EXCEPT !.pc = "evaluate", !.claims = claims]
    BY <1>0, <1>5 DEF CheckClaims
  <2>2. Quiet([r EXCEPT !.pc = "evaluate", !.claims = claims])
    BY <1>0 DEF Request
  <2> QED
    BY <1>1, <1>5, <2>1, <2>2 DEF CheckClaims, Reasons
<1>6. CASE EvaluateRule(w)
  <2>1. \/ req'[w] = Deny(r, "policy_no_match")
        \/ req'[w] = [r EXCEPT !.pc = "sign"]
        \/ req'[w] = [r EXCEPT !.rule = r.rule + 1]
    BY <1>0, <1>6 DEF EvaluateRule
  <2>2. r.pc = "evaluate"
    BY <1>6 DEF EvaluateRule
  <2>3. Quiet([r EXCEPT !.pc = "sign"]) /\ Quiet([r EXCEPT !.rule = r.rule + 1])
    BY <1>0, <2>2 DEF Request
  <2> QED
    BY <1>1, <1>6, <2>1, <2>2, <2>3 DEF EvaluateRule, Reasons
<1>7. CASE Sign(w)
  <2>1. req'[w].pc = "allow"
    BY <1>0, <1>7 DEF Sign, Request
  <2> QED
    BY <1>7, <2>1 DEF Sign
<1>8. CASE SignFails(w)
  <2>1. req'[w] = [r EXCEPT !.pc = "done", !.verdict = "denied",
                            !.reason = "signing_failed", !.hi = state]
    BY <1>0, <1>8 DEF SignFails
  <2>2. req'[w].pc = "done"
    BY <1>0, <2>1 DEF Request
  <2> QED
    BY <1>8, <2>2 DEF SignFails
<1>9. CASE RecordAllowed(w)
  <2>1. req'[w] = [r EXCEPT !.pc = "done", !.verdict = "granted", !.hi = state]
    BY <1>0, <1>9 DEF RecordAllowed
  <2>2. req'[w].pc = "done"
    BY <1>0, <2>1 DEF Request
  <2> QED
    BY <1>9, <2>2 DEF RecordAllowed
<1> QED
  BY <1>2, <1>3, <1>4, <1>5, <1>6, <1>7, <1>8, <1>9 DEF Authorize

LEMMA CountStep ==
    ASSUME IndInv, CountInv, [Next]_vars
    PROVE  CountInv'
<1> USE DEF cfgVars, keyVars, metricsVars
<1> DEFINE sum(d) == d["no_token"] + d["verification_failed"]
                       + d["policy_no_match"] + d["signing_failed"]
           about(q) == q.pc \in {"deny", "reason"} => q.reason \in Reasons
<1>0. /\ req \in [Workers -> Request] /\ denied \in Nat /\ denials \in [Reasons -> Nat]
      /\ \A v \in Workers : about(req[v])
      /\ IsFiniteSet(Recording) /\ Cardinality(Recording) \in Nat
      /\ denied = sum(denials) + Cardinality(Recording)
  BY FS_CardinalityType DEF IndInv, TypeOK, CountInv, DenialsAddUp, Recording
<1>1. ASSUME UNCHANGED <<denied, denials>>,
             \A v \in Workers : /\ req'[v].pc = "reason" <=> req[v].pc = "reason"
                                /\ about(req'[v])
      PROVE  CountInv'
  <2>1. Recording' = Recording
    BY <1>1 DEF Recording
  <2> QED
    BY <1>0, <1>1, <2>1 DEF CountInv, DenialsAddUp, Recording
<1>2. ASSUME NEW w \in Workers, RecordDenied(w)
      PROVE  CountInv'
  <2>1. req' = [req EXCEPT ![w].pc = "reason"] /\ denied' = denied + 1 /\ denials' = denials
    BY <1>2 DEF RecordDenied
  <2>2. \A v \in Workers : /\ v # w => req'[v] = req[v]
                           /\ req'[w].pc = "reason" /\ req'[w].reason = req[w].reason
    <3>1. req'[w] = [req[w] EXCEPT !.pc = "reason"]
      BY <1>0, <2>1
    <3>2. req[w] \in Request
      BY <1>0
    <3>3. req'[w].pc = "reason" /\ req'[w].reason = req[w].reason
      BY <3>1, <3>2 DEF Request
    <3>4. \A v \in Workers : v # w => req'[v] = req[v]
      BY <1>0, <2>1
    <3> QED
      BY <3>3, <3>4
  <2>3. req[w].pc = "deny"
    BY <1>2 DEF RecordDenied
  <2>4. Recording' = Recording \cup {w} /\ w \notin Recording
    BY <2>2, <2>3 DEF Recording
  <2>5. IsFiniteSet(Recording') /\ Cardinality(Recording') = Cardinality(Recording) + 1
    BY <1>0, <2>4, FS_AddElement
  <2>6. sum(denials) \in Nat
    BY <1>0 DEF Reasons
  <2>7. denied' = sum(denials') + Cardinality(Recording')
    BY <1>0, <2>1, <2>5, <2>6
  <2>8. \A v \in Workers : about(req'[v])
    BY <1>0, <2>2, <2>3
  <2> QED
    BY <2>5, <2>7, <2>8 DEF CountInv, DenialsAddUp, Recording
<1>3. ASSUME NEW w \in Workers, RecordReason(w)
      PROVE  CountInv'
  <2> DEFINE x == req[w].reason
  <2>1. /\ denials' = [denials EXCEPT ![x] = denials[x] + 1] /\ denied' = denied
        /\ req' = [req EXCEPT ![w] = [req[w] EXCEPT !.pc = "done", !.verdict = "denied",
                                                    !.hi = state]]
        /\ req[w].pc = "reason"
    BY <1>3 DEF RecordReason
  <2>2. req'[w].pc = "done" /\ \A v \in Workers : v # w => req'[v] = req[v]
    <3>1. req'[w] = [req[w] EXCEPT !.pc = "done", !.verdict = "denied", !.hi = state]
      BY <1>0, <2>1
    <3> QED
      BY <1>0, <2>1, <3>1 DEF Request
  <2>3. Recording' = Recording \ {w} /\ w \in Recording
    BY <2>1, <2>2 DEF Recording
  <2>4. IsFiniteSet(Recording') /\ Cardinality(Recording') = Cardinality(Recording) - 1
    BY <1>0, <2>3, FS_RemoveElement
  <2>5. x \in Reasons
    BY <1>0, <2>1
  <2> HIDE DEF x
  <2>6. sum(denials') = sum(denials) + 1 /\ sum(denials) \in Nat
    BY <1>0, <2>1, <2>5 DEF Reasons
  <2>7. denied' = sum(denials') + Cardinality(Recording')
    BY <1>0, <2>1, <2>4, <2>6
  <2>8. \A v \in Workers : about(req'[v])
    BY <1>0, <2>2
  <2> QED
    BY <2>4, <2>7, <2>8 DEF CountInv, DenialsAddUp, Recording
<1>4. ASSUME NEW w \in Workers, Authorize(w)
      PROVE  CountInv'
  <2>1. CASE /\ req[w].pc # "reason" /\ req'[w].pc # "reason"
             /\ req'[w].pc = "deny" => req'[w].reason \in Reasons
             /\ UNCHANGED <<denied, denials>>
    <3>1. \A v \in Workers : /\ req'[v].pc = "reason" <=> req[v].pc = "reason"
                             /\ about(req'[v])
      BY <1>0, <1>4, <2>1, OthersUntouched
    <3> QED
      BY <1>1, <2>1, <3>1
  <2> QED
    BY <1>2, <1>3, <1>4, <2>1, StepKinds
<1>5. ASSUME NEW w \in Workers, NEW t, Receive(w, t)
      PROVE  CountInv'
  <2>1. UNCHANGED <<denied, denials>> /\ req[w].pc # "reason"
    BY <1>5 DEF Receive
  <2>2. req'[w].pc = "load" /\ \A v \in Workers : v # w => req'[v] = req[v]
    BY <1>0, <1>5 DEF Receive, NoRequest
  <2> QED
    BY <1>0, <1>1, <2>1, <2>2
<1>6. ASSUME NEW g \in Gens, NEW p \in Providers, KeysArrive(g, p) \/ KeysFail(g, p)
      PROVE  CountInv'
  <2>1. UNCHANGED <<denied, denials>>
    BY <1>6 DEF KeysArrive, KeysFail
  <2>2. ASSUME NEW v \in Workers
        PROVE  (req'[v].pc = "reason" <=> req[v].pc = "reason") /\ about(req'[v])
    <3>1. PICK e : \/ req'[v] = req[v]
                   \/ /\ Waiting(v, g, p)
                      /\ \/ req'[v] = Deny(req[v], "verification_failed")
                         \/ req'[v] = [req[v] EXCEPT !.pc = "claims", !.keyEpoch = e]
      BY <1>6 DEF KeysArrive, KeysFail
    <3>2. Waiting(v, g, p) => req[v].pc = "fetch"
      BY DEF Waiting
    <3>3. /\ Deny(req[v], "verification_failed").pc = "deny"
          /\ Deny(req[v], "verification_failed").reason = "verification_failed"
          /\ [req[v] EXCEPT !.pc = "claims", !.keyEpoch = e].pc = "claims"
      BY <1>0 DEF Deny, Request
    <3> QED
      BY <1>0, <3>1, <3>2, <3>3 DEF Reasons
  <2> QED
    BY <1>1, <2>1, <2>2
<1>7. CASE \/ \E c \in Configs : Reload(c)
           \/ \E p \in Providers : RotateKeys(p)
           \/ Tick
           \/ UNCHANGED vars
  <2>1. UNCHANGED <<req, denied, denials>>
    BY <1>7 DEF Reload, RotateKeys, Tick, vars
  <2> QED
    BY <1>0, <1>1, <2>1
<1> QED
  BY <1>4, <1>5, <1>6, <1>7 DEF Next, Quiescent

(* At first nothing is counted.                                            *)
LEMMA CountInit == Init => CountInv
<1> SUFFICES ASSUME Init PROVE CountInv
  OBVIOUS
<1>1. \A w \in Workers : req[w].pc = "idle"
  BY DEF Init, NoRequest
<1>2. Recording = {}
  BY <1>1 DEF Recording
<1>3. IsFiniteSet(Recording) /\ Cardinality(Recording) = 0
  BY <1>2, FS_EmptySet
<1>4. denied = 0 /\ \A x \in Reasons : denials[x] = 0
  BY DEF Init
<1> QED
  BY <1>1, <1>3, <1>4 DEF CountInv, DenialsAddUp, Recording, Reasons

(* The denial total and the denials by reason differ by exactly the        *)
(* requests between the two increments of RecordDenied, for any number of  *)
(* workers, even an infinite one.                                          *)
THEOREM DenialsAgree == Spec => []DenialsAddUp
<1>1. Init => CountInv
  BY CountInit
<1>2. IndInv /\ CountInv /\ [Next]_vars => CountInv'
  BY CountStep
<1>3. CountInv => DenialsAddUp
  BY DEF CountInv
<1> QED
  BY <1>1, <1>2, <1>3, Invariance, PTL DEF Spec

-----------------------------------------------------------------------------
(* The refinement.  AnswerOK says what will be visible of the answer: the  *)
(* reason of a denial is right from the moment it is chosen, and nothing   *)
(* of a grant is in a denial or of a denial in a grant.                    *)

AnswerOK(r, now, cf) ==
    /\ r.pc \notin {"deny", "reason", "done"} => r.reason = "none"
    /\ r.pc \notin {"allow", "done"} => r.account = "" /\ r.expires = 0
    /\ r.pc \in {"deny", "reason"} => RightReason(r.reason, cf[r.st], r.token, r.start..now)

AnswerInv == \A w \in Workers : AnswerOK(req[w], clock, config)

(* A grant that is made is one of those that may be made.                  *)
LEMMA GrantAmong ==
    ASSUME NEW cfg, NEW tok, NEW period, NEW i \in 1..Len(cfg.policy), NEW now \in period,
           NEW claims \in Parse(tok.payload), Accepts(cfg, tok, claims, period),
           FirstMatch(cfg, i, tok, claims, period)
    PROVE  Grant(cfg.policy[i].account,
                 Unix(CappedExpiry(tok.exp * TPS, cfg.policy[i].maxExpiry, now)))
                \in Grants(cfg, tok, period)
BY DEF Grants

(* A reason that is right stays so.                                        *)
LEMMA RightReasonKept ==
    ASSUME NEW reason, NEW cfg, NEW tok, NEW a \in Int, NEW b \in Int, NEW d \in Int, b <= d,
           RightReason(reason, cfg, tok, a..b)
    PROVE  RightReason(reason, cfg, tok, a..d)
<1>1. a..b \subseteq a..d
  OBVIOUS
<1>2. ASSUME NEW c PROVE Accepts(cfg, tok, c, a..b) => Accepts(cfg, tok, c, a..d)
  BY <1>1 DEF Accepts
<1>3. ASSUME NEW c, NEW i
      PROVE  /\ Misses(cfg, i, tok, c, a..b) => Misses(cfg, i, tok, c, a..d)
             /\ FirstMatch(cfg, i, tok, c, a..b) => FirstMatch(cfg, i, tok, c, a..d)
  BY LongerPeriod
<1>4. ASSUME Grants(cfg, tok, a..b) # {} PROVE Grants(cfg, tok, a..d) # {}
  <2>1. PICK i \in 1..Len(cfg.policy), now \in a..b, c \in Parse(tok.payload) :
            Accepts(cfg, tok, c, a..b) /\ FirstMatch(cfg, i, tok, c, a..b)
    BY <1>4 DEF Grants
  <2>2. Accepts(cfg, tok, c, a..d) /\ FirstMatch(cfg, i, tok, c, a..d) /\ now \in a..d
    BY <1>1, <1>2, <1>3, <2>1
  <2> QED
    BY <2>2, GrantAmong
<1> QED
  BY <1>2, <1>3, <1>4 DEF RightReason

(* A denial leaves what the request came with.                             *)
LEMMA DenyFields ==
    ASSUME NEW r \in Request, NEW reason
    PROVE  /\ Deny(r, reason).token = r.token /\ Deny(r, reason).lo = r.lo
           /\ Deny(r, reason).start = r.start /\ Deny(r, reason).pc = "deny"
BY DEF Deny, Request

(* A step of Authorize leaves what the request came with, and is visible   *)
(* only when it answers.                                                   *)
LEMMA ArrivalKept ==
    ASSUME IndInv, NEW w \in Workers, Authorize(w)
    PROVE  /\ req'[w].token = req[w].token /\ req'[w].lo = req[w].lo
           /\ req'[w].start = req[w].start
           /\ req[w].pc \notin {"idle", "done"}
           /\ \/ req'[w].pc \notin {"idle", "done"}
              \/ RecordAllowed(w) \/ RecordReason(w) \/ SignFails(w)
<1> DEFINE r == req[w]
           Same(q) == q.token = r.token /\ q.lo = r.lo /\ q.start = r.start
           Busy(q) == q.pc \notin {"idle", "done"}
<1>0. r \in Request /\ req \in [Workers -> Request]
  BY DEF IndInv, TypeOK
<1>1. CASE LoadState(w)
  <2> DEFINE s == [r EXCEPT !.st = state]
  <2>1. s \in Request /\ Same(s)
    BY <1>0 DEF Request, IndInv, TypeOK
  <2>2. req'[w] = Deny(s, "no_token") \/ req'[w] = [s EXCEPT !.pc = "verify"]
    BY <1>0, <1>1 DEF LoadState
  <2> HIDE DEF s
  <2>3. CASE req'[w] = Deny(s, "no_token")
    BY <1>1, <2>1, <2>3, DenyFields DEF LoadState
  <2>4. CASE req'[w] = [s EXCEPT !.pc = "verify"]
    <3>1. Same(req'[w]) /\ req'[w].pc = "verify"
      BY <2>1, <2>4 DEF Request
    <3> QED
      BY <1>1, <3>1 DEF LoadState
  <2> QED
    BY <2>2, <2>3, <2>4
<1>2. CASE RejectToken(w) \/ VerifyTimeout(w)
  <2>1. req'[w] = Deny(r, "verification_failed") /\ Busy(r)
    BY <1>0, <1>2 DEF RejectToken, VerifyTimeout
  <2>2. Same(req'[w]) /\ Busy(req'[w])
    BY <1>0, <2>1, DenyFields
  <2> QED
    BY <2>1, <2>2
<1>3. CASE UseCachedKeys(w) \/ AwaitKeys(w)
  <2>1. PICK e : \/ req'[w] = [r EXCEPT !.pc = "claims", !.checkedAt = clock, !.keyEpoch = e]
                 \/ req'[w] = [r EXCEPT !.pc = "fetch", !.checkedAt = clock]
    BY <1>0, <1>3 DEF UseCachedKeys, AwaitKeys
  <2>2. Same(req'[w]) /\ Busy(req'[w])
    <3>1. CASE req'[w] = [r EXCEPT !.pc = "claims", !.checkedAt = clock, !.keyEpoch = e]
      BY <1>0, <3>1 DEF Request
    <3>2. CASE req'[w] = [r EXCEPT !.pc = "fetch", !.checkedAt = clock]
      BY <1>0, <3>2 DEF Request
    <3> QED
      BY <2>1, <3>1, <3>2
  <2> QED
    BY <1>3, <2>2 DEF UseCachedKeys, AwaitKeys
<1>4. CASE CheckClaims(w)
  <2>1. PICK claims : \/ req'[w] = Deny(r, "verification_failed")
                      \/ req'[w] = [r EXCEPT !.pc = "evaluate", !.claims = claims]
    BY <1>0, <1>4 DEF CheckClaims
  <2>2. Same(req'[w]) /\ Busy(req'[w])
    <3>1. CASE req'[w] = Deny(r, "verification_failed")
      BY <1>0, <3>1, DenyFields
    <3>2. CASE req'[w] = [r EXCEPT !.pc = "evaluate", !.claims = claims]
      BY <1>0, <3>2 DEF Request
    <3> QED
      BY <2>1, <3>1, <3>2
  <2> QED
    BY <1>4, <2>2 DEF CheckClaims
<1>5. CASE EvaluateRule(w)
  <2>1. \/ req'[w] = Deny(r, "policy_no_match")
        \/ req'[w] = [r EXCEPT !.pc = "sign"]
        \/ req'[w] = [r EXCEPT !.rule = r.rule + 1]
    BY <1>0, <1>5 DEF EvaluateRule
  <2>2. r.pc = "evaluate"
    BY <1>5 DEF EvaluateRule
  <2>3. Same(req'[w]) /\ Busy(req'[w])
    <3>1. CASE req'[w] = Deny(r, "policy_no_match")
      BY <1>0, <3>1, DenyFields
    <3>2. CASE req'[w] = [r EXCEPT !.pc = "sign"]
      BY <1>0, <3>2 DEF Request
    <3>3. CASE req'[w] = [r EXCEPT !.rule = r.rule + 1]
      BY <1>0, <2>2, <3>3 DEF Request
    <3> QED
      BY <2>1, <3>1, <3>2, <3>3
  <2> QED
    BY <2>2, <2>3
<1>6. CASE Sign(w)
  <2>1. PICK a, e : req'[w] = [r EXCEPT !.pc = "allow", !.account = a, !.expires = e,
                                        !.signedAt = clock]
    BY <1>0, <1>6 DEF Sign
  <2>2. Same(req'[w]) /\ Busy(req'[w])
    BY <1>0, <2>1 DEF Request
  <2> QED
    BY <1>6, <2>2 DEF Sign
<1>7. CASE SignFails(w)
  <2>1. req'[w] = [r EXCEPT !.pc = "done", !.verdict = "denied",
                            !.reason = "signing_failed", !.hi = state]
    BY <1>0, <1>7 DEF SignFails
  <2>2. Same(req'[w])
    BY <1>0, <2>1 DEF Request
  <2> QED
    BY <1>7, <2>2 DEF SignFails
<1>8. CASE RecordAllowed(w) \/ RecordReason(w)
  <2>1. PICK v : req'[w] = [r EXCEPT !.pc = "done", !.verdict = v, !.hi = state]
    BY <1>0, <1>8 DEF RecordAllowed, RecordReason
  <2>2. Same(req'[w])
    BY <1>0, <2>1 DEF Request
  <2> QED
    BY <1>8, <2>2 DEF RecordAllowed, RecordReason
<1>9. CASE RecordDenied(w)
  <2>1. req'[w] = [r EXCEPT !.pc = "reason"] /\ Busy(r)
    BY <1>0, <1>9 DEF RecordDenied
  <2>2. Same(req'[w]) /\ Busy(req'[w])
    BY <1>0, <2>1 DEF Request
  <2> QED
    BY <2>1, <2>2
<1> QED
  BY <1>1, <1>2, <1>3, <1>4, <1>5, <1>6, <1>7, <1>8, <1>9 DEF Authorize

(* The end of a fetch is not visible.                                      *)
LEMMA FetchKept ==
    ASSUME IndInv, NEW g \in Gens, NEW p \in Providers, KeysArrive(g, p) \/ KeysFail(g, p),
           NEW w \in Workers
    PROVE  /\ req'[w].token = req[w].token /\ req'[w].lo = req[w].lo
           /\ req'[w].start = req[w].start
           /\ \/ req'[w] = req[w]
              \/ req[w].pc = "fetch" /\ req'[w].pc \in {"claims", "deny"}
<1>0. req[w] \in Request
  BY DEF IndInv, TypeOK
<1>1. PICK e : \/ req'[w] = req[w]
               \/ Waiting(w, g, p) /\ req'[w] = [req[w] EXCEPT !.pc = "claims", !.keyEpoch = e]
               \/ Waiting(w, g, p) /\ req'[w] = Deny(req[w], "verification_failed")
  BY DEF KeysArrive, KeysFail
<1>2. req'[w].token = req[w].token /\ req'[w].lo = req[w].lo /\ req'[w].start = req[w].start
  BY <1>0, <1>1 DEF Deny, Request
<1>3. req'[w] = req[w] \/ (Waiting(w, g, p) /\ req'[w].pc \in {"claims", "deny"})
  BY <1>0, <1>1 DEF Deny, Request
<1> QED
  BY <1>2, <1>3 DEF Waiting

(* The answer being prepared, while a request is busy.                     *)
LEMMA AnswerKept ==
    ASSUME IndInv, AnswerInv, NEW w \in Workers, Authorize(w)
    PROVE  AnswerOK(req'[w], clock, config)
<1> DEFINE r == req[w]
           cf == config[r.st]
           Blank(q) == q.account = "" /\ q.expires = 0
<1>0. /\ r \in Request /\ req \in [Workers -> Request] /\ AnswerOK(r, clock, config)
      /\ ReqOK(r, clock, state, config) /\ clock \in Int /\ r.start \in Int
  BY StateFacts, RequestNumbers DEF IndInv, TypeOK, AnswerInv
<1>1. r.pc \in {"verify", "fetch", "claims", "evaluate", "sign", "allow"} => r.token # NoToken
  BY <1>0, TokenAssumption DEF ReqOK, Vetted, At
<1>2. ASSUME NEW reason, r.pc \notin {"allow", "done"},
             RightReason(reason, cf, r.token, r.start..clock)
      PROVE  AnswerOK(Deny(r, reason), clock, config)
  <2> DEFINE q == Deny(r, reason)
  <2>1. /\ q.pc = "deny" /\ q.reason = reason /\ q.account = r.account /\ q.expires = r.expires
        /\ q.st = r.st /\ q.token = r.token /\ q.start = r.start
    BY <1>0 DEF Deny, Request
  <2> HIDE DEF q
  <2>2. AnswerOK(q, clock, config)
    BY <1>0, <1>2, <2>1 DEF AnswerOK
  <2> QED
    BY <2>2 DEF q
<1>3. ASSUME NEW q, q.pc \notin {"deny", "reason", "done", "allow"}, q.reason = r.reason,
             q.account = r.account, q.expires = r.expires,
             r.pc \notin {"deny", "reason", "done", "allow"}
      PROVE  AnswerOK(q, clock, config)
  BY <1>0, <1>3 DEF AnswerOK
<1>4. CASE LoadState(w)
  <2> DEFINE s == [r EXCEPT !.st = state]
  <2>1. /\ s \in [pc : {"load"}, token : {r.token}, lo : {r.lo}, start : {r.start}, st : {state},
                  checkedAt : {r.checkedAt}, keyEpoch : {r.keyEpoch}, claims : {r.claims},
                  rule : {r.rule}, account : {r.account}, expires : {r.expires},
                  signedAt : {r.signedAt}, verdict : {r.verdict}, reason : {r.reason},
                  hi : {r.hi}]
        /\ r.pc = "load"
    BY <1>0, <1>4 DEF LoadState, Request
  <2>2. \/ r.token = NoToken /\ req'[w] = Deny(s, "no_token")
        \/ req'[w] = [s EXCEPT !.pc = "verify"]
    BY <1>0, <1>4 DEF LoadState, Request
  <2> HIDE DEF s
  <2>3. CASE req'[w] = [s EXCEPT !.pc = "verify"]
    <3>1. /\ req'[w].pc = "verify" /\ req'[w].reason = r.reason
          /\ req'[w].account = r.account /\ req'[w].expires = r.expires
      BY <2>1, <2>3
    <3> QED
      BY <1>3, <2>1, <3>1
  <2>4. CASE r.token = NoToken /\ req'[w] = Deny(s, "no_token")
    <3>1. /\ req'[w].pc = "deny" /\ req'[w].reason = "no_token" /\ req'[w].token = NoToken
          /\ req'[w].account = r.account /\ req'[w].expires = r.expires
      BY <2>1, <2>4 DEF Deny
    <3> QED
      BY <1>0, <2>1, <3>1 DEF AnswerOK, RightReason
  <2> QED
    BY <2>2, <2>3, <2>4
<1>5. CASE RejectToken(w) \/ VerifyTimeout(w)
  <2>1. req'[w] = Deny(r, "verification_failed") /\ r.pc \in {"verify", "fetch"}
    BY <1>0, <1>5 DEF RejectToken, VerifyTimeout
  <2> QED
    BY <1>1, <1>2, <2>1 DEF RightReason
<1>6. CASE UseCachedKeys(w) \/ AwaitKeys(w)
  <2>1. PICK e : \/ req'[w] = [r EXCEPT !.pc = "claims", !.checkedAt = clock, !.keyEpoch = e]
                 \/ req'[w] = [r EXCEPT !.pc = "fetch", !.checkedAt = clock]
    BY <1>0, <1>6 DEF UseCachedKeys, AwaitKeys
  <2>2. /\ req'[w].pc \in {"claims", "fetch"} /\ req'[w].reason = r.reason
        /\ req'[w].account = r.account /\ req'[w].expires = r.expires
    BY <1>0, <2>1 DEF Request
  <2>3. r.pc = "verify"
    BY <1>6 DEF UseCachedKeys, AwaitKeys
  <2> QED
    BY <1>3, <2>2, <2>3
<1>7. CASE CheckClaims(w)
  <2>1. PICK claims : \/ req'[w] = Deny(r, "verification_failed")
                      \/ req'[w] = [r EXCEPT !.pc = "evaluate", !.claims = claims]
    BY <1>0, <1>7 DEF CheckClaims
  <2>2. r.pc = "claims"
    BY <1>7 DEF CheckClaims
  <2>3. CASE req'[w] = Deny(r, "verification_failed")
    BY <1>1, <1>2, <2>2, <2>3 DEF RightReason
  <2>4. CASE req'[w] = [r EXCEPT !.pc = "evaluate", !.claims = claims]
    <3>1. /\ req'[w].pc = "evaluate" /\ req'[w].reason = r.reason
          /\ req'[w].account = r.account /\ req'[w].expires = r.expires
      BY <1>0, <2>4 DEF Request
    <3> QED
      BY <1>3, <2>2, <3>1
  <2> QED
    BY <2>1, <2>3, <2>4
<1>8. CASE EvaluateRule(w)
  <2> DEFINE match == RuleMatches(cf.policy[r.rule], VerifiedIdentity(r.token, r.claims), clock)
  <2>1. \/ req'[w] = Deny(r, "policy_no_match") /\ ~match /\ r.rule = Len(cf.policy)
        \/ req'[w] = [r EXCEPT !.pc = "sign"]
        \/ req'[w] = [r EXCEPT !.rule = r.rule + 1]
    BY <1>0, <1>8 DEF EvaluateRule
  <2>2. r.pc = "evaluate"
    BY <1>8 DEF EvaluateRule
  <2> HIDE DEF match
  <2>3. CASE req'[w] = Deny(r, "policy_no_match") /\ ~match /\ r.rule = Len(cf.policy)
    <3>1. /\ r.checkedAt \in r.start..clock /\ Admissible(cf, r.token, r.checkedAt)
          /\ AudienceAllowed(cf, r.token) /\ r.claims \in Parse(r.token.payload)
          /\ RequiredClaimsHeld(cf, r.token, r.claims)
      BY <1>0, <2>2 DEF ReqOK, Vetted, At
    <3>2. Accepts(cf, r.token, r.claims, r.start..clock)
      BY <3>1 DEF Accepts
    <3>3. Misses(cf, r.rule, r.token, r.claims, r.start..clock)
      <4>1. clock \in r.start..clock
        BY <1>0 DEF ReqOK, Placed
      <4> QED
        BY <2>3, <4>1 DEF Misses, match
    <3>4. /\ r.rule \in 1..Len(cf.policy)
          /\ \A j \in 1..(r.rule - 1) : Misses(cf, j, r.token, r.claims, r.start..clock)
      BY <1>0, <2>2 DEF ReqOK, Judged, At
    <3>5. ASSUME NEW i \in 1..Len(cf.policy)
          PROVE  Misses(cf, i, r.token, r.claims, r.start..clock)
      <4>1. i = r.rule \/ i \in 1..(r.rule - 1)
        BY <2>3, <3>4
      <4> QED
        BY <3>3, <3>4, <4>1
    <3>6. RightReason("policy_no_match", cf, r.token, r.start..clock)
      BY <1>1, <2>2, <3>1, <3>2, <3>5 DEF RightReason
    <3> QED
      BY <1>2, <2>2, <2>3, <3>6
  <2>4. CASE req'[w] = [r EXCEPT !.pc = "sign"] \/ req'[w] = [r EXCEPT !.rule = r.rule + 1]
    <3>1. /\ req'[w].pc \in {"sign", "evaluate"} /\ req'[w].reason = r.reason
          /\ req'[w].account = r.account /\ req'[w].expires = r.expires
      BY <1>0, <2>2, <2>4 DEF Request
    <3> QED
      BY <1>3, <2>2, <3>1
  <2> QED
    BY <2>1, <2>3, <2>4
<1>9. CASE Sign(w)
  <2>1. PICK a, e : req'[w] = [r EXCEPT !.pc = "allow", !.account = a, !.expires = e,
                                        !.signedAt = clock]
    BY <1>0, <1>9 DEF Sign
  <2>2. r.pc = "sign" /\ req'[w].pc = "allow" /\ req'[w].reason = r.reason
    BY <1>0, <1>9, <2>1 DEF Sign, Request
  <2> QED
    BY <1>0, <2>2 DEF AnswerOK
<1>10. CASE RecordDenied(w)
  <2>1. req'[w] = [r EXCEPT !.pc = "reason"] /\ r.pc = "deny"
    BY <1>0, <1>10 DEF RecordDenied
  <2>2. /\ req'[w].pc = "reason" /\ req'[w].reason = r.reason /\ req'[w].account = r.account
        /\ req'[w].expires = r.expires /\ req'[w].st = r.st /\ req'[w].token = r.token
        /\ req'[w].start = r.start
    BY <1>0, <2>1 DEF Request
  <2> QED
    BY <1>0, <2>1, <2>2 DEF AnswerOK
<1>11. CASE RecordAllowed(w) \/ RecordReason(w) \/ SignFails(w)
  <2>1. PICK v, s : req'[w] = [r EXCEPT !.pc = "done", !.verdict = v, !.reason = s, !.hi = state]
    <3>1. CASE RecordAllowed(w) \/ RecordReason(w)
      <4>1. PICK v : req'[w] = [r EXCEPT !.pc = "done", !.verdict = v, !.hi = state]
        BY <1>0, <3>1 DEF RecordAllowed, RecordReason
      <4>2. req'[w] = [r EXCEPT !.pc = "done", !.verdict = v, !.reason = r.reason, !.hi = state]
        BY <1>0, <4>1 DEF Request
      <4> QED
        BY <4>2
    <3>2. CASE SignFails(w)
      BY <1>0, <3>2 DEF SignFails
    <3> QED
      BY <1>11, <3>1, <3>2
  <2>2. req'[w].pc = "done"
    BY <1>0, <2>1 DEF Request
  <2> QED
    BY <2>2 DEF AnswerOK
<1> QED
  BY <1>4, <1>5, <1>6, <1>7, <1>8, <1>9, <1>10, <1>11 DEF Authorize

(* A step of Authorize changes no time and no ruleset, and one request.    *)
LEMMA AuthorizeAlone ==
    ASSUME NEW w \in Workers, Authorize(w)
    PROVE  UNCHANGED <<clock, state, config>>
BY DEF Authorize, LoadState, RejectToken, UseCachedKeys, AwaitKeys, VerifyTimeout, CheckClaims,
   EvaluateRule, Sign, SignFails, RecordAllowed, RecordDenied, RecordReason, cfgVars

LEMMA AnswerStep ==
    ASSUME IndInv, AnswerInv, [Next]_vars
    PROVE  AnswerInv'
<1> SUFFICES ASSUME NEW v \in Workers PROVE AnswerOK(req'[v], clock', config')
  BY DEF AnswerInv
<1>0. /\ req \in [Workers -> Request] /\ AnswerOK(req[v], clock, config)
      /\ req[v] \in Request /\ ReqOK(req[v], clock, state, config)
      /\ clock \in Int /\ req[v].start \in Int /\ req[v].st \in Gens /\ req[v].st \in Nat
      /\ state \in Nat
  BY StateFacts, RequestNumbers DEF IndInv, TypeOK, AnswerInv
<1>1. ASSUME NEW w \in Workers, NEW t, Receive(w, t)
      PROVE  AnswerOK(req'[v], clock', config')
  <2>1. UNCHANGED <<clock, config>>
    BY <1>1 DEF Receive, cfgVars
  <2>2. \/ req'[v] = req[v]
        \/ /\ req'[v].pc = "load" /\ req'[v].reason = "none" /\ req'[v].account = ""
           /\ req'[v].expires = 0
    BY <1>0, <1>1 DEF Receive, NoRequest
  <2> QED
    BY <1>0, <2>1, <2>2 DEF AnswerOK
<1>2. ASSUME NEW w \in Workers, Authorize(w)
      PROVE  AnswerOK(req'[v], clock', config')
  <2>1. UNCHANGED <<clock, config>>
    BY <1>2, AuthorizeAlone
  <2>2. CASE v = w
    <3>1. AnswerOK(req'[w], clock, config)
      BY <1>2, AnswerKept
    <3> QED
      BY <2>1, <2>2, <3>1
  <2>3. CASE v # w
    <3>1. req'[v] = req[v]
      BY <1>2, <2>3, OthersUntouched
    <3> QED
      BY <1>0, <2>1, <3>1
  <2> QED
    BY <2>2, <2>3
<1>3. ASSUME NEW g \in Gens, NEW p \in Providers, KeysArrive(g, p) \/ KeysFail(g, p)
      PROVE  AnswerOK(req'[v], clock', config')
  <2>1. UNCHANGED <<clock, config>>
    BY <1>3 DEF KeysArrive, KeysFail, cfgVars
  <2>2. PICK e :
            \/ req'[v] = req[v]
            \/ Waiting(v, g, p) /\ req'[v] = [req[v] EXCEPT !.pc = "claims", !.keyEpoch = e]
            \/ Waiting(v, g, p) /\ req'[v] = Deny(req[v], "verification_failed")
    BY <1>3 DEF KeysArrive, KeysFail
  <2>3. CASE Waiting(v, g, p) /\ req'[v] = [req[v] EXCEPT !.pc = "claims", !.keyEpoch = e]
    <3>1. /\ req'[v].pc = "claims" /\ req'[v].reason = req[v].reason
          /\ req'[v].account = req[v].account /\ req'[v].expires = req[v].expires
      BY <1>0, <2>3 DEF Request
    <3> QED
      BY <1>0, <2>3, <3>1 DEF AnswerOK, Waiting
  <2>4. CASE Waiting(v, g, p) /\ req'[v] = Deny(req[v], "verification_failed")
    <3>1. /\ req'[v].pc = "deny" /\ req'[v].reason = "verification_failed"
          /\ req'[v].account = req[v].account /\ req'[v].expires = req[v].expires
          /\ req'[v].token = req[v].token
      BY <1>0, <2>4 DEF Deny, Request
    <3>2. req[v].token # NoToken
      BY <1>0, <2>4, TokenAssumption DEF Waiting, ReqOK, Vetted, At
    <3> QED
      BY <1>0, <2>4, <3>1, <3>2 DEF AnswerOK, RightReason, Waiting
  <2> QED
    BY <1>0, <2>1, <2>2, <2>3, <2>4
<1>4. ASSUME NEW c \in Configs, Reload(c)
      PROVE  AnswerOK(req'[v], clock', config')
  <2>1. req' = req /\ clock' = clock /\ config' = [config EXCEPT ![state + 1] = c]
    BY <1>4 DEF Reload
  <2>2. req[v].pc # "load" => req[v].st <= state
    BY <1>0 DEF ReqOK, Placed
  <2>3. req[v].pc # "load" => config'[req[v].st] = config[req[v].st]
    BY <1>0, <2>1, <2>2 DEF IndInv, TypeOK
  <2> QED
    BY <1>0, <2>1, <2>3 DEF AnswerOK
<1>5. CASE Tick
  <2>1. clock' = clock + 1 /\ UNCHANGED <<req, config>>
    BY <1>5 DEF Tick, cfgVars
  <2>2. ASSUME NEW reason, NEW cf, NEW tok, RightReason(reason, cf, tok, req[v].start..clock)
        PROVE  RightReason(reason, cf, tok, req[v].start..clock')
    <3>1. clock' \in Int /\ clock <= clock'
      BY <1>0, <2>1
    <3> QED
      BY <1>0, <2>2, <3>1, RightReasonKept
  <2> QED
    BY <1>0, <2>1, <2>2 DEF AnswerOK
<1>6. CASE (\E p \in Providers : RotateKeys(p)) \/ UNCHANGED vars
  BY <1>0, <1>6 DEF RotateKeys, vars, cfgVars
<1> QED
  BY <1>1, <1>2, <1>3, <1>4, <1>5, <1>6 DEF Next, Quiescent

(* What the outside sees of a request.                                     *)
LEMMA AskedIs ==
    ASSUME NEW r
    PROVE  /\ r.pc = "done" => Asked(r) = [phase |-> "answered", token |-> r.token, lo |-> r.lo,
                start |-> r.start, answer |-> [verdict |-> r.verdict, account |-> r.account,
                                               expires |-> r.expires, reason |-> r.reason]]
           /\ r.pc = "idle" => Asked(r) = [phase |-> "idle", token |-> r.token, lo |-> r.lo,
                start |-> r.start, answer |-> Promise!NoAnswer]
           /\ r.pc \notin {"idle", "done"} => Asked(r) = [phase |-> "pending", token |-> r.token,
                lo |-> r.lo, start |-> r.start, answer |-> Promise!NoAnswer]
BY DEF Asked, Promise!NoAnswer

(* Steps that are not seen.                                                *)
LEMMA NotSeen ==
    ASSUME UNCHANGED <<clock, state, config>>,
           \A w \in Workers : Asked(req'[w]) = Asked(req[w])
    PROVE  UNCHANGED Promise!vars
BY DEF Promise!vars

(* An answer is seen as one that a configuration of its time gives.        *)
LEMMA SeenAnswer ==
    ASSUME IndInv, NEW w \in Workers, NEW answer,
           UNCHANGED <<clock, state, config>>,
           \A v \in Workers : v # w => req'[v] = req[v],
           req[w].pc \notin {"idle", "done", "load"},
           Asked(req'[w]) = [phase |-> "answered", token |-> req[w].token, lo |-> req[w].lo,
                             start |-> req[w].start, answer |-> answer],
           answer \in Answers(config[req[w].st], req[w].token, req[w].start..clock)
    PROVE  Promise!Answer(w)
<1> DEFINE asked == [v \in Workers |-> Asked(req[v])]
           a == asked[w]
<1>1. a = [phase |-> "pending", token |-> req[w].token, lo |-> req[w].lo,
           start |-> req[w].start, answer |-> Promise!NoAnswer]
  BY AskedIs
<1>2. req[w].st \in req[w].lo..state
  BY StateFacts, RequestNumbers DEF ReqOK, Placed
<1>3. Asked(req'[w]) = [a EXCEPT !.phase = "answered", !.answer = answer]
  <2>1. a \in [phase : {"pending"}, token : {req[w].token}, lo : {req[w].lo},
               start : {req[w].start}, answer : {Promise!NoAnswer}]
    BY <1>1
  <2> DEFINE b == [a EXCEPT !.phase = "answered", !.answer = answer]
  <2> HIDE DEF a
  <2>2. b \in [phase : {"answered"}, token : {req[w].token}, lo : {req[w].lo},
               start : {req[w].start}, answer : {answer}]
    BY <2>1
  <2> HIDE DEF b
  <2>3. b = [phase |-> "answered", token |-> req[w].token, lo |-> req[w].lo,
             start |-> req[w].start, answer |-> answer]
    BY <2>2
  <2> QED
    BY <2>3 DEF b
<1>4. [v \in Workers |-> Asked(req'[v])]
        = [asked EXCEPT ![w] = [a EXCEPT !.phase = "answered", !.answer = answer]]
  <2> DEFINE b == [a EXCEPT !.phase = "answered", !.answer = answer]
  <2>1. Asked(req'[w]) = b
    BY <1>3
  <2> HIDE DEF b
  <2>2. [v \in Workers |-> Asked(req'[v])] = [asked EXCEPT ![w] = b]
    BY <2>1
  <2> QED
    BY <2>2 DEF b
<1>5. /\ a.phase = "pending" /\ a.lo = req[w].lo /\ a.token = req[w].token
      /\ a.start = req[w].start
  BY <1>1
<1>6. answer \in Answers(config[req[w].st], a.token, a.start..clock)
  BY <1>5
<1>7. [v \in Workers |-> Asked(req'[v])][w].answer = answer
  <2>1. [v \in Workers |-> Asked(req'[v])][w] = Asked(req'[w])
    OBVIOUS
  <2> QED
    BY <2>1
<1> HIDE DEF a
<1>8. \E g \in a.lo..state : answer \in Answers(config[g], a.token, a.start..clock)
  BY <1>2, <1>5, <1>6
<1> QED
  BY <1>4, <1>5, <1>7, <1>8 DEF Promise!Answer, a

(* Every step of the authorizer is a step of the promise, or not seen.     *)
LEMMA Simulation ==
    ASSUME IndInv, AnswerInv, [Next]_vars
    PROVE  [Promise!Next]_(Promise!vars)
<1>0. req \in [Workers -> Request]
  BY DEF IndInv, TypeOK
<1>1. ASSUME NEW w \in Workers, NEW t \in Tokens \cup {NoToken}, Receive(w, t)
      PROVE  Promise!Ask(w, t)
  <2> DEFINE u == Promise!Unasked
             asked == [v \in Workers |-> Asked(req[v])]
             b == [u EXCEPT !.phase = "pending", !.token = t, !.lo = state, !.start = clock]
  <2>1. /\ req[w].pc \in {"idle", "done"} /\ UNCHANGED <<clock, state, config>>
        /\ \A v \in Workers : v # w => req'[v] = req[v]
        /\ state > 0
    BY <1>0, <1>1, BoundAssumption DEF Receive, cfgVars, IndInv, TypeOK, Gens
  <2>2. asked[w].phase # "pending"
    BY <2>1, AskedIs
  <2>3. req'[w].pc = "load" /\ req'[w].token = t /\ req'[w].lo = state /\ req'[w].start = clock
    BY <1>0, <1>1 DEF Receive, NoRequest
  <2>4. Asked(req'[w]) = [phase |-> "pending", token |-> t, lo |-> state, start |-> clock,
                          answer |-> Promise!NoAnswer]
    BY <2>3, AskedIs
  <2>5. b = [phase |-> "pending", token |-> t, lo |-> state, start |-> clock,
             answer |-> Promise!NoAnswer]
    <3>1. u \in [phase : {"idle"}, token : {NoToken}, lo : {1}, start : {StartClock},
                 answer : {Promise!NoAnswer}]
      BY DEF Promise!Unasked
    <3> HIDE DEF u
    <3>2. b \in [phase : {"pending"}, token : {t}, lo : {state}, start : {clock},
                 answer : {Promise!NoAnswer}]
      BY <3>1
    <3> HIDE DEF b
    <3> QED
      BY <3>2
  <2>6. Asked(req'[w]) = b
    BY <2>4, <2>5
  <2> HIDE DEF b
  <2>7. [v \in Workers |-> Asked(req'[v])] = [asked EXCEPT ![w] = b]
    BY <2>1, <2>6
  <2> QED
    BY <2>1, <2>2, <2>7 DEF Promise!Ask, b
<1>2. ASSUME NEW w \in Workers, Authorize(w)
      PROVE  Promise!Answer(w) \/ UNCHANGED Promise!vars
  <2> DEFINE r == req[w]
             cf == config[r.st]
  <2>1. /\ UNCHANGED <<clock, state, config>> /\ \A v \in Workers : v # w => req'[v] = req[v]
        /\ r \in Request /\ ReqOK(r, clock, state, config) /\ AnswerOK(r, clock, config)
        /\ clock \in Int /\ r.start \in Int /\ r.signedAt \in Int /\ r.checkedAt \in Int
    BY <1>2, AuthorizeAlone, OthersUntouched, StateFacts, RequestNumbers DEF AnswerInv
  <2>2. /\ req'[w].token = r.token /\ req'[w].lo = r.lo /\ req'[w].start = r.start
        /\ r.pc \notin {"idle", "done"}
        /\ \/ req'[w].pc \notin {"idle", "done"}
           \/ RecordAllowed(w) \/ RecordReason(w) \/ SignFails(w)
    BY <1>2, ArrivalKept
  <2>3. CASE req'[w].pc \notin {"idle", "done"}
    <3>1. Asked(req'[w]) = Asked(r)
      BY <2>2, <2>3, AskedIs
    <3> QED
      BY <2>1, <3>1, NotSeen
  <2>4. ASSUME r.pc \in {"sign", "allow"}
        PROVE  /\ r.token # NoToken /\ r.claims \in Parse(r.token.payload)
               /\ r.rule \in 1..Len(cf.policy)
               /\ Accepts(cf, r.token, r.claims, r.start..clock)
               /\ FirstMatch(cf, r.rule, r.token, r.claims, r.start..clock)
    <3>1. /\ r.token \in Tokens /\ r.claims \in Parse(r.token.payload)
          /\ r.rule \in 1..Len(cf.policy)
          /\ r.checkedAt \in r.start..clock /\ Admissible(cf, r.token, r.checkedAt)
          /\ AudienceAllowed(cf, r.token) /\ RequiredClaimsHeld(cf, r.token, r.claims)
      BY <2>1, <2>4 DEF ReqOK, Vetted, Judged, At
    <3>2. Accepts(cf, r.token, r.claims, r.start..clock)
      BY <3>1 DEF Accepts
    <3>3. FirstMatch(cf, r.rule, r.token, r.claims, r.start..clock)
      <4>1. CASE r.pc = "sign"
        BY <2>1, <4>1 DEF ReqOK, Judged
      <4>2. CASE r.pc = "allow"
        <5>1. /\ r.signedAt <= clock
              /\ FirstMatch(cf, r.rule, r.token, r.claims, r.start..r.signedAt)
          BY <2>1, <4>2 DEF ReqOK, Signed, At
        <5> QED
          BY <2>1, <5>1, LongerPeriod
      <4> QED
        BY <2>4, <4>1, <4>2
    <3> QED
      BY <3>1, <3>2, <3>3, TokenAssumption
  <2>5. CASE RecordAllowed(w)
    <3>1. req'[w] = [r EXCEPT !.pc = "done", !.verdict = "granted", !.hi = state]
          /\ r.pc = "allow"
      BY <1>0, <2>5 DEF RecordAllowed
    <3>2. /\ req'[w].pc = "done" /\ req'[w].verdict = "granted" /\ req'[w].account = r.account
          /\ req'[w].expires = r.expires /\ req'[w].reason = "none"
      BY <2>1, <3>1 DEF Request, AnswerOK
    <3>3. Asked(req'[w]) = [phase |-> "answered", token |-> r.token, lo |-> r.lo,
                start |-> r.start, answer |-> Grant(r.account, r.expires)]
      BY <2>2, <3>2, AskedIs DEF Grant
    <3>4. Grant(r.account, r.expires) \in Grants(cf, r.token, r.start..clock)
      <4>1. /\ r.signedAt \in r.start..clock /\ r.account = cf.policy[r.rule].account
            /\ r.expires = Unix(CappedExpiry(r.token.exp * TPS, cf.policy[r.rule].maxExpiry,
                                             r.signedAt))
        BY <2>1, <3>1 DEF ReqOK, Signed, At
      <4> QED
        BY <2>4, <3>1, <4>1, GrantAmong
    <3>5. Grant(r.account, r.expires) \in Answers(cf, r.token, r.start..clock)
      BY <2>4, <3>1, <3>4 DEF Answers
    <3>6. r.pc \notin {"idle", "done", "load"}
      BY <3>1
    <3> QED
      BY <2>1, <3>3, <3>5, <3>6, SeenAnswer
  <2>6. ASSUME NEW reason \in Reasons, RightReason(reason, cf, r.token, r.start..clock),
               req'[w].pc = "done", req'[w].verdict = "denied", req'[w].account = "",
               req'[w].expires = 0, req'[w].reason = reason, r.pc # "load"
        PROVE  Promise!Answer(w)
    <3>1. Asked(req'[w]) = [phase |-> "answered", token |-> r.token, lo |-> r.lo,
                start |-> r.start, answer |-> Denial(reason)]
      BY <2>2, <2>6, AskedIs DEF Denial
    <3>2. Denial(reason) \in Answers(cf, r.token, r.start..clock)
      BY <2>6 DEF Answers, Reasons
    <3>3. r.pc \notin {"idle", "done", "load"}
      BY <2>2, <2>6
    <3> QED
      BY <2>1, <3>1, <3>2, <3>3, SeenAnswer
  <2>7. CASE RecordReason(w)
    <3>1. req'[w] = [r EXCEPT !.pc = "done", !.verdict = "denied", !.hi = state]
          /\ r.pc = "reason"
      BY <1>0, <2>7 DEF RecordReason
    <3>2. /\ RightReason(r.reason, cf, r.token, r.start..clock)
          /\ r.account = "" /\ r.expires = 0
      BY <2>1, <3>1 DEF AnswerOK
    <3>3. r.reason \in Reasons
      BY <3>2 DEF RightReason, Reasons
    <3>4. /\ req'[w].pc = "done" /\ req'[w].verdict = "denied" /\ req'[w].account = r.account
          /\ req'[w].expires = r.expires /\ req'[w].reason = r.reason
      BY <2>1, <3>1 DEF Request
    <3> QED
      BY <2>6, <3>1, <3>2, <3>3, <3>4
  <2>8. CASE SignFails(w)
    <3>1. req'[w] = [r EXCEPT !.pc = "done", !.verdict = "denied",
                              !.reason = "signing_failed", !.hi = state]
          /\ r.pc = "sign"
      BY <1>0, <2>8 DEF SignFails
    <3>2. r.account = "" /\ r.expires = 0
      BY <2>1, <3>1 DEF AnswerOK
    <3>3. Grants(cf, r.token, r.start..clock) # {}
      <4>1. clock \in r.start..clock
        BY <2>1 DEF ReqOK, Placed
      <4> QED
        BY <2>4, <3>1, <4>1, GrantAmong
    <3>4. RightReason("signing_failed", cf, r.token, r.start..clock)
      BY <2>4, <3>1, <3>3 DEF RightReason
    <3>5. /\ req'[w].pc = "done" /\ req'[w].verdict = "denied" /\ req'[w].account = r.account
          /\ req'[w].expires = r.expires /\ req'[w].reason = "signing_failed"
      BY <2>1, <3>1 DEF Request
    <3> QED
      BY <2>6, <3>1, <3>2, <3>4, <3>5 DEF Reasons
  <2> QED
    BY <2>2, <2>3, <2>5, <2>7, <2>8
<1>3. ASSUME NEW g \in Gens, NEW p \in Providers, KeysArrive(g, p) \/ KeysFail(g, p)
      PROVE  UNCHANGED Promise!vars
  <2>1. UNCHANGED <<clock, state, config>>
    BY <1>3 DEF KeysArrive, KeysFail, cfgVars
  <2>2. ASSUME NEW w \in Workers PROVE Asked(req'[w]) = Asked(req[w])
    <3>1. /\ req'[w].token = req[w].token /\ req'[w].lo = req[w].lo
          /\ req'[w].start = req[w].start
          /\ \/ req'[w] = req[w]
             \/ req[w].pc = "fetch" /\ req'[w].pc \in {"claims", "deny"}
      BY <1>3, FetchKept
    <3>2. CASE req'[w] = req[w]
      BY <3>2
    <3>3. CASE req[w].pc = "fetch" /\ req'[w].pc \in {"claims", "deny"}
      <4>1. req[w].pc \notin {"idle", "done"} /\ req'[w].pc \notin {"idle", "done"}
        BY <3>3
      <4> QED
        BY <3>1, <4>1, AskedIs
    <3> QED
      BY <3>1, <3>2, <3>3
  <2> QED
    BY <2>1, <2>2, NotSeen
<1>4. ASSUME NEW c \in Configs, Reload(c)
      PROVE  Promise!Install(c)
  BY <1>4 DEF Reload, Promise!Install
<1>5. CASE Tick
  BY <1>5 DEF Tick, cfgVars, Promise!Next, Promise!Tick
<1>6. CASE (\E p \in Providers : RotateKeys(p)) \/ UNCHANGED vars
  BY <1>6 DEF RotateKeys, vars, cfgVars, Promise!vars
<1> QED
  BY <1>1, <1>2, <1>3, <1>4, <1>5, <1>6 DEF Next, Quiescent, Promise!Next

(* At first there is no answer.                                            *)
LEMMA AnswerInit == Init => AnswerInv
<1> SUFFICES ASSUME Init, NEW w \in Workers PROVE AnswerOK(req[w], clock, config)
  BY DEF AnswerInv
<1>1. req[w].pc = "idle" /\ req[w].reason = "none" /\ req[w].account = "" /\ req[w].expires = 0
  BY DEF Init, NoRequest
<1> QED
  BY <1>1 DEF AnswerOK

(* At first nothing has been asked.                                        *)
LEMMA PromiseInit == Init => Promise!Init
<1> SUFFICES ASSUME Init PROVE Promise!Init
  OBVIOUS
<1>1. ASSUME NEW w \in Workers PROVE Asked(req[w]) = Promise!Unasked
  <2>1. /\ req[w].pc = "idle" /\ req[w].token = NoToken /\ req[w].lo = 1
        /\ req[w].start = StartClock
    BY DEF Init, NoRequest
  <2> QED
    BY <2>1, AskedIs DEF Promise!Unasked
<1> QED
  BY <1>1 DEF Init, Promise!Init, Gens

(* The authorizer implements the promise of Authorization, for any         *)
(* workers, tokens, configurations and key schedule: whatever overlaps,    *)
(* the answer to a request is one that a single configuration, current     *)
(* while the request was pending, gives it, and a denial names the reason  *)
(* that applies.                                                           *)
THEOREM Refinement == Spec => KeepsPromise
<1>1. Init => AnswerInv
  BY AnswerInit
<1>2. Init => Promise!Init
  BY PromiseInit
<1>3. IndInv /\ AnswerInv /\ [Next]_vars => AnswerInv'
  BY AnswerStep
<1>4. IndInv /\ AnswerInv /\ [Next]_vars => [Promise!Next]_(Promise!vars)
  BY Simulation
<1> QED
  BY <1>1, <1>2, <1>3, <1>4, Invariance, PTL DEF Spec, KeepsPromise, Promise!Spec
=============================================================================
