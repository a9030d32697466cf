------------------------------ MODULE Decision ------------------------------
(***************************************************************************)
(* What one configuration, taken alone, decides about one token: what the  *)
(* authorizer (Callout) computes in many steps, and the measure of the     *)
(* promise it keeps (Authorization).                                       *)
(***************************************************************************)
EXTENDS Authz, Verifier

CONSTANT NoToken   \* the empty auth_token

(* cappedExpiry, in ticks, at time now.                                    *)
CappedExpiry(tokenExpiry, maxExpiry, now) ==
    IF maxExpiry > 0 /\ now + maxExpiry < tokenExpiry THEN now + maxExpiry ELSE tokenExpiry

(* A mistake GrantExpiry notices: the JWT outlives the token.              *)
Unix_RoundsUp(ticks) == (ticks + TPS - 1) \div TPS

(* time.Time.Unix: whole seconds.                                          *)
Unix(ticks) == ticks \div TPS

(* cfg accepts the token, with these claims, at some moment of a period.   *)
Accepts(cfg, tok, claims, period) ==
    /\ \E now \in period : Admissible(cfg, tok, now)
    /\ AudienceAllowed(cfg, tok)
    /\ claims \in Parse(tok.payload)
    /\ RequiredClaimsHeld(cfg, tok, claims)

(* At some moment of the period, rule i of cfg does not match.             *)
Misses(cfg, i, tok, claims, period) ==
    \E now \in period : ~RuleMatches(cfg.policy[i], VerifiedIdentity(tok, claims), now)

(* Rule i of cfg is the first to match.  The rules are tried one after the *)
(* other, and a CEL rule reads the clock when it is tried.                 *)
FirstMatch(cfg, i, tok, claims, period) ==
    /\ i \in 1..Len(cfg.policy)
    /\ \E now \in period : RuleMatches(cfg.policy[i], VerifiedIdentity(tok, claims), now)
    /\ \A j \in 1..(i - 1) : Misses(cfg, j, tok, claims, period)

Grant(account, expires) ==
    [verdict |-> "granted", account |-> account, expires |-> expires, reason |-> "none"]

Denial(reason) ==
    [verdict |-> "denied", account |-> "", expires |-> 0, reason |-> reason]

(* The grants cfg may make on a token presented during a period.           *)
Grants(cfg, tok, period) ==
    UNION {{Grant(cfg.policy[i].account,
                  Unix(CappedExpiry(tok.exp * TPS, cfg.policy[i].maxExpiry, now))) :
                now \in period, claims \in {c \in Parse(tok.payload) :
                                    /\ Accepts(cfg, tok, c, period)
                                    /\ FirstMatch(cfg, i, tok, c, period)}} :
            i \in 1..Len(cfg.policy)}

(* Is the reason of a denial the right one?  Only a failure to verify or   *)
(* to sign may deny more than cfg does.                                    *)
RightReason(reason, cfg, tok, period) ==
    \/ reason = "no_token" /\ tok = NoToken
    \/ reason = "verification_failed" /\ tok # NoToken
    \/ /\ reason = "policy_no_match" /\ tok # NoToken
       /\ \E c \in Parse(tok.payload) :
            /\ Accepts(cfg, tok, c, period)
            /\ \A i \in 1..Len(cfg.policy) : Misses(cfg, i, tok, c, period)
    \/ reason = "signing_failed" /\ tok # NoToken /\ Grants(cfg, tok, period) # {}

(* The answers cfg may give to a token presented during a period.          *)
Answers(cfg, tok, period) ==
    (IF tok = NoToken THEN {} ELSE Grants(cfg, tok, period))
    \cup {Denial(reason) : reason \in {r \in {"no_token", "verification_failed",
                                             "policy_no_match", "signing_failed"} :
                                        RightReason(r, cfg, tok, period)}}
=============================================================================
