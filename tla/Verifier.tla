------------------------------ MODULE Verifier ------------------------------
(***************************************************************************)
(* Verification of a token against a configuration                         *)
(* (internal/verifier/verifier.go, and go-oidc as it is used there).       *)
(*                                                                         *)
(* A configuration is [issuers, audiences, algs, policy]; issuers is a     *)
(* sequence of [url, requireClaims].  A token is                           *)
(*   [wellFormed, iss, sub, aud, alg, exp, nbf, key, payload]              *)
(* with exp and nbf in seconds (nbf 0: absent), aud a set, key the key     *)
(* that signed it and payload the leaves of its JSON payload.              *)
(*                                                                         *)
(* Verify reads the clock, the key cache and the network at different      *)
(* times; each operator here is the part done at one of them.              *)
(***************************************************************************)
EXTENDS Identity, Integers

CONSTANT TPS   \* clock ticks per second

ASSUME TPSAssumption == TPS \in Nat \ {0}

Issuers(cfg) == {cfg.issuers[i].url : i \in 1..Len(cfg.issuers)}

(* verifier.New returns no error, discovery apart.                         *)
VerifierValid(cfg) ==
    /\ Len(cfg.issuers) > 0 /\ cfg.audiences # {} /\ cfg.algs # {}
    /\ \A i, j \in 1..Len(cfg.issuers) :
        cfg.issuers[i].url = cfg.issuers[j].url => i = j

(* unverifiedIssuer and the lookup of the issuer's entry.                  *)
IssuerTrusted(cfg, tok) == tok.wellFormed /\ tok.iss \in Issuers(cfg)

(* go-oidc: not expired, not before nbf with five minutes of leeway.       *)
Leeway == 300

TokenTimely(tok, now) ==
    /\ tok.exp * TPS >= now
    /\ tok.nbf = 0 \/ now + Leeway * TPS >= tok.nbf * TPS

(* go-oidc: only the configured algorithms are tried.                      *)
AlgSupported(cfg, tok) == tok.alg \in cfg.algs

(* What go-oidc checks before it looks for a key.                          *)
Admissible(cfg, tok, now) ==
    /\ IssuerTrusted(cfg, tok)
    /\ TokenTimely(tok, now)
    /\ AlgSupported(cfg, tok)

AudienceAllowed(cfg, tok) == tok.aud \cap cfg.audiences # {}

(* Verify's first-class fields come from the verified token, the claim set *)
(* from its payload.                                                       *)
VerifiedIdentity(tok, claims) ==
    [iss |-> tok.iss, sub |-> tok.sub, aud |-> tok.aud, exp |-> tok.exp, claims |-> claims]

(* The claims the issuer is bound to.                                      *)
RequiredClaimsHeld(cfg, tok, claims) ==
    \A i \in 1..Len(cfg.issuers) :
        cfg.issuers[i].url = tok.iss => cfg.issuers[i].requireClaims \subseteq claims
=============================================================================
