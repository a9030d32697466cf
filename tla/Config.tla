------------------------------- MODULE Config -------------------------------
(***************************************************************************)
(* The configuration (internal/config): Load and Validate, the settings    *)
(* that cannot be reloaded, and what run asks of a configuration beyond    *)
(* Validate.  A configuration is                                           *)
(*   [nats, seed, xkey, audiences, algs, issuers, httpTimeout, metrics,    *)
(*    policy, policyFile]                                                  *)
(* with nats = [url, cert, key], metrics = [enabled, address, path] and "" *)
(* or 0 for what is unset.  A file is [parses, cfg] or [parses, policy]:   *)
(* can it be read as YAML, and what it says then.                          *)
(***************************************************************************)
EXTENDS Authz, Verifier

CONSTANT Seeds   \* the nkey seeds that are well formed

(* The fields of a configuration.                                          *)
Fields == {"nats", "seed", "xkey", "audiences", "algs", "issuers", "httpTimeout", "metrics",
           "policy", "policyFile"}

DefaultHTTPTimeout == 10
DefaultMetricsAddress == ":9090"

Default(value, unset, default) == IF value = unset THEN default ELSE value

(* Load, after the policy: the defaults of what is unset.                  *)
Defaulted(cfg) ==
    LET m == cfg.metrics
    IN  [cfg EXCEPT
            !.httpTimeout = Default(@, 0, DefaultHTTPTimeout),
            !.metrics = IF ~m.enabled THEN m
                        ELSE [m EXCEPT !.address = Default(m.address, "", DefaultMetricsAddress),
                                       !.path    = Default(m.path, "", "/metrics")]]

(* A policy file replaces whatever policy the config file has.             *)
WithPolicy(cfg, file) == IF cfg.policyFile # "" THEN [cfg EXCEPT !.policy = file.policy] ELSE cfg

(* Config.Validate returns no error.                                       *)
Validate(cfg) ==
    /\ cfg.nats.url # "" /\ cfg.seed # ""
    /\ cfg.audiences # {} /\ cfg.algs # {}
    /\ Len(cfg.issuers) > 0 /\ "" \notin Issuers(cfg)
    /\ PolicyValid(cfg.policy)

(* Load returns no error for a config file that parses as cfg.             *)
LoadOK(cfg, policyFile) ==
    /\ cfg.policyFile # "" => policyFile.parses /\ PolicyValid(policyFile.policy)
    /\ Validate(Defaulted(WithPolicy(cfg, policyFile)))

(* warnUnreloadable: what takes a restart to change, in the groups it      *)
(* warns about, and the groups in which two configurations differ.         *)
Unreloadable(cfg) == [nats |-> cfg.nats, seeds |-> <<cfg.seed, cfg.xkey>>, metrics |-> cfg.metrics]

Changed(old, new) == {group \in DOMAIN old : old[group] # new[group]}

(* nkeys.FromSeed accepts the seeds.                                       *)
SeedsOK(cfg) == cfg.seed \in Seeds /\ cfg.xkey \in Seeds \cup {""}

(* tlsConfig: a client certificate comes with its key.                     *)
TLSConsistent(nats) == nats.cert = "" <=> nats.key = ""
=============================================================================
