----------------------------- MODULE MCService ------------------------------
(***************************************************************************)
(* One worker, and an operator who replaces the policy that grants APP to  *)
(* the client's repository by one that grants it READER, or by one that    *)
(* does not load.                                                          *)
(***************************************************************************)
EXTENDS Service

MCCelEval(expr, id, now) == FALSE

Rule(account, claims) ==
    [issuer |-> "", expr |-> "", allowBroad |-> FALSE, account |-> account, maxExpiry |-> 0,
     sub |-> [form |-> "none", text |-> <<>>, anchored |-> TRUE, compiles |-> TRUE, spans |-> {}],
     claims |-> claims]

Mine   == {<<<<"repository">>, "sylr/app">>}
PolicyOf(account) == <<Rule(account, Mine)>>
Broad  == <<Rule("APP", {})>>

Cfg == [nats |-> [url |-> "n1", cert |-> "", key |-> ""], seed |-> "S1", xkey |-> "",
        audiences |-> {"nats"}, algs |-> {"RS256"},
        issuers |-> <<[url |-> "github", requireClaims |-> {}]>>, httpTimeout |-> 10,
        metrics |-> [enabled |-> FALSE, address |-> "", path |-> ""],
        policy |-> PolicyOf("APP"), policyFile |-> "policy.yaml"]

MCConfigFiles == {[parses |-> TRUE, cfg |-> Cfg]}
MCPolicyFiles == {[parses |-> TRUE, policy |-> p] : p \in {PolicyOf("APP"), PolicyOf("READER"), Broad}}
MCConfigs     == {[Cfg EXCEPT !.policy = p] : p \in {PolicyOf("APP"), PolicyOf("READER")}}
MCPublished   == [github |-> <<{"k1"}, {"k2"}>>]

Token == [wellFormed |-> TRUE, iss |-> "github", sub |-> <<"repo">>, aud |-> {"nats"},
          alg |-> "RS256", exp |-> 4, nbf |-> 0, key |-> "k1",
          payload |-> {[path |-> << <<"repository">> >>, kind |-> "string", text |-> "sylr/app"]}]

MCTokens == {Token}

(* Of all that may happen from outside, at most this much does happen in   *)
(* one behaviour: ticks, rotations, signals, edits and requests together.  *)
Budget == 4

Affordable == clock + (epoch["github"] - 1) + hups + ver.cfg + ver.pol + received <= Budget
=============================================================================
