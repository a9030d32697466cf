------------------------------ MODULE MCDaemon ------------------------------
(***************************************************************************)
(* Small instances of Daemon: config files with either kind of policy that *)
(* differ in what cannot be reloaded, and files that fail to load, to      *)
(* discover or to start in each of the places where one can.               *)
(***************************************************************************)
EXTENDS Daemon

MCCelEval(expr, id, now) == FALSE

Rule(account, claims) ==
    [issuer |-> "", expr |-> "", allowBroad |-> FALSE, account |-> account, maxExpiry |-> 0,
     sub |-> [form |-> "none", text |-> <<>>, anchored |-> TRUE, compiles |-> TRUE, spans |-> {}],
     claims |-> claims]

Narrow == <<Rule("APP", {<<<<"repository">>, "sylr/app">>})>>
Broad  == <<Rule("APP", {})>>

(* The policy in a file; the inline policy is not looked at.               *)
A == [nats |-> [url |-> "n1", cert |-> "", key |-> ""], seed |-> "S1", xkey |-> "",
      audiences |-> {"nats"}, algs |-> {"RS256"},
      issuers |-> <<[url |-> "aws", requireClaims |-> {}]>>, httpTimeout |-> 0,
      metrics |-> [enabled |-> TRUE, address |-> "", path |-> ""],
      policy |-> Broad, policyFile |-> "policy.yaml"]

(* An inline policy, another server and seed; the metrics settings are the *)
(* defaults, spelt out.                                                    *)
B == [A EXCEPT !.nats.url = "n2", !.xkey = "S2", !.policyFile = "", !.policy = Narrow,
               !.metrics = [enabled |-> TRUE, address |-> ":9090", path |-> "/metrics"]]

File(cfg) == [parses |-> TRUE, cfg |-> cfg]

Unparsable == [parses |-> FALSE, cfg |-> A]
Twice      == File([A EXCEPT !.issuers = @ \o @])
HalfTLS    == File([A EXCEPT !.nats.cert = "client.crt"])

MCConfigFiles == {File(A), File(B), Unparsable, Twice, HalfTLS}

MCPolicyFiles == {[parses |-> TRUE, policy |-> Narrow], [parses |-> TRUE, policy |-> Broad]}
=============================================================================
