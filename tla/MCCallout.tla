----------------------------- MODULE MCCallout ------------------------------
(***************************************************************************)
(* Small instances of Callout.  The two configurations are chosen so that  *)
(* the verifier of one with the policy of the other would grant what       *)
(* neither grants: Old trusts one issuer, whatever the organisation, and   *)
(* grants LEGACY; New trusts two issuers, each with a required claim, and  *)
(* grants ADMIN to roles of the first during an office hour and READER to  *)
(* everybody it trusts.                                                    *)
(***************************************************************************)
EXTENDS Callout

MCAccountIDs == {"111122223333"}

MCCelPrograms == {"office_hour"}

(* now < timestamp: the office hour ends two ticks after the start.        *)
MCCelEval(expr, id, now) == now < StartClock + 2

TwoProviders == {"aws", "github"}
OneProvider == {"aws"}

(* The second epoch of aws withdraws its first key and adds one.           *)
MCPublished == [aws |-> <<{"k1", "k2"}, {"k2", "k3"}>>, github |-> <<{"k2"}>>]

AnySub == [form |-> "none", text |-> <<>>, anchored |-> TRUE, compiles |-> TRUE, spans |-> {}]
Glob(text) == [form |-> "glob", text |-> text, anchored |-> TRUE, compiles |-> TRUE, spans |-> {}]

Rule(issuer, sub, claims, expr, account, maxExpiry) ==
    [issuer |-> issuer, sub |-> sub, claims |-> claims, expr |-> expr, allowBroad |-> TRUE,
     account |-> account, maxExpiry |-> maxExpiry]

Old == [issuers |-> <<[url |-> "aws", requireClaims |-> {}]>>,
        audiences |-> {"nats"}, algs |-> {"RS256"},
        policy |-> <<Rule("", AnySub, {}, "", "LEGACY", 0)>>]

New == [issuers |-> <<[url |-> "aws", requireClaims |-> {<<<<"aws", "org">>, "o1">>}],
                      [url |-> "github", requireClaims |-> {<<<<"repository", "owner">>, "sylr">>}]>>,
        audiences |-> {"nats"}, algs |-> {"RS256"},
        policy |-> <<Rule("aws", Glob(<<"role", "/", "*">>), {}, "office_hour", "ADMIN", 3),
                     Rule("", AnySub, {}, "", "READER", 1)>>]

OldAndNew == {Old, New}
OnlyOld == {Old}

Leaf(path, text) == [path |-> path, kind |-> "string", text |-> text]

AwsToken == [wellFormed |-> TRUE, iss |-> "aws", sub |-> <<"role", "/", "app">>,
             aud |-> {"nats"}, alg |-> "RS256", exp |-> 4, nbf |-> 0, key |-> "k1",
             payload |-> {Leaf(<< <<Namespace>>, <<"org">> >>, "o1")}]

(* Of an organisation New does not admit.                                  *)
ForeignToken == [AwsToken EXCEPT !.key = "k2",
                                 !.payload = {Leaf(<< <<Namespace>>, <<"org">> >>, "o2")}]

(* Two leaves meet in the key repository.owner; it expires early.          *)
GithubToken == [AwsToken EXCEPT !.iss = "github", !.sub = <<"repo">>, !.key = "k2",
                    !.exp = 3,
                    !.payload = {Leaf(<< <<"repository">>, <<"owner">> >>, "sylr"),
                                 Leaf(<< <<"repository", "owner">> >>, "other")}]

ReloadTokens == {AwsToken, ForeignToken, GithubToken}

(* Tokens that fail at one check each, beside one that passes.             *)
ConcurrentTokens ==
    {AwsToken,
     [AwsToken EXCEPT !.wellFormed = FALSE],
     [AwsToken EXCEPT !.alg = "HS256"],
     [AwsToken EXCEPT !.aud = {"other"}],
     [AwsToken EXCEPT !.nbf = 303],
     [AwsToken EXCEPT !.key = "k3"]}
=============================================================================
