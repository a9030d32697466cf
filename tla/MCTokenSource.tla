--------------------------- MODULE MCTokenSource ----------------------------
(***************************************************************************)
(* Two processes on one cache file, one of which serves nats.go.           *)
(***************************************************************************)
EXTENDS TokenSource, TLC

CONSTANTS s1, s2, c1, c2

MCAudiences == {"aud-a", "aud-b"}

(* Expiries: those of tokens minted on some tick, and of one minted before *)
(* the start, which comes near its expiry and expires within MaxClock.     *)
Expiries == {minDuration + k * Step : k \in -1..(MaxClock \div Step)}

MCTokens == [aud : {{"aud-a"}, {"aud-b"}}, exp : Expiries]

Cfg(audience, path, before) ==
    [audience |-> audience, signingAlgorithm |-> "", duration |-> minDuration,
     cachePath |-> path, cacheRefreshBefore |-> before]

(* Two processes that want tokens of different audiences are given one     *)
(* cache file; the second has the default margin, too short for these      *)
(* ticks to refresh.                                                       *)
MCHome   == (c1 :> s1) @@ (c2 :> s2)
MCConfig == (s1 :> Cfg("aud-a", DefaultCachePath("aud-a"), 30 * Second))
         @@ (s2 :> Cfg("aud-b", DefaultCachePath("aud-a"), 0))
=============================================================================
