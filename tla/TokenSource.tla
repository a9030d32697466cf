----------------------------- MODULE TokenSource ----------------------------
(***************************************************************************)
(* The AWS token source (lib/awsauth): Token with its on-disk cache, the   *)
(* background refresh and LastError.  Each process has one TokenSource,    *)
(* shared by its goroutines; processes share cache files.  A process may   *)
(* end at any point and start again.                                       *)
(*                                                                         *)
(* A caller runs Token, or, if it is one of Handlers, the handler          *)
(* NATSOption gives to nats.go:                                            *)
(*                                                                         *)
(*   idle -> read -> have -> return -> done           (a cached token)     *)
(*   idle -> read -> mint -> write -> rename -> return -> done             *)
(*                                                                         *)
(* and a refresher the goroutine of refreshAsync:                          *)
(*                                                                         *)
(*   idle -> mint -> record -> write -> rename -> clear -> idle            *)
(*                                                                         *)
(* Time is in milliseconds.  A token is [aud, exp], its audiences and its  *)
(* expiry; exp = 0 is what cannot be read as one.                          *)
(***************************************************************************)
EXTENDS Integers, FiniteSets, Recent

CONSTANTS
    Sources,    \* the processes, each with its TokenSource
    Callers,    \* the goroutines that call Token
    Handlers,   \* those of them that do so for nats.go
    Home,       \* Home[c]: the process of caller c
    Config,     \* Config[s]: the Config given to New in process s
    Audiences,  \* the audience values of 1 to maxAudienceLen characters
    Tokens,     \* the tokens STS may issue
    Step,       \* how far the clock moves at a time
    MaxClock    \* bound on the clock

Second == 1000

minDuration == 60 * Second
maxDuration == 3600 * Second
supportedSigningAlgorithms == {"RS256", "ES384"}

(* Config.validate returns no error.                                       *)
Validate(cfg) ==
    /\ cfg.audience \in Audiences
    /\ cfg.signingAlgorithm \in supportedSigningAlgorithms \cup {""}
    /\ cfg.duration # 0 => /\ cfg.duration \in minDuration..maxDuration
                           /\ cfg.duration % Second = 0
    /\ cfg.cacheRefreshBefore >= 0

Default(value, unset, default) == IF value = unset THEN default ELSE value

(* newWithClient: the TokenSource made of a valid Config.                  *)
Made(cfg) ==
    [cfg EXCEPT !.signingAlgorithm   = Default(@, "", "RS256"),
                !.duration           = Default(@, 0, 300 * Second),
                !.cacheRefreshBefore = Default(@, 0, 10 * Second)]

(* Distinct audiences have distinct files (up to a collision of SHA-256).  *)
DefaultCachePath(audience) == <<"awsauth", audience>>

(* mint: the token STS issues at time now, in whole seconds.               *)
Issued(ts, now) ==
    [aud |-> {ts.audience}, exp |-> (now \div Second + ts.duration \div Second) * Second]

Times == {n * Step : n \in 0..MaxClock} \cap 0..MaxClock

ASSUME SourceAssumption ==
    /\ Handlers \subseteq Callers
    /\ \A c \in Callers : Home[c] \in Sources /\ c \notin Sources \X {1, 2}
    /\ \A s \in Sources : DOMAIN Config[s] = {"audience", "signingAlgorithm", "duration",
                                             "cachePath", "cacheRefreshBefore"}
    /\ Step \in Nat \ {0} /\ MaxClock \in Nat

(* Every token has an expiry, and those STS issues are among them.         *)
ASSUME TokenAssumption ==
    /\ \A t \in Tokens : t.exp \in Nat \ {0}
    /\ \A s \in Sources, now \in Times :
        Validate(Config[s]) => Issued(Made(Config[s]), now) \in Tokens

NoPath == <<>>
Paths  == {Config[s].cachePath : s \in Sources} \ {NoPath}
NoTok  == [aud |-> {}, exp |-> 0]

(* Goroutines.  refreshAsync may start one more only when none runs, so    *)
(* the second refresher of a source must never be needed.                  *)
Refreshers == Sources \X {1, 2}
Routines   == Callers \cup Refreshers
Owner(a)   == IF a \in Callers THEN Home[a] ELSE a[1]
Ts(a)      == Made(Config[Owner(a)])

VARIABLES
    clock,       \* time.Now()
    cache,       \* cache[p]: the token in cache file p, NoTok if none is readable
    up,          \* is the process running?
    lastErr,     \* TokenSource.lastErr: "nil" or "error"
    refreshing,  \* TokenSource.refreshing
    run,         \* run[a]: where goroutine a is
    recent       \* the most recent operations LastError speaks of (Recent)

vars == <<clock, cache, up, lastErr, refreshing, run, recent>>

Idle == [pc |-> "idle", since |-> 0, tok |-> NoTok]

(* Earlier processes may have left any token in a cache file.              *)
Init ==
    /\ clock = 0
    /\ cache \in [Paths -> Tokens \cup {NoTok}]
    /\ up = [s \in Sources |-> FALSE]
    /\ lastErr = [s \in Sources |-> "nil"]
    /\ refreshing = [s \in Sources |-> FALSE]
    /\ run = [a \in Routines |-> Idle]
    /\ recent = [s \in Sources |-> NoneRecent("nil")]

Goto(a, pc) == run' = [run EXCEPT ![a].pc = pc]

-----------------------------------------------------------------------------
(* Operations LastError reports on: handler calls and refreshes.           *)
Running(s) == {a \in Handlers \cup Refreshers : Owner(a) = s /\ run[a].pc \notin {"idle", "done"}}

Outcome(tok) == IF tok = NoTok THEN "error" ELSE "nil"

EndOperation(a) ==
    recent' = [recent EXCEPT ![Owner(a)] =
                    Ended(@, a, Outcome(run[a].tok), Running(Owner(a)))]

setLastError(s, tok) == lastErr' = [lastErr EXCEPT ![s] = Outcome(tok)]

-----------------------------------------------------------------------------
(* Token.  A definition named X_Y is X with the mistake Y; it is not part  *)
(* of the specification, and shows that a property notices the mistake.    *)

Call(c) ==
    /\ up[Home[c]] /\ run[c].pc \in {"idle", "done"}
    /\ run' = [run EXCEPT ![c] = [pc |-> IF Ts(c).cachePath = NoPath THEN "mint" ELSE "read",
                                  since |-> clock, tok |-> NoTok]]
    /\ UNCHANGED <<clock, cache, up, lastErr, refreshing, recent>>

(* unverifiedExpiryAudience can read the token and finds an expiry.        *)
Readable(tok) == tok.exp # 0

CacheHit_AnyAudience(ts, tok) == Readable(tok) /\ clock < tok.exp

(* What readCache asks of the token in the file.                           *)
CacheHit(ts, tok) == Readable(tok) /\ clock < tok.exp /\ ts.audience \in tok.aud

ReadCache(c) ==
    LET tok == cache[Ts(c).cachePath]
    IN  /\ run[c].pc = "read"
        /\ run' = [run EXCEPT ![c] = IF CacheHit(Ts(c), tok)
                                     THEN [@ EXCEPT !.pc = "have", !.tok = tok]
                                     ELSE [@ EXCEPT !.pc = "mint"]]
        /\ UNCHANGED <<clock, cache, up, lastErr, refreshing, recent>>

MayRefresh_Unchecked(s) == s \in Sources

(* The test of refreshing in refreshAsync.                                 *)
MayRefresh(s) == ~refreshing[s]

FreeRefresher(s) == IF run[<<s, 1>>].pc = "idle" THEN <<s, 1>> ELSE <<s, 2>>

(* The cached token is returned; near its expiry, refreshAsync.            *)
HandCached(c) ==
    LET s == Home[c]
        refresh == run[c].tok.exp - clock < Ts(c).cacheRefreshBefore /\ MayRefresh(s)
    IN  /\ run[c].pc = "have"
        /\ run' = [a \in Routines |->
                CASE a = c -> [run[c] EXCEPT !.pc = "return"]
                  [] refresh /\ a = FreeRefresher(s) -> [Idle EXCEPT !.pc = "mint"]
                  [] OTHER -> run[a]]
        /\ refreshing' = [refreshing EXCEPT ![s] = @ \/ refresh]
        /\ UNCHANGED <<clock, cache, up, lastErr, recent>>

(* mint: STS issues a token that lives for the duration asked for.         *)
Mint(a) ==
    /\ run[a].pc = "mint"
    /\ run' = [run EXCEPT ![a] = [@ EXCEPT
            !.pc  = IF a \in Refreshers THEN "record"
                    ELSE IF Ts(a).cachePath = NoPath THEN "return" ELSE "write",
            !.tok = Issued(Ts(a), clock)]]
    /\ UNCHANGED <<clock, cache, up, lastErr, refreshing, recent>>

MintFails_Never(a) == a \notin Routines /\ UNCHANGED vars

(* STS answers with an error or an empty token, or the context ends.       *)
MintFails(a) ==
    /\ run[a].pc = "mint"
    /\ Goto(a, IF a \in Refreshers THEN "record" ELSE "return")
    /\ UNCHANGED <<clock, cache, up, lastErr, refreshing, recent>>

Written_AllReturn(a) == Goto(a, "return")

(* writeCache returns, to Token or to the end of the background refresh.   *)
Written(a) == Goto(a, IF a \in Refreshers THEN "clear" ELSE "return")

(* The cache file itself is opened and truncated.                          *)
WriteTemp_InPlace(a) ==
    /\ run[a].pc = "write"
    /\ Goto(a, "rename")
    /\ cache' = [cache EXCEPT ![Ts(a).cachePath] = NoTok]
    /\ UNCHANGED <<clock, up, lastErr, refreshing, recent>>

(* writeCache: everything up to the rename touches a file of its own.      *)
WriteTemp(a) ==
    /\ run[a].pc = "write"
    /\ Goto(a, "rename") \/ Written(a)
    /\ UNCHANGED <<clock, cache, up, lastErr, refreshing, recent>>

Rename(a) ==
    /\ run[a].pc = "rename"
    /\ Written(a)
    /\ \/ cache' = [cache EXCEPT ![Ts(a).cachePath] = run[a].tok]
       \/ UNCHANGED cache
    /\ UNCHANGED <<clock, up, lastErr, refreshing, recent>>

Return_KeepsError(c) ==
    /\ run[c].pc = "return"
    /\ Goto(c, "done")
    /\ IF c \in Handlers
       THEN /\ IF run[c].tok = NoTok THEN setLastError(Home[c], NoTok) ELSE UNCHANGED lastErr
            /\ EndOperation(c)
       ELSE UNCHANGED <<lastErr, recent>>
    /\ UNCHANGED <<clock, cache, up, refreshing>>

(* Token returns; the handler of NATSOption also records the error.        *)
Return(c) ==
    /\ run[c].pc = "return"
    /\ Goto(c, "done")
    /\ IF c \in Handlers THEN setLastError(Home[c], run[c].tok) /\ EndOperation(c)
                         ELSE UNCHANGED <<lastErr, recent>>
    /\ UNCHANGED <<clock, cache, up, refreshing>>

-----------------------------------------------------------------------------
(* The rest of refreshAsync's goroutine, and the processes.                *)

RecordRefresh(r) ==
    /\ run[r].pc = "record"
    /\ setLastError(Owner(r), run[r].tok)
    /\ Goto(r, IF run[r].tok = NoTok THEN "clear" ELSE "write")
    /\ UNCHANGED <<clock, cache, up, refreshing, recent>>

ClearRefreshing(r) ==
    /\ run[r].pc = "clear"
    /\ refreshing' = [refreshing EXCEPT ![Owner(r)] = FALSE]
    /\ run' = [run EXCEPT ![r] = Idle]
    /\ EndOperation(r)
    /\ UNCHANGED <<clock, cache, up, lastErr>>

(* New succeeds.                                                           *)
Start(s) ==
    /\ ~up[s] /\ Validate(Config[s])
    /\ up' = [up EXCEPT ![s] = TRUE]
    /\ lastErr' = [lastErr EXCEPT ![s] = "nil"]
    /\ refreshing' = [refreshing EXCEPT ![s] = FALSE]
    /\ recent' = [recent EXCEPT ![s] = NoneRecent("nil")]
    /\ UNCHANGED <<clock, cache, run>>

Exit(s) ==
    /\ up[s]
    /\ up' = [up EXCEPT ![s] = FALSE]
    /\ run' = [a \in Routines |-> IF Owner(a) = s THEN Idle ELSE run[a]]
    /\ UNCHANGED <<clock, cache, lastErr, refreshing, recent>>

Tick ==
    /\ clock + Step <= MaxClock
    /\ clock' = clock + Step
    /\ UNCHANGED <<cache, up, lastErr, refreshing, run, recent>>

(* What a goroutine does by itself, without an answer from STS.            *)
Proceed(a) ==
    \/ MintFails(a) \/ WriteTemp(a) \/ Rename(a)
    \/ a \in Callers /\ (ReadCache(a) \/ HandCached(a) \/ Return(a))
    \/ a \in Refreshers /\ (RecordRefresh(a) \/ ClearRefreshing(a))

Next ==
    \/ \E c \in Callers : Call(c)
    \/ \E a \in Routines : Mint(a) \/ Proceed(a)
    \/ \E s \in Sources : Start(s) \/ Exit(s)
    \/ Tick

(* Goroutines run while their process does.  STS need not answer: a fetch  *)
(* made for nats.go or in the background has a context with a timeout, any *)
(* other is bounded by the caller's context, of which nothing is known.    *)
Fairness == \A a \in Handlers \cup Refreshers : WF_vars(Proceed(a))

Spec == Init /\ [][Next]_vars /\ Fairness

-----------------------------------------------------------------------------
(* Properties.                                                             *)

(* Every variable has its type; in particular each goroutine is at a step  *)
(* of its own code and only complete tokens are in the cache files.        *)
TypeOK ==
    /\ clock \in 0..MaxClock
    /\ cache \in [Paths -> Tokens \cup {NoTok}]
    /\ up \in [Sources -> BOOLEAN] /\ refreshing \in [Sources -> BOOLEAN]
    /\ lastErr \in [Sources -> {"nil", "error"}]
    /\ \A a \in Routines :
        /\ run[a].pc \in {"idle", "mint", "write", "rename"}
                \cup (IF a \in Callers THEN {"read", "have", "return", "done"}
                                       ELSE {"record", "clear"})
        /\ run[a].since \in 0..MaxClock /\ run[a].tok \in Tokens \cup {NoTok}

(* At most one background refresh runs per TokenSource, and refreshing is  *)
(* set exactly while it does: no call is left without a refresh because of *)
(* a flag nobody will clear (refreshAsync).                                *)
OneRefresh ==
    \A s \in Sources : up[s] =>
        Cardinality({i \in {1, 2} : run[<<s, i>>].pc # "idle"})
            = (IF refreshing[s] THEN 1 ELSE 0)

(* LastError is the outcome of a handler call or background refresh after  *)
(* whose end no other one began and ended, however they overlap, or of the *)
(* background refresh now running, which records it before it writes.      *)
LastErrorRecent ==
    \A s \in Sources : up[s] =>
        \/ lastErr[s] \in Results(recent[s])
        \/ \E i \in {1, 2} : /\ run[<<s, i>>].pc \in {"write", "rename", "clear"}
                            /\ lastErr[s] = Outcome(run[<<s, i>>].tok)

(* A cache file that holds a token never stops holding one, whichever      *)
(* processes write to it and wherever they end (the rename of writeCache). *)
CacheNeverTorn == [][\A p \in Paths : cache[p] # NoTok => cache'[p] # NoTok]_vars

(* A handler call returns, though STS may never answer and the disk may    *)
(* refuse, unless the process ends.                                        *)
HandlerReturns ==
    \A c \in Handlers : run[c].pc \in {"read", "mint"} ~> run[c].pc \in {"done", "idle"}

Asked(r) ==
    [phase |-> CASE r.pc = "idle" -> "idle" [] r.pc = "done" -> "answered" [] OTHER -> "asked",
     since |-> r.since,
     tok   |-> IF r.pc = "done" THEN r.tok ELSE NoTok]

Supply == INSTANCE TokenSupply WITH
            Audience <- [c \in Callers |-> Ts(c).audience],
            call <- [c \in Callers |-> Asked(run[c])]

(* The token source implements the promise: whatever other processes and   *)
(* the refresh do to the cache, a token returned has the caller's audience *)
(* and was not expired when the caller asked.                              *)
KeepsSupply == Supply!Spec
=============================================================================
