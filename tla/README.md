# A TLA+ model of nats-oidc-callout

nats-oidc-callout answers the authorization requests of a NATS server: a client
presents an OIDC token (AWS, GitHub, Kubernetes...), the service verifies it,
matches it against a policy and answers with a signed NATS user JWT, or denies.
This directory holds TLA+ modules of that program, the configurations that
model-check them with TLC, and theorems whose proofs TLAPS checks.

Run a model with `tlc -config <file>.cfg <module>` and the proofs of a module with
`tlapm <module>Proofs.tla`. `PROJECT.json` lists the runs, the source lines behind
every definition, the hazards and the findings.

## 1. Inventory

| component | state | operations | interacts with |
|---|---|---|---|
| authorizer, `internal/callout` | the pointer `state` to the ruleset in use (verifier, policy) | `New`, `Reload`, `Authorize` | called by callout.go for each request; calls verifier, policy, metrics; `Reload` by watchReloads |
| verifier, `internal/verifier` | per issuer: go-oidc verifier with key cache, required claims; audiences | `New`, `Verify` | HTTP discovery and key fetches at the identity providers |
| identity, `internal/identity` | none | `Parse`, `flatten` | called by `Verify` |
| policy, `internal/authz` | rules with compiled sub patterns and CEL programs | `Validate`, `Evaluate` | loaded by config; called by `Authorize` |
| configuration, `internal/config` | none; reads two files | `Load`, `Validate` | called at startup and by watchReloads |
| process, `cmd/nats-oidc-callout` | context, signal channel of capacity one, `current` config | `run`, `watchReloads`, `warnUnreloadable` | operator (files, SIGHUP, SIGTERM), NATS, providers |
| metrics counters, `internal/metrics` | two counter vectors, one histogram | `RecordAllowed`, `RecordDenied` | incremented by concurrent requests, read by scrapes |
| metrics endpoint, `internal/metrics/server.go` | an HTTP server, its accepting goroutine, an error channel of capacity one | `Serve`, scrapes, `Shutdown` | started by `run`, which does not wait for it |
| awsauth, `lib/awsauth` | cache file, `refreshing`, `lastErr` | `Token`, `refreshAsync`, `LastError`, NATS options | STS; other processes on the same file; NATS reconnects |
| k8sauth, `lib/k8sauth` | `lastErr` | `New`, `Token`, `NATSOption`, `LastError` | kubelet, which fills and replaces the token file |
| client session (nats.go, server) | the connection, the failures in a row | connect, present a token, disconnect | a token source's handler on every (re)connect; the callout |

`internal/mockoidc`, `test/`, `examples/` and `contribs/` are test helpers, samples
and packaging.

What is hard here, and what correctness means, per component:

- *authorizer*: a reload, a key rotation and the clock may move between any two
  lines of `Authorize`. Each answer must be the decision of one configuration that
  was current while the request was pending; the JWT must never outlive the token
  or the rule's cap, however long verification took; each request must be answered.
- *verifier*: keys are cached. A reload must forget them; several requests share
  one fetch; a provider may not answer.
- *identity*: map iteration order decides between two leaves that flatten to the
  same dotted key.
- *policy*: rules are tried in order, each CEL rule at its own reading of the clock;
  the guardrail must keep rules without a strong pin out unless they are marked.
  A rule that was not compiled constrains nothing, and `Validate` compiles rule by
  rule: one that stopped in the middle must never grant.
- *configuration and process*: two files are read one after the other while they are
  edited; the channel drops signals; a reload may fail at any step; settings that
  cannot be reloaded drift from the ones in use; signals may come during startup.
- *metrics*: two counters are incremented one after the other; the endpoint is shut
  down while scrapes are in flight and while accepting may fail.
- *awsauth*: callers, a background refresh and other processes share a cache file and
  any of the processes may end at any point. The file must stay whole, one refresh
  must run at a time, and `LastError` must not report what has been superseded.
- *k8sauth*: the file is replaced under the readers; each call must see a rotation.
- *client session*: nats.go gives up after two authentication failures in a row, so an
  expired token must not be presented twice.

`PROJECT.json` lists these as hazards, each at its line.

## 2. Modules

| module | models | kind |
|---|---|---|
| `Identity` | `Parse`, `flatten` | operators; `Parse(payload)` is the *set* of claim sets the iteration orders can give |
| `Authz` | `Validate`, `matches`, `compileSub`, `hasStrongPin` | operators; glob matching is a recursive function |
| `Verifier` | the checks of `verifier.New` and `Verify`, grouped by the moment at which each reads clock, cache or network | operators |
| `Decision` | `cappedExpiry`, `Unix`; what one configuration decides about one token (`Answers`) | operators |
| `Authorization` | what the service promises, for any `Answers` a configuration may give | abstract specification |
| `Callout` | `Authorize` line by line, `Reload`, key fetches, key rotation, time | state machine; implements `Authorization` |
| `Config` | `Load`'s defaults and checks, `Validate`, `warnUnreloadable`'s groups, what `run` asks beyond `Validate` | operators |
| `Daemon` | `run`, `watchReloads`, `config.Load`, signals, an operator's edits | state machine |
| `Service` | `Daemon` and `Callout` together | composition; implements `Authorization` |
| `Policy` | `Validate` rule by rule, `compileSub`, `Evaluate` on what was compiled | state machine, compared with `Authz` |
| `MetricsServer` | `metrics.Serve` and the end of `run` | state machine |
| `TokenSupply` | what a token source promises | abstract specification |
| `Recent` | which operation is the most recent when operations overlap | operators |
| `TokenSource` | awsauth: `Token`, cache, `refreshAsync`, `NATSOption`, `LastError`, several processes | state machine; implements `TokenSupply` |
| `FileSource` | k8sauth: the same without a cache, with the kubelet | state machine; implements `TokenSupply` |
| `Session` | long-lived client connections that draw on `TokenSupply` | state machine, composed with `TokenSupply` |
| `Client` | connections whose handlers are those of k8sauth | composition of `FileSource` and `Session` |
| `MCCallout`, `MCDaemon`, `MCService`, `MCPolicy`, `MCTokenSource`, `MCClient` | constants of the instances | |
| `CalloutProofs`, `DaemonProofs`, `ServiceProofs`, `PolicyProofs`, `TokenSourceProofs`, `FileSourceProofs`, `SessionProofs`, `MetricsServerProofs` | theorems about the module each is named after (`FileSourceProofs`: and about `Client`) | proofs |

A definition named `X_Y` is the definition `X` with the plausible mistake `Y`.
It is used by no specification. Put in the place of `X` it makes a property fail,
which shows that the property sees the line of code `X` stands for.

### Callout

`req[w]` is the request goroutine `w` works on. Its `pc` follows the code:

| pc | code | action |
|---|---|---|
| idle, done | before and after `Authorize` | `Receive` (takes `start`) |
| load | `a.state.Load()`, empty token | `LoadState` |
| verify | issuer lookup; go-oidc: expiry, nbf, algorithm, cached keys | `RejectToken`, `UseCachedKeys`, `AwaitKeys` |
| fetch | waiting for keys | `KeysArrive`, `KeysFail`, `VerifyTimeout` |
| claims | audience, `identity.Parse`, required claims | `CheckClaims` |
| evaluate | one round of `Evaluate`'s loop | `EvaluateRule` |
| sign | `cappedExpiry`, `Encode` | `Sign`, `SignFails` |
| allow | `RecordAllowed` | `RecordAllowed` |
| deny, reason | the two increments of `RecordDenied` | `RecordDenied`, `RecordReason` |

Rulesets are numbered in the order of installation; `state` is the number of the
one the pointer refers to. A request keeps the number it loaded (`st`), as the code
keeps the pointer; its other fields `lo`, `hi`, `start`, `checkedAt`, `signedAt`
and `keyEpoch` are history, used by the properties. `born` is history as well.

`keys[g][p]` and `fetch[g][p]` are go-oidc's cache and in-flight fetch for issuer
`p` in the verifier of ruleset `g`, modelled from how the verifier uses go-oidc:
a fetch is shared by all that wait for it, is not cancelled when one of them times
out, and yields the keys of an epoch it overlapped. A provider's epoch changes with
`RotateKeys`.

Abstractions: a token's text is its header, payload and signing key; what a regular
expression spans and what a CEL program computes are parameters; the JWT is its
account and expiry (permissions, name and nkey are copied); metrics are enabled; the
timeout may fire at any moment of a fetch, because the model's clock is not tied to
its length. Whether callout.go runs requests one at a time or concurrently is its
own affair: a run with one worker covers the former, a run with two the latter, and
the theorems any number.

### Config and Daemon

A configuration is a record of the fields that some check or some later step looks at
(`nats`, the seeds, audiences, algorithms, issuers, timeout, `metrics`, the policy and
the name of a policy file), with `""` or `0` for what is unset; a file is `[parses, cfg]`:
whether it is YAML, and what it says then. `LoadOK` and `Defaulted` are `Load`,
`Validate` is `Config.Validate`.

`main` is the line `run` has reached, `watcher` that of `watchReloads`. Edits are
counted, so that what was read can be compared with what was on disk. `asked`,
`owed`, `result` and `everWarned` are history; `warned` is the set of the groups
(nats, seeds, metrics) the last reload warned about. The Go runtime's delivery of
signals is modelled from `os/signal`: before `Notify`, and after the deferred `Stop`,
SIGHUP has its default action; afterwards it is sent to the channel or, if that is
full, dropped. `Load` reads the two files in two steps, with edits possible in between.
Each other step of startup or reload is one action. It is `Doomed` when the
configuration alone makes it fail (malformed seeds, a duplicate issuer, a client
certificate without its key) and `Fallible` when a file, the network or an address in
use may.

### Service

`Service` instantiates `Daemon` beside `Callout` (through `DaemonProofs`, which extends it,
so that the theorems about the process hold of this instance) and joins them where the
code does:
`authzcallout.New` is given what `run` loaded (`StartAuthorizer`) and `a.Reload` what
`watchReloads` loaded (`InstallRuleset`), so that the rulesets requests are decided by
are the files some load has read. Requests are handled while `run` serves; time passes and
providers rotate their keys whether it does or not (`Meanwhile`). `made`, `promised`,
`hupEpoch` and `trusted` are history: the versions of the files behind each ruleset, the
versions a request may count on because a reload had been reported as done when it arrived,
and the same of the providers' key epochs, counted from the last SIGHUP.

`Whole` maps the service to `Authorization`: before the authorizer is started no
configuration is installed (its `state` is 0), and what may be installed is what the files
can give and `Load`, `Validate` and `verifier.New` accept (`Loadable`).

### TokenSupply, TokenSource, FileSource, Session, Client

`TokenSupply` says what a caller may rely on: the answer is no token, or one with the
caller's audience that had not expired when the caller asked.

In `TokenSource`, `run[a]` is where goroutine `a` is: a caller of `Token` (a handler of
`NATSOption` if it is in `Handlers`) or a background refresh. Every read of the cache
file, answer of STS, write of the temporary file and rename is a step, and a process may
end between any two (`Exit`) and start again. Each source has two slots for refreshes;
the code must never need the second, which `OneRefresh` checks. `Init` leaves any token,
or none, in each cache file, as an earlier process may have. The clock is in
milliseconds because `mint` and the checks mix whole seconds and finer times.
STS's clock is the process's.

`FileSource` is the same for k8sauth: the kubelet fills the file at some time after the
pod's start and replaces it before the token in it expires, which is what Kubernetes
documents and `Token`, which does not look at the expiry, relies on. A read may fail at any
time, also of a file that was there before.

`Recent` gives `LastError` a meaning when operations overlap: it may be the outcome of
any operation after whose end no other one began and ended.

`Session` composes the promise, not either source, with a connection modelled from how
nats.go, the server and the callout treat it: a handler call on each (re)connect, a user
JWT that expires no later than the token, two authentication failures in a row and
nats.go gives up. All of it but the handler is outside this repository, so it is checked
only as the surroundings of the code: `Client` puts the handlers of `FileSource` where
`Session` has the promise. nats.go dials, which calls the handler (`Dial`); the handler
reads and records its error (`Handle`); what it returned is presented and judged
(`Connect`). The clocks of client and callout agree.

### Policy

The model of the authorizer uses what a rule *means* (`Authz`). `Policy` computes it as the
code does: it compiles rule by rule, splits a glob at its stars and looks for the segments
in order, may stop anywhere, may be validated again, and evaluates what was compiled,
where nil constrains nothing. The identities it evaluates carry the payload their claims
were flattened from. A subject is a sequence of parts, some of which may be line breaks: the
`.*` a star is compiled into has no `(?s)` and does not cross one, so what a star means
(`GlobSpans`) is any parts of one line. What a regular expression spans and what a CEL program
computes are parameters.

### MetricsServer

`Serve` at its `select`, the goroutine that accepts and its buffered error channel, the
scrapes, `Shutdown` with its timeout, and `run`, which returns as soon as the context is
done; with it every goroutine ends. `http.Server` is modelled from its use.

## 3. Runs

| run | instance | checks | result |
|---|---|---|---|
| `callout_reload` | 1 worker, 2 requests, 2 configurations, 1 reload, 2 providers, 1 rotation, 3 ticks of half a second, 3 tokens and the empty one | `TypeOK`, `GrantFromOneConfig`, `GrantExpiry`, `ReloadForgetsKeys`, `KeepsPromise` | holds |
| `callout_concurrent` | 2 workers, 3 requests, 1 configuration, 6 tokens that fail at different checks | `DenialsAddUp`, `EveryRequestAnswered` | holds |
| `callout_uncounted` | as `callout_reload` | `EveryAnswerCounted` | violated |
| `daemon_reload` | 5 config files (1 unparsable, 1 with an issuer twice, 1 with half a TLS pair), 2 policy files (1 too broad), 2 edits of each, 2 SIGHUPs, 1 SIGTERM | `TypeOK`, `ServesOnlyValid`, `ReloadCatchesUp`, `DriftWasWarned`, `HupIsServed`, `TermStops` | holds |
| `daemon_early_hup` | same | `HupNeverKills` | violated |
| `daemon_warning` | same | `WarningMeansDrift` | violated |
| `service` | 1 worker, 2 requests, 3 policy files, 1 edit, 2 SIGHUPs, 1 rotation, 1 tick; at most 4 of these events in one behaviour | `RevocationTakesEffect`, `GrantedByValid`, `WithdrawnKeysRefused`, `ServiceKeepsPromise` | holds |
| `policy` | the policies of up to 2 of 19 rules, subjects of up to 4 parts (up to 3 where one may be a line break), 3 payloads: one with an AWS namespace, one with a namespace that holds no object, one with a top-level `aws` object | `GrantsByMeaning`, `DeniesByMeaning`, `ValidatedIsCompiled`, `NamespacesApart` | holds |
| `policy_aws` | same | `AWSClaimsApart` | violated |
| `tokensource` | 2 processes with different audiences on one cache file, a handler in one and a direct caller in the other, tokens of 60 s, 3 instants 20 s apart | `TypeOK`, `OneRefresh`, `LastErrorRecent`, `CacheNeverTorn`, `KeepsSupply`, `HandlerReturns` | holds |
| `client` | 2 connections, or 1 direct caller; tokens of 2 ticks, 3 ticks | `LastErrorRecent`, `PicksUpRotation`, `KeepsSupply`, `NeverResent` | holds |
| `metrics_shutdown` | 3 scrapers | `SuccessIsGraceful`, `ServeReturns`, `AcceptorEnds` | holds |

What they show:

- `GrantFromOneConfig`: a token is never verified under one configuration and
  authorized under another. The two configurations are chosen so that the verifier
  of one with the policy of the other grants what neither does.
- `GrantExpiry`: the JWT expires at the last whole second within the token's expiry
  and the cap counted from the signing.
- `ReloadForgetsKeys`: a request that arrives after a reload is not granted with a
  key the provider had withdrawn before that reload.
- `KeepsPromise`: `Callout` implements `Authorization`, denials and their reasons
  included. The mapping hides everything between arrival and answer. `Authorization` does
  not speak of keys: that a grant rests on a key still published is `ReloadForgetsKeys` and
  `WithdrawnKeysRefused`. Where map iteration decides between two leaves it accepts either.
- `DenialsAddUp`: the two denial counters differ by the requests between the two
  increments, never by more.
- `EveryRequestAnswered`: every request is answered, though a provider may never be.
- `ServesOnlyValid`, `ReloadCatchesUp`, `HupIsServed`: a failed reload leaves a valid
  ruleset; dropping signals loses no reload: when watchReloads is idle, its last load
  began after the last signal.
- `DriftWasWarned`: the installed file asks for other unreloadable settings than those
  in use only if a warning was logged for each group that differs.
- `TermStops`: a caught SIGTERM ends the process from any step.
- `RevocationTakesEffect`: once `watchReloads` has said that the config is reloaded, a
  request that arrives is not granted by files older than at the last SIGHUP.
  `GrantedByValid`: only a configuration that loads and passes what `verifier.New` checks
  of it grants; that discovery of it succeeded is not observed.
- `WithdrawnKeysRefused`: likewise for keys. An operator who sends SIGHUP because a provider
  withdrew a key can count on it: no request that arrives after the reload was reported is
  granted with that key, though replaced rulesets still hold it or are fetching it.
- `ServiceKeepsPromise`: the whole service implements `Authorization`. Every answer, denials
  included, is that of one configuration which the files gave, which loads, and which was in
  use while the request was pending.
- `GrantsByMeaning`, `DeniesByMeaning`, `ValidatedIsCompiled`: the compiled rules find
  the first rule that matches by its meaning; a `Validate` that failed half-way, or ran
  twice, changes nothing about that.
- `NamespacesApart`: a rule on a plain claim is satisfied by a top-level claim only, never
  by the one AWS nests under its namespace, nor by a copy of a registered claim. The claim
  `aws` alone has two sources: a namespace that holds no object is written under it. A
  rule on an `aws.` claim is satisfied by the namespace, if no other top-level claim is
  named `aws` or begins with `aws.`; without that condition this fails (`policy_aws`).
- `OneRefresh`: one refresh per source, and the flag is set exactly while it runs.
  `LastErrorRecent`: no late refresh or handler leaves a superseded error behind.
- `CacheNeverTorn`: a cache file that holds a token always does, wherever its writers end.
- `KeepsSupply`: both sources implement `TokenSupply`, whoever replaces the file.
- `HandlerReturns`: the handler returns, though STS may never answer.
- `PicksUpRotation`: a call never returns a token older than the one in the file when
  it began.
- `NeverResent`: a token that was refused because it had expired between hand-out and check
  is never presented again on that connection.
- `ServeReturns`, `AcceptorEnds`, `SuccessIsGraceful`: `Serve` returns, leaves no
  goroutine behind, and reports success only if all scrapes were answered.

Bounds. Two rulesets are enough for a mix of two, since a request holds one pointer;
one rotation is enough for a stale key; a tick is half a second, so that truncation
to seconds matters, and the ticks reach past the expiry of one token, the
office-hour rule and both caps. Two requests in a row let the second one meet the
cache the first one filled. Three requests on two workers let one overlap two
others. Two SIGHUPs and two edits of each file give a signal during a reload, a
signal dropped, a mixed pair of files and a change that is taken back. The
service combines the two state spaces, so what happens to it from outside (ticks,
rotations, signals, edits, requests) is cut at four events per behaviour by the
constraint `Affordable`. Four are enough for an edit, a signal, a second signal while the
first one's reload is under way, and a request; and for a request that fills the key
cache, a rotation, a signal, and a request that must not use that cache. In `TokenSource` a leftover
token comes within the refresh margin at 20 s and expires at 40 s, so a cached token is
met fresh, near its expiry and expired, and a refresh may overlap all three. A refresh
outlives the call that started it, so one handler that calls again and again is enough for
it to meet later calls, and two processes are the least that interfere on a file. In
`Client` a token lives two ticks and the clock runs for three, so a token must be replaced,
and one read just before that can expire before it is judged and be asked for again. The
constraint `Apart` of `MCClient` explores direct calls and connections apart, since a direct
call touches nothing a handler does; the theorems are without it. The policies contain a
rule for every check of `Validate`, and a star in every place of a pattern. The two handlers
of `client`, which checks no liveness, can be exchanged and are declared symmetric.
Apart from `Budget` in `MCService`, each bound is a constant, and only the guards of `Receive`, `Reload`, `EditConfig`,
`EditPolicy`, `SigHup`, `Pass` and the `Tick`s mention it.

Fairness. In `Callout`, `WF(Authorize(w))`: a goroutine that can run does, and the
deadline of `context.WithTimeout` passes. Nothing is assumed of the providers: no
fetch need ever end. In `Daemon`, weak fairness of each of the two goroutines:
discovery and dialing have timeouts, file reads are local, and a `select` that can
proceed does. No fairness is assumed of signals, edits, reloads or of the branch a
`select` takes, and none of success rather than failure. In `TokenSource`,
`WF(Proceed(a))` for handlers and refreshes: file operations end, and a request to STS
made by either has a context with a timeout; STS itself need not answer, and nothing is
assumed of a direct caller, whose context is its own. In `MetricsServer`, the goroutines run; a scraper need not read its answer and
`run` need not exit soon.

Deadlock is checked in all runs but one. `Quiescent` in `Callout` and `Stopped` in
`Daemon` are the only states in which nothing is left to do there. `metrics_shutdown`
really may stop: the process has exited.

## 4. Findings

1. *A failed signing is not counted* (`callout_uncounted`). When `Encode` fails,
   `Authorize` returns without `RecordDenied`; `ReasonSigningFailed` is never used,
   though the README lists it, and the request is in no total.
2. *An early SIGHUP ends the process* (`daemon_early_hup`). `signal.Notify` is called
   by the goroutine, not before it is started, so "started" may be logged while
   SIGHUP still has its default action.
3. *A warning for settings that are in use* (`daemon_warning`). `warnUnreloadable`
   compares with the last config loaded, not with the one in use: taking a change
   back warns that a restart is required.
4. *A top-level `aws` claim stands for the namespace* (`policy_aws`). The README says that
   AWS claims are prefixed so that they cannot collide with a top-level claim from another
   issuer, but `Parse` writes both into one map of dotted keys: a top-level `aws` object
   with a leaf `aws_account` flattens to `aws.aws_account` as well, and a rule on it that
   names no issuer does not tell the two apart. `match.issuer` and `require_claims` do.

Observations that are plain from the code and have no run of their own:

- `Validate` is said to check that the configuration is "complete enough to start the
  service" (`internal/config/config.go:144`), but a client certificate without its key and
  malformed seeds are only refused by `run` (`Doomed` in `Daemon`). A reload accepts them,
  and the next restart fails.
- The comment on `NATSOption` (`lib/awsauth/awsauth.go:360`) says that a fresh token is
  minted on every (re)connect; with a cache it may be one minted long before.
- `metrics.Serve` is said to shut down gracefully (`internal/metrics/server.go:15`), but
  `run` returns without waiting for the goroutine that calls `Shutdown` (`MainExits` in
  `MetricsServer`), so a scrape in flight ends with the process.

## 5. Proofs

Every safety property the passing runs check is also a theorem, for every value of the
constants: any number of goroutines, processes,
connections and requests, any contents of the files and any bounds. Each module of
proofs states an inductive invariant (`IndInv`), proves that the initial states satisfy
it (`InitInv`) and that every step keeps it (`StepInv`, from one lemma per action or per
conjunct), and derives the theorems from it. TLC checked each invariant on the instance
of a run before it was proved.

| module | theorem | states |
|---|---|---|
| `CalloutProofs` | `TypeCorrect`, `GrantsFromOneConfig`, `GrantsExpire` | `[]TypeOK`, `[]GrantFromOneConfig`, `[]GrantExpiry` |
| | `KeysForgotten`, `DenialsAgree` | `[]ReloadForgetsKeys`, `[]DenialsAddUp` |
| | `Refinement` | `KeepsPromise`: `Callout` implements `Authorization` |
| `DaemonProofs` | `TypeCorrect`, `OnlyValidServed`, `ReloadsCatchUp`, `DriftWarned` | `[]TypeOK`, `[]ServesOnlyValid`, `[]ReloadCatchesUp`, `[]DriftWasWarned` |
| `ServiceProofs` | `RevocationsTakeEffect`, `GrantsByValid`, `WithdrawnKeysAreRefused` | `[]RevocationTakesEffect`, `[]GrantedByValid`, `[]WithdrawnKeysRefused` |
| | `ServiceRefinement` | `ServiceKeepsPromise`: `Service` implements `Authorization` |
| | `AuthorizerUnimpaired` | `[](GrantFromOneConfig /\ GrantExpiry /\ ReloadForgetsKeys /\ DenialsAddUp)` of the whole service |
| `PolicyProofs` | `ValidatedCompiled`, `ClaimsApart` | `[]ValidatedIsCompiled`, `[]NamespacesApart` |
| | `GlobsAgree` | compiled globs match what globs mean, for all patterns and subjects |
| | `GrantsMeant`, `DenialsMeant` | `[]GrantsByMeaning`, `DeniesByMeaning` |
| `TokenSourceProofs` | `TypeCorrect`, `RefreshAlone`, `LastErrorIsRecent`, `NeverTorn` | `[]TypeOK`, `[]OneRefresh`, `[]LastErrorRecent`, `CacheNeverTorn` |
| | `Refinement` | `KeepsSupply`: `TokenSource` implements `TokenSupply` |
| `FileSourceProofs` | `RotationPickedUp`, `LastErrorIsRecent` | `[]PicksUpRotation`, `[]LastErrorRecent` |
| | `Refinement` | `KeepsSupply`: `FileSource` implements `TokenSupply` |
| | `ClientIsSource`, `RefusedNotResent` | `ClientSpec => Spec`, so the above hold of `Client`; `ClientSpec => NeverResent` |
| `SessionProofs` | `NotPresentedAgain` | `NeverResent`, of any source that keeps `TokenSupply` |
| `MetricsServerProofs` | `GracefulSuccess` | `[]SuccessIsGraceful` |

### Assumptions

They are named in the module that declares the constants, and TLC evaluates them on
every instance.

- `TPSAssumption`: a second has at least one tick.
- `ConfigAssumption`: what may be installed has passed `verifier.New` and `Validate`,
  its policy is a sequence with numeric caps, and it names known providers.
- `TokenAssumption` (`Callout`): expiries are numbers and the empty token is no token.
  `PublishedAssumption`: each provider publishes some key set. `BoundAssumption`: the
  bounds are numbers.
- `DaemonAssumption`: a file parses or does not, and a configuration has the fields of
  the struct `Config`. `ServiceAssumption`: the same, and what loads and is discovered is
  one of the configurations the authorizer knows.
- `PolicyAssumption`: a policy is a sequence, and a pattern has one of its three forms and
  a text that is a sequence of parts. `IdentityAssumption`: so is a subject; the claims of an
  identity are some that `Parse` gives for its payload, which is a JSON object: finitely many
  leaves, each below at least one key.
- `SourceAssumption`, `TokenAssumption` (`TokenSource`): handlers are callers, each caller
  has a source, a config has its fields, tokens have an expiry, and what STS can issue is
  a token. `FileAssumption`: handlers are callers, and a token lives at least two ticks.
- `Session` has no assumption; `NotPresentedAgain` has the hypothesis `Numbers` (the clock's
  step and the expiries are numbers), which `FileAssumption` implies for `Client`.

### The arguments

*Callout.* `TypeOK` is not inductive: that the claims and the account of a request are in
their sets depends on its token being one of `Tokens` and on its rule being one of the
policy's, which only earlier steps of the same request ensure. Nor is
`GrantFromOneConfig`, which speaks of finished requests only. `IndInv` adds what
`Authorize` has established when it has reached each pc: `Placed` (the ruleset loaded
lies between the one current at arrival and the current one), `Vetted` (the token passed
each check made so far, under that ruleset), `Judged` (every rule before the one under
evaluation missed at some moment since arrival) and `Signed` (account and expiry are those
of the matched rule). Each is preserved because time and reloads only lengthen the period
and never change an installed ruleset (`LongerPeriod`, `ReqMonotone`), and because each
step of `Authorize` changes one request (`OneRequest`).

`KeyInv`, for the keys: whatever epoch a ruleset has cached or is fetching lies between
the one in which the ruleset was installed and the current one, so a verified request was
verified with a key published since its own ruleset was installed. `CountInv`, for the
counters: whoever counts a denial has a reason to count it under, and the workers between
the two increments are finitely many, so one more or one less changes their number by one.
`AnswerInv`, for the refinement: the reason of a denial is right from the moment it is
chosen (and stays so, `RightReasonKept`), and nothing of a grant is left in a denial. With
it every step is a step of `Authorization` or leaves what is seen alone (`Simulation`).
`Authorization` takes what a configuration may answer as a parameter, so that both sides
of the refinement speak of the same `Answers`. Its first configuration may be there at the
start (`Callout`) or come later (`Service`).

*Daemon.* `OneLoads`: `run` and `watchReloads` never load at the same time, since the
goroutine is started after `run` has finished with what it loaded. `LoadingOK`: what a
load has passed at each step. `SignalsOK`: a signal that no load has answered is in the
channel or has just been taken from it; with the channel empty, a load that has begun, or
was installed, is no older than the last signal. This is why dropping signals loses
nothing. `WarningsOK`: a setting that has drifted was warned of before it was installed,
over several reloads by a triangle inequality (`ChangedTriangle`).

*Service.* `ServiceInv` is the invariants of the two parts and four links: no request comes before the
authorizer is started, and the ruleset in use is what the process believes to have
installed (`LinkOK`); whatever a request may load is valid (`ValidOK`); what a request was
promised holds of every ruleset it may still load *and of the load in progress, as far as
that has come* (`PromisesOK`). Without the last part a reload that had begun before the
request arrived could install older files after it. `EpochsOK` is the same for keys, and
simpler: a ruleset starts with no keys when it is installed, which is after the signal, so
nothing need be known of the load in progress. The proofs of the parts are reused: a step of
the service is a step of the process (`ProcessMoves`) and of the authorizer
(`AuthorizerMoves`), except for the one that starts the authorizer (`StartKept`: no request
and no key is there to be disturbed). The refinement reuses `Simulation` of `CalloutProofs`
for what is asked and answered (`SeenOutside`); starting the authorizer and `a.Reload` are
both an `Install`, of a configuration that `LoadingOK` says is valid.

*Policy.* `Progress`: the rules before the one `Validate` is at are compiled, and all are
once it is through, however often it failed or was repeated. The least rule that matches
as compiled is then the least that matches by its meaning.

That compiled globs match by their meaning (`GlobsAgree`) is an induction over patterns. The
library's induction theorems cannot be used, but induction for a *set* of numbers can be
derived from `WFMin` (`Induction`), and with it that a recursive function exists and satisfies
its equation. Both matchers are then reduced to the same recurrence: the places of a subject
where a prefix of the pattern may end. For the glob itself these are the values of its
recursive function; for the segments, the places where the last segment may end when the
earlier ones occur before it (`EndsAt`). For `ClaimsApart` the same induction gives the
length of a flattened path (`FlattenLength`), so a claim of one part was written from a leaf
of one key, or from the namespace (`PlainKey`, `PlainClaim`), and a claim that begins with
`aws` from the namespace or from a leaf whose top-level key does (`AWSClaim`).

*TokenSource.* `RoutineOK`: the token a caller holds is for it and was good when it asked;
who is about to write has a token to write. `RefreshOK`: the flag is set exactly while one
of the two slots is busy. `ErrorOK`: `lastErr` is what a running refresh recorded, or the
result of an operation that ended while every such refresh was running.

*FileSource.* A call has read a token no older than the one in the file when it began, and
expiries in the file only grow. *Session.* A token refused as expired had expired before
nats.go last asked, so it is not among what `TokenSupply` may answer. *Client.* What the
handlers do is seen by nats.go as `Ask` and `Answer` or not at all (`CallSeen`, `ReturnSeen`,
`Unseen`, shared with the refinement), so a step of `Client` is a step of `Session` or none
(`ConnStep`) and the theorem about `Session` applies. *MetricsServer.*
Once `Shutdown` is called no scrape can begin.

### Only model-checked

- Liveness (`EveryRequestAnswered`, `HupIsServed`, `TermStops`, `HandlerReturns`,
  `ServeReturns`, `AcceptorEnds`): out of the prover's reach.
- The four violations of section 4, which are counterexamples.

## 6. Plan

Every component of the inventory has its module, its runs and its proofs, and every safety
property a run checks is proved. What could still be added is `run` as one module for
`Daemon` and `MetricsServer`, which now each model its end, with its restart by a supervisor.

Not modelled, with the reason:

- how `connectNATS` and `tlsConfig` build their options, beyond the check that can fail
  for every configuration: they read files and fill structures, in one step that may fail;
- the latency histogram, logging, version reporting: nothing reads them back;
- the permissions and names in a grant: copied from the matched rule without a decision;
- the mock issuer, tests, samples and packaging: not part of the service.
