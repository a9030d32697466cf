------------------------------- MODULE Daemon -------------------------------
(***************************************************************************)
(* The life of the process (cmd/nats-oidc-callout/main.go): run, which     *)
(* starts the service and waits for SIGTERM or SIGINT, and the goroutine   *)
(* watchReloads, which reloads the configuration on SIGHUP; with           *)
(* config.Load, which reads the config file and then the policy file while *)
(* an operator may be editing them.                                        *)
(*                                                                         *)
(* Edits are numbered, so that what was read can be compared with what was *)
(* on disk at some time.                                                   *)
(***************************************************************************)
EXTENDS Config

CONSTANTS
    ConfigFiles,   \* the contents the config file may have
    PolicyFiles,   \* the contents the policy file may have
    MaxEdits,      \* bound on the edits of each file
    MaxHups        \* bound on the SIGHUPs sent

ASSUME DaemonAssumption ==
    /\ \A c \in ConfigFiles : c.parses \in BOOLEAN /\ DOMAIN c.cfg = Fields
    /\ \A p \in PolicyFiles : p.parses \in BOOLEAN
    /\ MaxEdits \in Nat /\ MaxHups \in Nat

VARIABLES
    file,       \* the two files on disk: [cfg, pol]
    ver,        \* the number of edits of each: [cfg, pol]
    main,       \* where run is
    ctx,        \* the context of NotifyContext: "open" or "done"
    watcher,    \* where watchReloads is
    hup,        \* signals in the channel of capacity one
    loading,    \* what config.Load has made of what it read: [cfg, ver]
    running,    \* the unreloadable settings in use since startup
    installed,  \* what the ruleset in use was built from: [cfg, ver]
    current,    \* watchReloads' current: the unreloadable part of what it installed last
    warned,     \* the groups the last reload warned need a restart
    hups,       \* SIGHUPs sent
    asked,      \* the versions on disk when the last SIGHUP was sent
    owed,       \* has no load begun since the last SIGHUP?
    result,     \* how the last reload ended
    everWarned  \* the groups any reload warned of

diskVars  == <<file, ver>>
loadVars  == <<running, installed, current, warned, result, everWarned>>
sigVars   == <<hup, hups, asked, owed>>
vars      == <<diskVars, main, ctx, watcher, loading, loadVars, sigVars>>

(* run from line to line: the step after each, and those that may fail.    *)
After == [seeds |-> "notify", notify |-> "discover", discover |-> "listen",
          listen |-> "connect", connect |-> "serve", started |-> "wait"]

(* Steps that fail whenever they are tried with this config, and steps     *)
(* that a file, the network or an address in use may make fail.            *)
Doomed(step, cfg) ==
    \/ step = "seeds" /\ ~SeedsOK(cfg)
    \/ step = "discover" /\ ~VerifierValid(cfg)
    \/ step = "connect" /\ ~TLSConsistent(cfg.nats)

Fallible(cfg) == {"discover", "connect", "serve"} \cup (IF cfg.metrics.enabled THEN {"listen"} ELSE {})

Alive == main \notin {"exited", "killed"}

Nothing == [cfg |-> (CHOOSE c \in ConfigFiles : TRUE).cfg, ver |-> [cfg |-> 0, pol |-> 0]]

Init ==
    /\ file \in [cfg : ConfigFiles, pol : PolicyFiles]
    /\ ver = [cfg |-> 0, pol |-> 0]
    /\ main = "readConfig" /\ ctx = "open" /\ watcher = "unborn"
    /\ loading = Nothing /\ installed = Nothing
    /\ running = Unreloadable(Nothing.cfg) /\ current = Unreloadable(Nothing.cfg)
    /\ hup = 0 /\ hups = 0 /\ asked = ver /\ owed = FALSE
    /\ warned = {} /\ everWarned = {} /\ result = "none"

-----------------------------------------------------------------------------
(* config.Load: the config file is read and parsed, then, if it names one, *)
(* the policy file; then defaults are set and everything is validated.     *)

ReadConfig == loading' = [loading EXCEPT !.cfg = file.cfg.cfg, !.ver.cfg = ver.cfg]

ReadPolicy ==
    loading' = [loading EXCEPT !.cfg = Defaulted(WithPolicy(@, file.pol)),
                               !.ver.pol = IF loading.cfg.policyFile # "" THEN ver.pol ELSE @]

-----------------------------------------------------------------------------
(* run.  A definition named X_Y is X with the mistake Y; it is not part of *)
(* the specification, and shows that a property notices the mistake.       *)

MainReadConfig ==
    /\ main = "readConfig"
    /\ ReadConfig
    /\ main' = IF file.cfg.parses THEN "readPolicy" ELSE "exited"
    /\ UNCHANGED <<diskVars, ctx, watcher, loadVars, sigVars>>

MainReadPolicy ==
    /\ main = "readPolicy"
    /\ ReadPolicy
    /\ main' = IF LoadOK(loading.cfg, file.pol) THEN "seeds" ELSE "exited"
    /\ UNCHANGED <<diskVars, ctx, watcher, loadVars, sigVars>>

(* Seeds, NotifyContext, discovery, metrics listener, NATS connection.     *)
MainProceeds ==
    /\ main \in DOMAIN After /\ ~Doomed(main, loading.cfg)
    /\ main' = After[main]
    /\ UNCHANGED <<diskVars, ctx, watcher, loading, loadVars, sigVars>>

MainFails ==
    /\ Doomed(main, loading.cfg) \/ main \in Fallible(loading.cfg)
    /\ main' = "exited"
    /\ UNCHANGED <<diskVars, ctx, watcher, loading, loadVars, sigVars>>

(* The authorizer is made and the callout service started.                 *)
MainServes ==
    /\ main = "serve"
    /\ main' = "spawn"
    /\ installed' = loading
    /\ running' = Unreloadable(loading.cfg) /\ current' = Unreloadable(loading.cfg)
    /\ UNCHANGED <<diskVars, ctx, watcher, loading, warned, result, everWarned, sigVars>>

(* go watchReloads(...).                                                   *)
MainSpawns ==
    /\ main = "spawn"
    /\ main' = "started"
    /\ watcher' = "register"
    /\ UNCHANGED <<diskVars, ctx, loading, loadVars, sigVars>>

(* Shutdown waits until watchReloads is idle.                              *)
MainExits_AfterWatcher ==
    /\ main = "wait" /\ ctx = "done" /\ watcher = "select"
    /\ main' = "exited"
    /\ UNCHANGED <<diskVars, ctx, watcher, loading, loadVars, sigVars>>

(* <-ctx.Done(), and the deferred calls.                                   *)
MainExits ==
    /\ main = "wait" /\ ctx = "done"
    /\ main' = "exited"
    /\ UNCHANGED <<diskVars, ctx, watcher, loading, loadVars, sigVars>>

MainStep ==
    \/ MainReadConfig \/ MainReadPolicy \/ MainProceeds \/ MainFails
    \/ MainServes \/ MainSpawns \/ MainExits

-----------------------------------------------------------------------------
(* watchReloads.                                                           *)

(* signal.Notify, the first thing the goroutine does.                      *)
Register ==
    /\ Alive /\ watcher = "register"
    /\ watcher' = "select"
    /\ UNCHANGED <<diskVars, main, ctx, loading, loadVars, sigVars>>

(* select takes either branch that is ready.                               *)
SelectDone ==
    /\ Alive /\ watcher = "select" /\ ctx = "done"
    /\ watcher' = "returned"
    /\ UNCHANGED <<diskVars, main, ctx, loading, loadVars, sigVars>>

SelectHup ==
    /\ Alive /\ watcher = "select" /\ hup = 1
    /\ hup' = 0
    /\ watcher' = "readConfig"
    /\ warned' = {}
    /\ UNCHANGED <<diskVars, main, ctx, loading, running, installed, current, result,
                   everWarned, hups, asked, owed>>

(* return where the code has continue.                                     *)
GiveUp_Returns == watcher' = "returned" /\ result' = "failed"

(* The reload failed; the previous config is kept.                         *)
GiveUp == watcher' = "select" /\ result' = "failed"

ReloadReadConfig ==
    /\ Alive /\ watcher = "readConfig"
    /\ ReadConfig
    /\ owed' = FALSE
    /\ IF file.cfg.parses THEN watcher' = "readPolicy" /\ UNCHANGED result ELSE GiveUp
    /\ UNCHANGED <<diskVars, main, ctx, running, installed, current, warned, everWarned,
                   hup, hups, asked>>

(* No continue after a failed Load.                                        *)
ReloadReadPolicy_GoesOn ==
    /\ Alive /\ watcher = "readPolicy"
    /\ ReadPolicy
    /\ watcher' = "warn"
    /\ UNCHANGED <<diskVars, main, ctx, running, installed, current, warned, everWarned,
                   result, sigVars>>

ReloadReadPolicy ==
    /\ Alive /\ watcher = "readPolicy"
    /\ ReadPolicy
    /\ IF LoadOK(loading.cfg, file.pol) THEN watcher' = "warn" /\ UNCHANGED result ELSE GiveUp
    /\ UNCHANGED <<diskVars, main, ctx, running, installed, current, warned, everWarned,
                   sigVars>>

Warnings == Changed(current, Unreloadable(loading.cfg))

(* The groups are compared with else if.                                   *)
Warn_FirstOnly ==
    /\ Alive /\ watcher = "warn"
    /\ warned' = IF "nats" \in Warnings THEN {"nats"} ELSE Warnings
    /\ everWarned' = everWarned \cup warned'
    /\ watcher' = "discover"
    /\ UNCHANGED <<diskVars, main, ctx, loading, running, installed, current, result, sigVars>>

(* warnUnreloadable(current, newCfg).                                      *)
Warn ==
    /\ Alive /\ watcher = "warn"
    /\ warned' = Warnings
    /\ everWarned' = everWarned \cup Warnings
    /\ watcher' = "discover"
    /\ UNCHANGED <<diskVars, main, ctx, loading, running, installed, current, result, sigVars>>

(* buildVerifier: OIDC discovery succeeds or fails.                        *)
Discover ==
    /\ Alive /\ watcher = "discover"
    /\ \/ ~Doomed("discover", loading.cfg) /\ watcher' = "swap" /\ UNCHANGED result
       \/ GiveUp
    /\ UNCHANGED <<diskVars, main, ctx, loading, running, installed, current, warned,
                   everWarned, sigVars>>

(* a.Reload, and current = newCfg.                                         *)
Swap ==
    /\ Alive /\ watcher = "swap"
    /\ installed' = loading
    /\ current' = Unreloadable(loading.cfg)
    /\ result' = "ok"
    /\ watcher' = "select"
    /\ UNCHANGED <<diskVars, main, ctx, loading, running, warned, everWarned, sigVars>>

WatcherStep ==
    \/ Register \/ SelectDone \/ SelectHup \/ ReloadReadConfig \/ ReloadReadPolicy
    \/ Warn \/ Discover \/ Swap

-----------------------------------------------------------------------------
(* The operator and the system.                                            *)

EditConfig(c) ==
    /\ Alive /\ ver.cfg < MaxEdits /\ c # file.cfg
    /\ file' = [file EXCEPT !.cfg = c]
    /\ ver' = [ver EXCEPT !.cfg = @ + 1]
    /\ UNCHANGED <<main, ctx, watcher, loading, loadVars, sigVars>>

EditPolicy(p) ==
    /\ Alive /\ ver.pol < MaxEdits /\ p # file.pol
    /\ file' = [file EXCEPT !.pol = p]
    /\ ver' = [ver EXCEPT !.pol = @ + 1]
    /\ UNCHANGED <<main, ctx, watcher, loading, loadVars, sigVars>>

(* signal.Notify is in effect: the Go runtime sends to the channel and     *)
(* drops the signal if it is full.  Without it, SIGHUP ends the process.   *)
Registered == watcher \notin {"unborn", "register", "returned"}

Deliver_Unbounded(n) == n + 1

Deliver(n) == IF n < 1 THEN n + 1 ELSE n

(* The channel is unbuffered: a signal during a reload is dropped.         *)
SigHup_Unbuffered ==
    /\ Alive /\ hups < MaxHups
    /\ hups' = hups + 1
    /\ asked' = ver
    /\ IF Registered
       THEN hup' = (IF watcher = "select" THEN 1 ELSE hup) /\ owed' = TRUE /\ UNCHANGED main
       ELSE main' = "killed" /\ UNCHANGED <<hup, owed>>
    /\ UNCHANGED <<diskVars, ctx, watcher, loading, loadVars>>

SigHup ==
    /\ Alive /\ hups < MaxHups
    /\ hups' = hups + 1
    /\ asked' = ver
    /\ IF Registered
       THEN hup' = Deliver(hup) /\ owed' = TRUE /\ UNCHANGED main
       ELSE main' = "killed" /\ UNCHANGED <<hup, owed>>
    /\ UNCHANGED <<diskVars, ctx, watcher, loading, loadVars>>

(* Once NotifyContext is called, SIGTERM and SIGINT cancel the context.    *)
TermCaught == main \notin {"readConfig", "readPolicy", "seeds", "notify"}

SigTerm ==
    /\ Alive /\ ctx = "open"
    /\ IF TermCaught THEN ctx' = "done" /\ UNCHANGED main
                     ELSE main' = "killed" /\ UNCHANGED ctx
    /\ UNCHANGED <<diskVars, watcher, loading, loadVars, sigVars>>

Stopped == ~Alive /\ UNCHANGED vars

Next ==
    \/ MainStep \/ WatcherStep
    \/ \E c \in ConfigFiles : EditConfig(c)
    \/ \E p \in PolicyFiles : EditPolicy(p)
    \/ SigHup \/ SigTerm \/ Stopped

(* Both goroutines run when they can: discovery, dialing and file reads    *)
(* are bounded by timeouts or local, and a select that can proceed does.   *)
Fairness == WF_vars(MainStep) /\ WF_vars(WatcherStep)

Spec == Init /\ [][Next]_vars /\ Fairness

-----------------------------------------------------------------------------
(* Properties.                                                             *)

Versions == [cfg : 0..MaxEdits, pol : 0..MaxEdits]
Parsed   == {c.cfg : c \in ConfigFiles}
Loaded   == Parsed \cup {Defaulted(WithPolicy(c, p)) : c \in Parsed, p \in PolicyFiles}
Settings == {Unreloadable(c) : c \in Loaded}
Groups   == {"nats", "seeds", "metrics"}

(* Every variable has its type: run and watchReloads are at a known step   *)
(* and the signal channel never holds more than its one slot.              *)
TypeOK ==
    /\ file \in [cfg : ConfigFiles, pol : PolicyFiles] /\ ver \in Versions
    /\ main \in {"readConfig", "readPolicy", "seeds", "notify", "discover", "listen",
                 "connect", "serve", "spawn", "started", "wait", "exited", "killed"}
    /\ ctx \in {"open", "done"}
    /\ watcher \in {"unborn", "register", "select", "readConfig", "readPolicy", "warn",
                    "discover", "swap", "returned"}
    /\ hup \in 0..1 /\ hups \in 0..MaxHups /\ asked \in Versions /\ owed \in BOOLEAN
    /\ {loading, installed} \subseteq [cfg : Loaded, ver : Versions]
    /\ running \in Settings /\ current \in Settings
    /\ warned \subseteq Groups /\ everWarned \subseteq Groups /\ result \in {"none", "ok", "failed"}

(* The service serves requests.                                            *)
Serving == main \in {"spawn", "started", "wait"}

(* The ruleset in use comes from a valid configuration: an invalid file    *)
(* read at any time, in any combination, leaves the previous config        *)
(* serving (watchReloads' continue).                                       *)
ServesOnlyValid == Serving => Validate(installed.cfg) /\ VerifierValid(installed.cfg)

(* No SIGHUP is lost, though the channel holds one and the rest are        *)
(* dropped: when watchReloads is idle, its last reload began after the     *)
(* last signal, and unless it failed, what is installed is at least as new *)
(* as the files were when the signal was sent.                             *)
ReloadCatchesUp ==
    Serving /\ watcher = "select" /\ hup = 0 =>
        /\ ~owed
        /\ result = "ok" /\ hups > 0 =>
            /\ installed.ver.cfg >= asked.cfg
            /\ installed.cfg.policyFile # "" => installed.ver.pol >= asked.pol

(* Whenever the installed config asks for settings other than those in use *)
(* since startup, a reload has warned of every group that differs, however *)
(* many reloads led there (warnUnreloadable).                              *)
DriftWasWarned == Serving => Changed(running, Unreloadable(installed.cfg)) \subseteq everWarned

(* Every SIGHUP that is caught makes watchReloads read the config, unless  *)
(* the process is told to stop.                                            *)
HupIsServed == owed ~> (~owed \/ ctx = "done" \/ ~Alive)

(* A caught SIGTERM ends the process, whatever startup or a reload is      *)
(* doing.                                                                  *)
TermStops == ctx = "done" ~> ~Alive

(* Once the service says it has started, and before it is told to stop, a  *)
(* SIGHUP does not end it.                                                 *)
HupNeverKills == [][main = "wait" /\ ctx = "open" => main' # "killed"]_vars

(* A reload that warns that a restart is required has read settings other  *)
(* than those in use.                                                      *)
WarningMeansDrift == warned \subseteq Changed(running, Unreloadable(loading.cfg))
=============================================================================
