------------------------------ MODULE Service -------------------------------
(***************************************************************************)
(* The whole service: the authorizer (Callout) inside the process that     *)
(* starts it and reloads its configuration (Daemon).  Requests are handled *)
(* from the moment run has started the callout service until the process   *)
(* ends; the first ruleset is the one run made, and a Swap of watchReloads *)
(* is a Reload of the authorizer.  Time passes, and the providers rotate   *)
(* their keys, meanwhile.                                                  *)
(***************************************************************************)
EXTENDS Callout

CONSTANTS ConfigFiles, PolicyFiles, MaxEdits, MaxHups, Seeds

VARIABLES
    file, ver, main, ctx, watcher, hup, loading, running, installed, current, warned,
    hups, asked, owed, result, everWarned,
    made,      \* made[g]: the versions of the files ruleset g was made from
    promised,  \* promised[w]: the versions that were to be in effect when w's request arrived
    hupEpoch,  \* hupEpoch[p]: the key epoch of p when the last SIGHUP was sent
    trusted    \* trusted[w]: the key epochs that were to be in effect when w's request arrived

(* Daemon, with what is proved of it.                                      *)
D == INSTANCE DaemonProofs

(* The files are as Daemon assumes, and whatever they can make run or      *)
(* watchReloads install is among the configurations of Callout.            *)
ASSUME ServiceAssumption ==
    /\ \A c \in ConfigFiles : c.parses \in BOOLEAN /\ DOMAIN c.cfg = D!Fields
    /\ \A p \in PolicyFiles : p.parses \in BOOLEAN
    /\ MaxEdits \in Nat /\ MaxHups \in Nat
    /\ \A c \in D!Loaded : D!Validate(c) /\ VerifierValid(c) => c \in Configs

procVars    == <<file, ver, main, ctx, watcher, hup, loading, running, installed, current,
                 warned, hups, asked, owed, result, everWarned>>
histVars    == <<made, promised, hupEpoch, trusted>>
serviceVars == <<vars, procVars, histVars>>

NoVersion == [cfg |-> 0, pol |-> 0]
NotMade   == [cfg |-> -1, pol |-> -1]
AnyEpoch  == [p \in Providers |-> 1]

ServiceInit ==
    /\ Init /\ D!Init
    /\ made = [g \in Gens |-> NotMade]
    /\ promised = [w \in Workers |-> NoVersion]
    /\ hupEpoch = AnyEpoch /\ trusted = [w \in Workers |-> AnyEpoch]

(* authzcallout.New is given what run has loaded.                          *)
StartAuthorizer ==
    /\ D!MainServes
    /\ config' = [config EXCEPT ![1] = loading.cfg]
    /\ born' = [born EXCEPT ![1] = epoch]
    /\ made' = [made EXCEPT ![1] = loading.ver]
    /\ UNCHANGED <<clock, state, keyVars, epoch, req, received, metricsVars>>
    /\ UNCHANGED <<promised, hupEpoch, trusted>>

(* current = newCfg without the a.Reload before it.                        *)
InstallRuleset_NoReload == D!Swap /\ UNCHANGED <<vars, histVars>>

(* a.Reload is given what watchReloads has loaded.                         *)
InstallRuleset ==
    /\ D!Swap /\ Reload(loading.cfg)
    /\ made' = [made EXCEPT ![state + 1] = loading.ver]
    /\ UNCHANGED <<promised, hupEpoch, trusted>>

(* Every other step of the process and of its surroundings.                *)
ProcessStep ==
    /\ \/ D!MainReadConfig \/ D!MainReadPolicy \/ D!MainProceeds \/ D!MainFails
       \/ D!MainSpawns \/ D!MainExits
       \/ D!Register \/ D!SelectDone \/ D!SelectHup
       \/ D!ReloadReadConfig \/ D!ReloadReadPolicy \/ D!Warn \/ D!Discover
       \/ \E c \in ConfigFiles : D!EditConfig(c)
       \/ \E p \in PolicyFiles : D!EditPolicy(p)
       \/ D!SigTerm \/ D!Stopped
    /\ UNCHANGED <<vars, histVars>>

Hangup ==
    /\ D!SigHup
    /\ hupEpoch' = epoch
    /\ UNCHANGED <<vars, made, promised, trusted>>

(* watchReloads has answered every SIGHUP and says the config is reloaded. *)
Reloaded == watcher = "select" /\ hup = 0 /\ result = "ok"

(* Requests are taken before the authorizer is given its ruleset.          *)
RequestArrives_TooEarly(w, t) ==
    /\ Receive(w, t)
    /\ promised' = [promised EXCEPT ![w] = IF Reloaded THEN asked ELSE NoVersion]
    /\ trusted' = [trusted EXCEPT ![w] = IF Reloaded THEN hupEpoch ELSE AnyEpoch]
    /\ UNCHANGED <<procVars, made, hupEpoch>>

RequestArrives(w, t) ==
    /\ D!Serving /\ Receive(w, t)
    /\ promised' = [promised EXCEPT ![w] = IF Reloaded THEN asked ELSE NoVersion]
    /\ trusted' = [trusted EXCEPT ![w] = IF Reloaded THEN hupEpoch ELSE AnyEpoch]
    /\ UNCHANGED <<procVars, made, hupEpoch>>

RequestStep ==
    /\ D!Serving
    /\ \/ \E w \in Workers : Authorize(w)
       \/ \E g \in Gens, p \in Providers : KeysArrive(g, p) \/ KeysFail(g, p)
    /\ UNCHANGED <<procVars, histVars>>

(* Nothing of this depends on the process.                                 *)
Meanwhile ==
    /\ Tick \/ \E p \in Providers : RotateKeys(p)
    /\ UNCHANGED <<procVars, histVars>>

ServiceNext ==
    \/ StartAuthorizer \/ InstallRuleset \/ ProcessStep \/ Hangup \/ RequestStep \/ Meanwhile
    \/ \E w \in Workers, t \in Tokens \cup {NoToken} : RequestArrives(w, t)

ServiceSpec == ServiceInit /\ [][ServiceNext]_serviceVars

-----------------------------------------------------------------------------
(* Properties.                                                             *)

(* A revocation takes effect: once watchReloads has said that the config   *)
(* is reloaded, a request that arrives is granted only by a ruleset made   *)
(* from files at least as new as those on disk at the last SIGHUP, though  *)
(* signals, edits, reloads and requests overlap.                           *)
RevocationTakesEffect ==
    \A w \in Workers : Granted(w) =>
        LET g == req[w].st
        IN  /\ made[g].cfg >= promised[w].cfg
            /\ config[g].policyFile # "" => made[g].pol >= promised[w].pol

(* No token is granted anything but by a configuration that loads and that *)
(* passes what verifier.New checks of it (discovery apart), as it was read *)
(* by run or watchReloads, though reloads fail at any step.                *)
GrantedByValid ==
    \A w \in Workers : Granted(w) =>
        LET cfg == config[req[w].st]
        IN  D!Validate(cfg) /\ VerifierValid(cfg) /\ Explains(cfg, req[w])

(* A withdrawn key stops working: once watchReloads has said that the      *)
(* config is reloaded, a request that arrives is granted only with a key   *)
(* its issuer published at or after the last SIGHUP, though requests of    *)
(* older rulesets still wait for keys or have them cached (verifier.New    *)
(* in watchReloads, which comes after the signal).                         *)
WithdrawnKeysRefused ==
    \A w \in Workers : Granted(w) =>
        LET tok == req[w].token
            p == tok.iss
        IN  \E e \in trusted[w][p]..Len(Published[p]) : tok.key \in Published[p][e]

(* What run or watchReloads may make a ruleset from.                       *)
Loadable == {c \in D!Loaded : D!Validate(c) /\ VerifierValid(c)}

Whole == INSTANCE Authorization WITH
    asked   <- [w \in Workers |-> Asked(req[w])],
    state   <- IF made[1] = NotMade THEN 0 ELSE state,
    Configs <- Loadable

(* The whole service implements the promise of Authorization: no request   *)
(* is taken before there is a configuration, and each answer, grant or     *)
(* denial, is the one of a single configuration that the files gave, that  *)
(* loads, and that was in use while the request was pending, whatever is   *)
(* edited, signalled or rotated meanwhile.                                 *)
ServiceKeepsPromise == Whole!Spec
=============================================================================
