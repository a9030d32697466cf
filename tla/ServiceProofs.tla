--------------------------- MODULE ServiceProofs ----------------------------
(***************************************************************************)
(* Proofs about the whole service.  What is known of the authorizer alone  *)
(* (CalloutProofs) and of the process alone (DaemonProofs) is kept in the  *)
(* composition; the invariant here says how the two hang together.         *)
(***************************************************************************)
EXTENDS Service, CalloutProofs, TLAPS

-----------------------------------------------------------------------------
(* The inductive invariant.                                                *)

(* The state of the process before it starts the authorizer.               *)
Before == D!Starting \ {"spawn"}

Valid(c) == D!Validate(c) /\ VerifierValid(c)

(* Versions v of the files, with config c, keep the promise p.             *)
Meets(v, c, p) == v.cfg >= p.cfg /\ (c.policyFile # "" => v.pol >= p.pol)

NoKeys == \A p \in Providers : keys[1][p] = 0 /\ fetch[1][p] = 0

(* No request comes before the authorizer is started, and the ruleset in   *)
(* use is what the process believes to have installed.                     *)
LinkOK ==
    /\ made \in [Gens -> D!Versions \cup {NotMade}] /\ promised \in [Workers -> D!Versions]
    /\ main \in Before => state = 1 /\ made[1] = NotMade /\ NoKeys
    /\ made[1] = NotMade => \A w \in Workers : req[w].pc = "idle"
    /\ D!Serving => /\ config[state] = installed.cfg /\ made[state] = installed.ver
                    /\ made[1] # NotMade

(* Whatever a request may load is valid.                                   *)
ValidOK ==
    D!Serving \/ (\E w \in Workers : req[w].pc # "idle") => \A g \in 1..state : Valid(config[g])

(* What a request p was promised holds of every ruleset it may load, and   *)
(* of the one being made as far as that has come.                          *)
PromiseKept(r, p) ==
    /\ p.cfg <= ver.cfg /\ p.pol <= ver.pol
    /\ \A g \in r.lo..state : Meets(made[g], config[g], p)
    /\ watcher = "readPolicy" => loading.ver.cfg >= p.cfg
    /\ watcher \in {"warn", "discover", "swap"} => Meets(loading.ver, loading.cfg, p)

PromisesOK == \A w \in Workers : req[w].pc # "idle" => PromiseKept(req[w], promised[w])

(* The ruleset of a reload that is reported as done was installed no       *)
(* earlier than the last SIGHUP, and the one a request found no earlier    *)
(* than the request was promised.                                          *)
EpochsOK ==
    /\ hupEpoch \in [Providers -> Nat] /\ trusted \in [Workers -> [Providers -> Nat]]
    /\ \A p \in Providers :
        /\ hupEpoch[p] <= epoch[p] /\ 1 <= epoch[p]
        /\ \A g \in Gens : 1 <= born[g][p]
        /\ Reloaded => hupEpoch[p] <= born[state][p]
        /\ \A w \in Workers : req[w].pc # "idle" => trusted[w][p] <= born[req[w].lo][p]

(* What is known of the authorizer alone.                                  *)
AuthorizerInv == IndInv /\ KeyInv /\ CountInv /\ AnswerInv

ServiceInv ==
    AuthorizerInv /\ D!IndInv /\ LinkOK /\ ValidOK /\ PromisesOK /\ EpochsOK

-----------------------------------------------------------------------------
(* What is proved of the process may be used here.                         *)

LEMMA ProcessAssumption == D!DaemonAssumption /\ D!TPSAssumption
BY ServiceAssumption, TPSAssumption DEF D!DaemonAssumption, D!TPSAssumption

LEMMA SameVerifier == \A c : D!VerifierValid(c) <=> VerifierValid(c)
BY Zenon DEF D!VerifierValid, VerifierValid

LEMMA ProcessInv ==
    ASSUME D!IndInv, [D!Next]_(D!vars)
    PROVE  D!IndInv'
BY ProcessAssumption, D!StepInv

(* The steps of ProcessStep, and a SIGHUP, install nothing.                *)
LEMMA ProcessKept ==
    ASSUME D!IndInv, ProcessStep \/ Hangup
    PROVE  installed' = installed /\ (D!Serving' => D!Serving)
<1> USE DEF D!diskVars, D!loadVars, D!sigVars
<1>1. CASE Hangup
  BY <1>1 DEF Hangup, D!SigHup, D!Serving
<1>2. CASE ProcessStep
  <2>1. installed' = installed
    BY <1>2 DEF ProcessStep, D!MainReadConfig, D!MainReadPolicy, D!MainProceeds, D!MainFails,
       D!MainSpawns, D!MainExits, D!Register, D!SelectDone, D!SelectHup, D!ReloadReadConfig,
       D!ReloadReadPolicy, D!Warn, D!Discover, D!EditConfig, D!EditPolicy, D!SigTerm,
       D!Stopped, D!vars
  <2>2. CASE D!MainProceeds
    BY <2>1, <2>2 DEF D!MainProceeds, D!After, D!Serving
  <2>3. CASE ~D!MainProceeds
    BY <1>2, <2>1, <2>3 DEF ProcessStep, D!MainReadConfig, D!MainReadPolicy, D!MainFails,
       D!MainSpawns, D!MainExits, D!Register, D!SelectDone, D!SelectHup, D!ReloadReadConfig,
       D!ReloadReadPolicy, D!Warn, D!Discover, D!EditConfig, D!EditPolicy, D!SigTerm,
       D!Stopped, D!vars, D!Serving
  <2> QED
    BY <2>2, <2>3
<1> QED
  BY <1>1, <1>2

(* No step of ProcessStep makes a reload done.                             *)
LEMMA ReloadedKept ==
    ASSUME D!IndInv, ProcessStep
    PROVE  Reloaded' => Reloaded
<1> USE DEF D!diskVars, D!loadVars, D!sigVars, Reloaded
<1>1. CASE D!MainSpawns
  BY <1>1 DEF D!MainSpawns
<1>2. CASE D!ReloadReadConfig \/ D!ReloadReadPolicy \/ D!Discover
  BY <1>2 DEF D!ReloadReadConfig, D!ReloadReadPolicy, D!Discover, D!GiveUp
<1>3. CASE D!Register \/ D!SelectDone \/ D!SelectHup \/ D!Warn
  BY <1>3 DEF D!Register, D!SelectDone, D!SelectHup, D!Warn, D!IndInv, D!OneLoads
<1>4. CASE UNCHANGED <<watcher, hup, result>>
  BY <1>4
<1> QED
  BY <1>1, <1>2, <1>3, <1>4 DEF ProcessStep, D!MainReadConfig, D!MainReadPolicy, D!MainProceeds,
     D!MainFails, D!MainExits, D!EditConfig, D!EditPolicy, D!SigTerm, D!Stopped, D!vars

-----------------------------------------------------------------------------
(* A step of the service is a step of the process, and a step of the       *)
(* authorizer unless it starts the authorizer.                             *)

LEMMA ProcessMoves ==
    ASSUME [ServiceNext]_serviceVars
    PROVE  [D!Next]_(D!vars)
<1> USE DEF D!Next, D!MainStep, D!WatcherStep
<1>1. UNCHANGED procVars => UNCHANGED D!vars
  BY DEF procVars, D!vars, D!diskVars, D!loadVars, D!sigVars
<1>2. CASE StartAuthorizer
  BY <1>2 DEF StartAuthorizer
<1>3. CASE InstallRuleset
  BY <1>3 DEF InstallRuleset
<1>4. CASE ProcessStep \/ Hangup
  BY <1>4 DEF ProcessStep, Hangup
<1>5. CASE UNCHANGED procVars
  BY <1>1, <1>5
<1> QED
  BY <1>2, <1>3, <1>4, <1>5 DEF ServiceNext, serviceVars, RequestArrives, RequestStep, Meanwhile

(* A ruleset that was made from files is known to be.                      *)
LEMMA MadeIsNot == \A v \in D!Versions : v # NotMade
<1> SUFFICES ASSUME NEW v \in D!Versions PROVE v.cfg # NotMade.cfg
  OBVIOUS
<1>1. v.cfg \in 0..MaxEdits /\ NotMade.cfg = -1
  BY DEF D!Versions, NotMade
<1> QED
  BY <1>1, ServiceAssumption

(* watchReloads installs something only while run serves.                  *)
LEMMA SwapServes ==
    ASSUME D!IndInv, D!Swap
    PROVE  D!Serving
BY DEF D!Swap, D!Alive, D!Serving, D!IndInv, D!OneLoads, D!TypeOK, D!Starting

(* What has been loaded and discovered may be installed.                   *)
LEMMA LoadedValid ==
    ASSUME D!IndInv, main = "serve" \/ watcher = "swap"
    PROVE  Valid(loading.cfg) /\ loading.cfg \in Configs /\ loading.ver \in D!Versions
<1>1. D!Validate(loading.cfg) /\ VerifierValid(loading.cfg)
  BY SameVerifier DEF D!IndInv, D!LoadingOK
<1>2. loading \in [cfg : D!Loaded, ver : D!Versions]
  BY DEF D!IndInv, D!TypeOK
<1> QED
  BY <1>1, <1>2, ServiceAssumption DEF Valid

LEMMA AuthorizerMoves ==
    ASSUME D!IndInv, [ServiceNext]_serviceVars
    PROVE  StartAuthorizer \/ [Next]_vars
<1>1. CASE InstallRuleset
  <2>1. loading.cfg \in Configs
    BY <1>1, LoadedValid DEF InstallRuleset, D!Swap
  <2> QED
    BY <1>1, <2>1 DEF InstallRuleset, Next
<1>2. CASE RequestStep
  BY <1>2 DEF RequestStep, Next
<1>3. CASE \E w \in Workers, t \in Tokens \cup {NoToken} : RequestArrives(w, t)
  BY <1>3 DEF RequestArrives, Next
<1>4. CASE Meanwhile
  BY <1>4 DEF Meanwhile, Next
<1>5. CASE UNCHANGED vars
  BY <1>5
<1> QED
  BY <1>1, <1>2, <1>3, <1>4, <1>5 DEF ServiceNext, serviceVars, ProcessStep, Hangup

(* Before the authorizer is started there is no request to be disturbed by *)
(* it.                                                                     *)
LEMMA StartKept ==
    ASSUME AuthorizerInv, D!IndInv, LinkOK, StartAuthorizer
    PROVE  AuthorizerInv'
<1>0. IndInv /\ KeyInv /\ CountInv /\ AnswerInv
  BY DEF AuthorizerInv
<1>1. main = "serve" /\ main \in Before
  BY DEF StartAuthorizer, D!MainServes, Before, D!Starting
<1>2. state = 1 /\ NoKeys /\ \A w \in Workers : req[w].pc = "idle"
  BY <1>1 DEF LinkOK
<1>3. loading.cfg \in Configs
  BY <1>1, LoadedValid
<1>4. /\ config' = [config EXCEPT ![1] = loading.cfg] /\ born' = [born EXCEPT ![1] = epoch]
      /\ UNCHANGED <<clock, state, keys, fetch, epoch, req, received, allowed, denied, denials>>
  BY DEF StartAuthorizer, keyVars, metricsVars
<1>5. TypeOK'
  BY <1>0, <1>3, <1>4 DEF IndInv, TypeOK
<1>6. ASSUME NEW w \in Workers PROVE ReqOK(req[w], clock, state, config)'
  <2>1. ReqOK(req[w], clock, state, config) /\ req[w].pc = "idle"
    BY <1>0, <1>2 DEF IndInv, RequestsOK
  <2> QED
    BY <1>4, <2>1 DEF ReqOK, Placed, Vetted, Judged, Signed, At
<1>7. KeysOK'
  <2>1. /\ born \in [Gens -> [Providers -> Nat]] /\ epoch \in [Providers -> Nat] /\ Gens \subseteq Nat
        /\ 1 \in Gens /\ \A g \in Gens : g >= 1
    BY <1>0, BoundAssumption DEF IndInv, TypeOK, Gens
  <2>2. ASSUME NEW g \in Gens, NEW p \in Providers
        PROVE  Fresh(keys[g][p], g, p)' /\ Fresh(fetch[g][p], g, p)'
    <3>1. Fresh(keys[g][p], g, p) /\ Fresh(fetch[g][p], g, p)
      BY <1>0 DEF KeyInv, KeysOK
    <3>2. CASE g = 1
      BY <1>2, <1>4, <3>2 DEF NoKeys, Fresh
    <3>3. CASE g # 1
      BY <1>4, <2>1, <3>1, <3>3 DEF Fresh
    <3> QED
      BY <3>2, <3>3
  <2>3. ASSUME NEW g \in Gens, NEW h \in Gens, NEW p \in Providers, g <= h, h <= state'
        PROVE  born'[g][p] <= born'[h][p] /\ born'[h][p] <= epoch'[p]
    <3>1. g = 1 /\ h = 1
      BY <1>2, <1>4, <2>1, <2>3
    <3> QED
      BY <1>4, <2>1, <3>1
  <2>4. \A p \in Providers : epoch'[p] <= Len(Published[p])
    BY <1>0, <1>4 DEF KeyInv, KeysOK
  <2> QED
    BY <2>2, <2>3, <2>4 DEF KeysOK
<1>8. KeyInv'
  BY <1>2, <1>4, <1>7 DEF KeyInv, KeyOK, At
<1>9. CountInv'
  BY <1>0, <1>4 DEF CountInv, Recording, DenialsAddUp
<1>10. AnswerInv'
  BY <1>0, <1>2, <1>4 DEF AnswerInv, AnswerOK
<1> QED
  BY <1>5, <1>6, <1>8, <1>9, <1>10 DEF AuthorizerInv, IndInv, RequestsOK

LEMMA AuthorizerKept ==
    ASSUME AuthorizerInv, D!IndInv, LinkOK, [ServiceNext]_serviceVars
    PROVE  AuthorizerInv'
<1>1. CASE StartAuthorizer
  BY <1>1, StartKept
<1>2. CASE [Next]_vars
  BY <1>2, StepInv, KeyStep, CountStep, AnswerStep DEF AuthorizerInv
<1> QED
  BY <1>1, <1>2, AuthorizerMoves DEF AuthorizerInv

(* A step of Authorize, and the end of a fetch, leave what a request was   *)
(* given at its arrival and the rulesets as they are.                      *)
LEMMA HandlingKeeps ==
    ASSUME IndInv, RequestStep, NEW w \in Workers
    PROVE  req'[w].lo = req[w].lo /\ (req'[w].pc # "idle" => req[w].pc # "idle")
<1>1. ASSUME NEW v \in Workers, Authorize(v)
      PROVE  req'[w].lo = req[w].lo /\ (req'[w].pc # "idle" => req[w].pc # "idle")
  BY <1>1, OthersUntouched, ArrivalKept
<1>2. ASSUME NEW g \in Gens, NEW p \in Providers, KeysArrive(g, p) \/ KeysFail(g, p)
      PROVE  req'[w].lo = req[w].lo /\ (req'[w].pc # "idle" => req[w].pc # "idle")
  BY <1>2, FetchKept
<1> QED
  BY <1>1, <1>2 DEF RequestStep

LEMMA HandlingInstallsNothing ==
    ASSUME RequestStep
    PROVE  UNCHANGED <<state, config>>
BY AuthorizeAlone DEF RequestStep, KeysArrive, KeysFail, cfgVars

(* What a step of the process that installs nothing leaves alone.          *)
LEMMA ProcessKeeps ==
    ASSUME D!IndInv, LinkOK, [ServiceNext]_serviceVars, ~StartAuthorizer, ~InstallRuleset
    PROVE  /\ UNCHANGED <<state, config, made>>
           /\ installed' = installed /\ (D!Serving' => D!Serving)
<1>1. UNCHANGED <<state, config, made>>
  <2>1. CASE RequestStep
    BY <2>1, HandlingInstallsNothing DEF RequestStep, histVars
  <2>2. CASE \E w \in Workers, t \in Tokens \cup {NoToken} : RequestArrives(w, t)
    BY <2>2 DEF RequestArrives, Receive, cfgVars
  <2>3. CASE Meanwhile
    BY <2>3 DEF Meanwhile, Tick, RotateKeys, cfgVars, histVars
  <2>4. CASE UNCHANGED <<vars, made>>
    BY <2>4 DEF vars, cfgVars
  <2> QED
    BY <2>1, <2>2, <2>3, <2>4 DEF ServiceNext, serviceVars, histVars, ProcessStep, Hangup
<1>2. installed' = installed /\ (D!Serving' => D!Serving)
  <2>1. CASE UNCHANGED procVars
    BY <2>1 DEF procVars, D!Serving
  <2>2. CASE ProcessStep \/ Hangup
    BY <2>2, ProcessKept
  <2> QED
    BY <2>1, <2>2 DEF ServiceNext, serviceVars, RequestStep, RequestArrives, Meanwhile
<1> QED
  BY <1>1, <1>2

-----------------------------------------------------------------------------
(* The service keeps its invariant.                                        *)

LEMMA LinkStep ==
    ASSUME IndInv, D!IndInv, LinkOK, [ServiceNext]_serviceVars
    PROVE  LinkOK'
<1>0. /\ made \in [Gens -> D!Versions \cup {NotMade}] /\ promised \in [Workers -> D!Versions]
      /\ state \in Gens /\ config \in [Gens -> Configs] /\ 1 \in Gens /\ Gens \subseteq Nat
      /\ \A g \in Gens : g >= 1
  BY BoundAssumption DEF LinkOK, IndInv, TypeOK, Gens
<1>1. main' \in Before => main \in Before
  BY ProcessMoves, ProcessAssumption, D!RestKept DEF Before
<1>2. main \in Before => watcher = "unborn" /\ ~D!Serving
  BY DEF Before, D!IndInv, D!OneLoads, D!Starting, D!Serving
<1>3. CASE StartAuthorizer
  <2>1. main \in Before /\ main' \notin Before /\ loading.ver \in D!Versions
    BY <1>3, LoadedValid DEF StartAuthorizer, D!MainServes, Before, D!Starting
  <2>2. /\ made' = [made EXCEPT ![1] = loading.ver] /\ config' = [config EXCEPT ![1] = loading.cfg]
        /\ installed' = loading /\ UNCHANGED <<state, promised>>
    BY <1>3 DEF StartAuthorizer, D!MainServes
  <2>3. made' \in [Gens -> D!Versions \cup {NotMade}] /\ promised' \in [Workers -> D!Versions]
    BY <1>0, <2>1, <2>2
  <2>4. config'[state'] = installed'.cfg /\ made'[state'] = installed'.ver
    BY <1>0, <2>1, <2>2 DEF LinkOK
  <2>5. made'[1] # NotMade
    BY <1>0, <2>1, <2>2, MadeIsNot
  <2> QED
    BY <2>1, <2>3, <2>4, <2>5 DEF LinkOK
<1>4. CASE InstallRuleset
  <2>1. watcher = "swap" /\ loading.ver \in D!Versions /\ main' \notin Before
    BY <1>1, <1>2, <1>4, LoadedValid DEF InstallRuleset, D!Swap
  <2>2. /\ made' = [made EXCEPT ![state + 1] = loading.ver] /\ req' = req /\ main' = main
        /\ config' = [config EXCEPT ![state + 1] = loading.cfg]
        /\ installed' = loading /\ state' = state + 1 /\ promised' = promised /\ state < MaxGens
    BY <1>4 DEF InstallRuleset, D!Swap, Reload
  <2>3. state + 1 \in Gens /\ state + 1 # 1
    BY <1>0, <2>2, BoundAssumption DEF Gens
  <2>4. made' \in [Gens -> D!Versions \cup {NotMade}] /\ promised' \in [Workers -> D!Versions]
    BY <1>0, <2>1, <2>2
  <2>5. config'[state'] = installed'.cfg /\ made'[state'] = installed'.ver
    BY <1>0, <2>2, <2>3
  <2>6. made'[1] = made[1]
    BY <1>0, <2>2, <2>3
  <2> QED
    BY <2>1, <2>2, <2>4, <2>5, <2>6 DEF LinkOK, D!Serving
<1>5. CASE ~StartAuthorizer /\ ~InstallRuleset
  <2>1. /\ UNCHANGED <<state, config, made>>
        /\ installed' = installed /\ (D!Serving' => D!Serving)
    BY <1>5, ProcessKeeps
  <2>2. promised' \in [Workers -> D!Versions]
    <3>1. CASE \E w \in Workers, t \in Tokens \cup {NoToken} : RequestArrives(w, t)
      <4>1. asked \in D!Versions
        BY DEF D!IndInv, D!TypeOK
      <4>2. NoVersion \in D!Versions
        BY ServiceAssumption DEF NoVersion, D!Versions
      <4> QED
        BY <1>0, <3>1, <4>1, <4>2 DEF RequestArrives
    <3>2. CASE promised' = promised
      BY <1>0, <3>2
    <3> QED
      BY <1>5, <3>1, <3>2 DEF ServiceNext, serviceVars, histVars, ProcessStep, RequestStep,
         Hangup, Meanwhile
  <2>3. D!Serving \/ UNCHANGED <<req, keys, fetch>>
    BY <1>5 DEF ServiceNext, serviceVars, vars, keyVars, ProcessStep, RequestStep, RequestArrives,
       Hangup, Meanwhile, Tick, RotateKeys
  <2>4. main' \in Before => state' = 1 /\ made'[1] = NotMade /\ NoKeys'
    BY <1>1, <1>2, <2>1, <2>3 DEF LinkOK, NoKeys
  <2>5. made'[1] = NotMade => \A w \in Workers : req'[w].pc = "idle"
    BY <2>1, <2>3 DEF LinkOK
  <2>6. D!Serving' => /\ config'[state'] = installed'.cfg /\ made'[state'] = installed'.ver
                      /\ made'[1] # NotMade
    BY <2>1 DEF LinkOK
  <2> QED
    BY <1>0, <2>1, <2>2, <2>4, <2>5, <2>6 DEF LinkOK
<1> QED
  BY <1>3, <1>4, <1>5

LEMMA ValidStep ==
    ASSUME IndInv, D!IndInv, LinkOK, ValidOK, [ServiceNext]_serviceVars
    PROVE  ValidOK'
<1>0. state \in Gens /\ config \in [Gens -> Configs] /\ 1 \in Gens /\ Gens \subseteq Nat
  BY BoundAssumption DEF IndInv, TypeOK, Gens
<1>1. CASE StartAuthorizer
  <2>1. main = "serve" /\ main \in Before
    BY <1>1 DEF StartAuthorizer, D!MainServes, Before, D!Starting
  <2>2. state' = 1 /\ config' = [config EXCEPT ![1] = loading.cfg]
    BY <1>1, <2>1 DEF LinkOK, StartAuthorizer
  <2>3. Valid(loading.cfg)
    BY <2>1, LoadedValid
  <2>4. \A g \in 1..state' : Valid(config'[g])
    BY <1>0, <2>2, <2>3
  <2> QED
    BY <2>4 DEF ValidOK
<1>2. CASE InstallRuleset
  <2>1. Valid(loading.cfg)
    BY <1>2, LoadedValid DEF InstallRuleset, D!Swap
  <2>2. /\ config' = [config EXCEPT ![state + 1] = loading.cfg] /\ state' = state + 1
        /\ main' = main /\ req' = req /\ state < MaxGens
    BY <1>2 DEF InstallRuleset, D!Swap, Reload
  <2>3. state + 1 \in Gens
    BY <1>0, <2>2, BoundAssumption DEF Gens
  <2>4. ASSUME \A g \in 1..state : Valid(config[g])
        PROVE  \A g \in 1..state' : Valid(config'[g])
    <3>1. TAKE g \in 1..state'
    <3>2. CASE g = state + 1
      BY <1>0, <2>1, <2>2, <2>3, <3>2
    <3>3. CASE g \in 1..state
      BY <1>0, <2>2, <2>4, <3>3 DEF Gens
    <3> QED
      BY <1>0, <2>2, <3>2, <3>3
  <2> QED
    BY <2>2, <2>4 DEF ValidOK, D!Serving
<1>3. CASE ~StartAuthorizer /\ ~InstallRuleset
  <2>1. UNCHANGED <<state, config>> /\ (D!Serving' => D!Serving)
    BY <1>3, ProcessKeeps
  <2>2. D!Serving \/ req' = req
    BY <1>3 DEF ServiceNext, serviceVars, vars, ProcessStep, RequestStep, RequestArrives,
       Hangup, Meanwhile, Tick, RotateKeys
  <2> QED
    BY <2>1, <2>2 DEF ValidOK
<1> QED
  BY <1>1, <1>2, <1>3

(* What holds of the load in progress, as far as it has come, holds after  *)
(* any step of the process.                                                *)
LEMMA PromiseLoads ==
    ASSUME D!IndInv, [D!Next]_(D!vars), NEW r, NEW p \in D!Versions, PromiseKept(r, p)
    PROVE  /\ p.cfg <= ver'.cfg /\ p.pol <= ver'.pol
           /\ watcher' = "readPolicy" => loading'.ver.cfg >= p.cfg
           /\ watcher' \in {"warn", "discover", "swap"} => Meets(loading'.ver, loading'.cfg, p)
<1>0. /\ p.cfg \in Int /\ p.pol \in Int /\ ver.cfg \in Int /\ ver.pol \in Int
      /\ ver'.cfg \in Int /\ ver'.pol \in Int
  BY ProcessInv, ServiceAssumption DEF D!IndInv, D!TypeOK, D!Versions
<1>1. p.cfg <= ver.cfg /\ p.pol <= ver.pol
  BY DEF PromiseKept
<1>2. ver'.cfg >= ver.cfg /\ ver'.pol >= ver.pol
  BY ProcessAssumption, D!RestKept
<1>3. ASSUME watcher' = "readPolicy" PROVE loading'.ver.cfg >= p.cfg
  <2>1. \/ watcher = "readPolicy" /\ loading' = loading
        \/ loading'.ver.cfg = ver.cfg
    BY <1>3, ProcessAssumption, D!LoadAdvances
  <2> QED
    BY <1>0, <1>1, <2>1 DEF PromiseKept
<1>4. ASSUME watcher' \in {"warn", "discover", "swap"} PROVE Meets(loading'.ver, loading'.cfg, p)
  <2>1. \/ watcher \in {"warn", "discover", "swap"} /\ loading' = loading
        \/ /\ watcher = "readPolicy" /\ loading'.ver.cfg = loading.ver.cfg
           /\ loading'.cfg.policyFile # "" => loading'.ver.pol = ver.pol
    BY <1>4, ProcessAssumption, D!LoadAdvances
  <2> QED
    BY <1>0, <1>1, <2>1 DEF PromiseKept, Meets
<1>5. p.cfg <= ver'.cfg /\ p.pol <= ver'.pol
  BY <1>0, <1>1, <1>2
<1> QED
  BY <1>3, <1>4, <1>5

LEMMA PromisesStep ==
    ASSUME IndInv, D!IndInv, LinkOK, PromisesOK, [ServiceNext]_serviceVars
    PROVE  PromisesOK'
<1> SUFFICES ASSUME NEW w \in Workers, req'[w].pc # "idle"
             PROVE  PromiseKept(req[w], promised[w])'
  BY DEF PromisesOK
<1>0. /\ state \in Gens /\ config \in [Gens -> Configs] /\ Gens \subseteq Nat
      /\ req \in [Workers -> Request] /\ req[w].lo \in Gens
      /\ made \in [Gens -> D!Versions \cup {NotMade}] /\ promised \in [Workers -> D!Versions]
  <2>1. req \in [Workers -> Request] /\ state \in Gens /\ config \in [Gens -> Configs]
    BY DEF IndInv, TypeOK
  <2>2. req[w].lo \in Gens
    BY <2>1 DEF Request
  <2>3. Gens \subseteq Nat
    BY BoundAssumption DEF Gens
  <2> QED
    BY <2>1, <2>2, <2>3 DEF LinkOK
<1> DEFINE p == promised[w]
<1>1. [D!Next]_(D!vars)
  BY ProcessMoves
<1>2. ASSUME req[w].pc # "idle", promised'[w] = p,
             \A g \in req'[w].lo..state' : Meets(made'[g], config'[g], p)
      PROVE  PromiseKept(req[w], promised[w])'
  <2>1. PromiseKept(req[w], p) /\ p \in D!Versions
    BY <1>0, <1>2 DEF PromisesOK
  <2>2. /\ p.cfg <= ver'.cfg /\ p.pol <= ver'.pol
        /\ watcher' = "readPolicy" => loading'.ver.cfg >= p.cfg
        /\ watcher' \in {"warn", "discover", "swap"} => Meets(loading'.ver, loading'.cfg, p)
    BY <1>1, <2>1, PromiseLoads
  <2> QED
    BY <1>2, <2>2 DEF PromiseKept
<1>3. CASE StartAuthorizer
  <2>1. main \in Before /\ req' = req
    BY <1>3 DEF StartAuthorizer, D!MainServes, Before, D!Starting
  <2> QED
    BY <2>1 DEF LinkOK
<1>4. CASE InstallRuleset
  <2>1. /\ config' = [config EXCEPT ![state + 1] = loading.cfg] /\ state' = state + 1
        /\ made' = [made EXCEPT ![state + 1] = loading.ver]
        /\ watcher = "swap" /\ req' = req /\ promised' = promised /\ state < MaxGens
    BY <1>4 DEF InstallRuleset, D!Swap, Reload
  <2>2. state + 1 \in Gens
    BY <1>0, <2>1, BoundAssumption DEF Gens
  <2>3. PromiseKept(req[w], p)
    BY <2>1 DEF PromisesOK
  <2>4. ASSUME NEW g \in req'[w].lo..state' PROVE Meets(made'[g], config'[g], p)
    <3>1. CASE g = state + 1
      <4>1. made'[g] = loading.ver /\ config'[g] = loading.cfg
        BY <1>0, <2>1, <2>2, <3>1
      <4> QED
        BY <2>1, <2>3, <4>1 DEF PromiseKept
    <3>2. CASE g \in req[w].lo..state
      <4>1. made'[g] = made[g] /\ config'[g] = config[g]
        BY <1>0, <2>1, <3>2 DEF Gens
      <4> QED
        BY <2>3, <3>2, <4>1 DEF PromiseKept
    <3> QED
      BY <1>0, <2>1, <3>1, <3>2
  <2> QED
    BY <1>2, <2>1, <2>4
<1>5. ASSUME NEW v \in Workers, NEW t \in Tokens \cup {NoToken}, RequestArrives(v, t), v = w
      PROVE  PromiseKept(req[w], promised[w])'
  <2>1. /\ req'[w].lo = state /\ D!Serving /\ UNCHANGED <<state, config, made, procVars>>
        /\ promised'[w] = IF Reloaded THEN asked ELSE NoVersion
    BY <1>0, <1>5 DEF RequestArrives, Receive, cfgVars, NoRequest
  <2>2. UNCHANGED <<ver, watcher, loading>>
    BY <2>1 DEF procVars
  <2>3. (state..state) = {state}
    BY <1>0
  <2>4. CASE Reloaded
    <3>1. watcher = "select" /\ hup = 0 /\ result = "ok"
      BY <2>4 DEF Reloaded
    <3>2. D!UpToDate(installed.ver, installed.cfg) /\ asked.cfg <= ver.cfg /\ asked.pol <= ver.pol
      BY <3>1 DEF D!IndInv, D!SignalsOK
    <3>3. Meets(made[state], config[state], asked)
      BY <2>1, <3>2 DEF D!UpToDate, Meets, LinkOK
    <3> QED
      BY <2>1, <2>2, <2>3, <2>4, <3>1, <3>2, <3>3 DEF PromiseKept
  <2>5. CASE ~Reloaded
    <3>1. promised'[w].cfg = 0 /\ promised'[w].pol = 0
      BY <2>1, <2>5 DEF NoVersion
    <3>2. \A x \in D!Versions : x.cfg >= 0 /\ x.pol >= 0
      BY ServiceAssumption DEF D!Versions
    <3>3. ver \in D!Versions /\ loading.ver \in D!Versions /\ made[state] \in D!Versions
      BY <2>1 DEF D!IndInv, D!TypeOK, LinkOK
    <3> QED
      BY <2>1, <2>2, <2>3, <3>1, <3>2, <3>3 DEF PromiseKept, Meets
  <2> QED
    BY <2>4, <2>5
<1>6. CASE /\ ~StartAuthorizer /\ ~InstallRuleset
           /\ ~\E t \in Tokens \cup {NoToken} : RequestArrives(w, t)
  <2>1. UNCHANGED <<state, config, made>>
    BY <1>6, ProcessKeeps
  <2>2. req'[w].lo = req[w].lo /\ req[w].pc # "idle" /\ promised'[w] = p
    <3>1. CASE RequestStep
      BY <3>1, HandlingKeeps DEF RequestStep, histVars
    <3>2. CASE \E v \in Workers, t \in Tokens \cup {NoToken} : v # w /\ RequestArrives(v, t)
      BY <1>0, <3>2 DEF RequestArrives, Receive
    <3>3. CASE UNCHANGED <<req, promised>>
      BY <3>3
    <3> QED
      BY <1>6, <3>1, <3>2, <3>3 DEF ServiceNext, serviceVars, vars, histVars, ProcessStep, Hangup,
         Meanwhile, Tick, RotateKeys
  <2>3. \A g \in req[w].lo..state : Meets(made[g], config[g], p)
    BY <2>2 DEF PromisesOK, PromiseKept
  <2> QED
    BY <1>2, <2>1, <2>2, <2>3
<1> QED
  BY <1>3, <1>4, <1>5, <1>6

(* A reload that is reported as done, and a request that arrives then, are *)
(* of an epoch no earlier than the last SIGHUP.                            *)
LEMMA EpochsStep ==
    ASSUME IndInv, D!IndInv, LinkOK, EpochsOK, [ServiceNext]_serviceVars
    PROVE  EpochsOK'
<1>0. /\ state \in Gens /\ Gens \subseteq Nat /\ 1 \in Gens /\ req \in [Workers -> Request]
      /\ born \in [Gens -> [Providers -> Nat]] /\ epoch \in [Providers -> Nat]
      /\ hupEpoch \in [Providers -> Nat] /\ trusted \in [Workers -> [Providers -> Nat]]
      /\ \A w \in Workers : req[w].lo \in Gens
  <2>1. req \in [Workers -> Request]
    BY DEF IndInv, TypeOK
  <2>2. \A w \in Workers : req[w].lo \in Gens
    BY <2>1 DEF Request
  <2> QED
    BY <2>1, <2>2, BoundAssumption DEF IndInv, TypeOK, Gens, EpochsOK
<1>1. \A p \in Providers :
        /\ hupEpoch[p] <= epoch[p] /\ 1 <= epoch[p]
        /\ \A g \in Gens : 1 <= born[g][p]
        /\ Reloaded => hupEpoch[p] <= born[state][p]
        /\ \A w \in Workers : req[w].pc # "idle" => trusted[w][p] <= born[req[w].lo][p]
  BY DEF EpochsOK
<1>2. CASE StartAuthorizer
  <2>1. /\ born' = [born EXCEPT ![1] = epoch]
        /\ UNCHANGED <<state, epoch, req, hupEpoch, trusted, watcher>>
        /\ main \in Before
    BY <1>2 DEF StartAuthorizer, D!MainServes, D!sigVars, Before, D!Starting
  <2>2. watcher = "unborn" /\ \A w \in Workers : req[w].pc = "idle"
    BY <2>1 DEF LinkOK, Before, D!IndInv, D!OneLoads
  <2>3. \A p \in Providers, g \in Gens : 1 <= born'[g][p]
    BY <1>0, <1>1, <2>1
  <2>4. ~Reloaded'
    BY <2>1, <2>2 DEF Reloaded
  <2> QED
    BY <1>0, <1>1, <2>1, <2>2, <2>3, <2>4 DEF EpochsOK
<1>3. CASE InstallRuleset
  <2>1. /\ born' = [born EXCEPT ![state + 1] = epoch] /\ state' = state + 1 /\ state < MaxGens
        /\ UNCHANGED <<epoch, req, hupEpoch, trusted>> /\ watcher' = "select"
    BY <1>3 DEF InstallRuleset, D!Swap, Reload
  <2>2. state + 1 \in Gens
    BY <1>0, <2>1, BoundAssumption DEF Gens
  <2>3. ASSUME NEW p \in Providers
        PROVE  /\ \A g \in Gens : 1 <= born'[g][p]
               /\ hupEpoch'[p] <= born'[state'][p]
    BY <1>0, <1>1, <2>1, <2>2
  <2>4. ASSUME NEW p \in Providers, NEW w \in Workers, req'[w].pc # "idle"
        PROVE  trusted'[w][p] <= born'[req'[w].lo][p]
    <3>1. trusted[w][p] <= born[req[w].lo][p]
      BY <1>1, <2>1, <2>4
    <3>2. req[w].lo <= state /\ req[w].lo \in Nat /\ state \in Nat
      BY StateFacts, RequestNumbers DEF ReqOK, Placed
    <3>3. born'[req[w].lo] = born[req[w].lo]
      BY <1>0, <2>1, <3>2
    <3> QED
      BY <2>1, <3>1, <3>3
  <2> QED
    BY <1>0, <1>1, <2>1, <2>3, <2>4 DEF EpochsOK
<1>4. ASSUME NEW w \in Workers, NEW t \in Tokens \cup {NoToken}, RequestArrives(w, t)
      PROVE  EpochsOK'
  <2>1. /\ UNCHANGED <<state, born, epoch, hupEpoch, watcher, hup, result>>
        /\ req'[w].lo = state /\ \A v \in Workers : v # w => req'[v] = req[v]
        /\ trusted' = [trusted EXCEPT ![w] = IF Reloaded THEN hupEpoch ELSE AnyEpoch]
    BY <1>0, <1>4 DEF RequestArrives, Receive, NoRequest, cfgVars, procVars
  <2>2. AnyEpoch \in [Providers -> Nat] /\ \A p \in Providers : AnyEpoch[p] = 1
    BY DEF AnyEpoch
  <2>3. trusted' \in [Workers -> [Providers -> Nat]]
    BY <1>0, <2>1, <2>2
  <2>4. ASSUME NEW p \in Providers, NEW v \in Workers, req'[v].pc # "idle"
        PROVE  trusted'[v][p] <= born'[req'[v].lo][p]
    <3>1. CASE v = w
      BY <1>0, <1>1, <2>1, <2>2, <3>1
    <3>2. CASE v # w
      BY <1>0, <1>1, <2>1, <2>4, <3>2
    <3> QED
      BY <3>1, <3>2
  <2>5. Reloaded' = Reloaded
    BY <2>1 DEF Reloaded
  <2> QED
    BY <1>0, <1>1, <2>1, <2>3, <2>4, <2>5 DEF EpochsOK
<1>5. CASE Hangup
  <2>1. /\ UNCHANGED <<state, born, epoch, req, trusted, watcher, result>> /\ hupEpoch' = epoch
    BY <1>5 DEF Hangup, D!SigHup, D!loadVars, vars, cfgVars
  <2>2. ~Reloaded'
    <3>1. SUFFICES ASSUME watcher = "select" PROVE hup' # 0
      BY <2>1 DEF Reloaded
    <3>2. hup' = D!Deliver(hup) /\ hup \in {0, 1}
      BY <1>5, <3>1 DEF Hangup, D!SigHup, D!Registered, D!IndInv, D!TypeOK
    <3> QED
      BY <3>2 DEF D!Deliver
  <2>3. \A p \in Providers : hupEpoch'[p] <= epoch'[p]
    BY <1>0, <2>1
  <2> QED
    BY <1>0, <1>1, <2>1, <2>2, <2>3 DEF EpochsOK
<1>6. CASE ProcessStep
  <2>1. UNCHANGED <<state, born, epoch, req, trusted, hupEpoch>>
    BY <1>6 DEF ProcessStep, vars, cfgVars, histVars
  <2>2. Reloaded' => Reloaded
    BY <1>6, ReloadedKept
  <2> QED
    BY <1>0, <1>1, <2>1, <2>2 DEF EpochsOK
<1>7. CASE RequestStep
  <2>1. UNCHANGED <<state, born, epoch, trusted, hupEpoch, watcher, hup, result>>
    <3>1. UNCHANGED <<state, born, epoch>>
      BY <1>7 DEF RequestStep, Authorize, LoadState, RejectToken, UseCachedKeys, AwaitKeys,
         VerifyTimeout, CheckClaims, EvaluateRule, Sign, SignFails, RecordAllowed, RecordDenied,
         RecordReason, KeysArrive, KeysFail, cfgVars
    <3> QED
      BY <1>7, <3>1 DEF RequestStep, procVars, histVars
  <2>2. Reloaded' = Reloaded
    BY <2>1 DEF Reloaded
  <2>3. \A w \in Workers : req'[w].lo = req[w].lo /\ (req'[w].pc # "idle" => req[w].pc # "idle")
    BY <1>7, HandlingKeeps
  <2> QED
    BY <1>0, <1>1, <2>1, <2>2, <2>3 DEF EpochsOK
<1>8. CASE Meanwhile
  <2>1. UNCHANGED <<state, born, req, trusted, hupEpoch, watcher, hup, result>>
    BY <1>8 DEF Meanwhile, Tick, RotateKeys, cfgVars, procVars, histVars
  <2>2. \A p \in Providers : epoch[p] <= epoch'[p] /\ epoch'[p] \in Nat
    <3>1. CASE Tick
      BY <1>0, <3>1 DEF Tick
    <3>2. ASSUME NEW q \in Providers, RotateKeys(q)
          PROVE  \A p \in Providers : epoch[p] <= epoch'[p] /\ epoch'[p] \in Nat
      <4>1. epoch' = [epoch EXCEPT ![q] = epoch[q] + 1]
        BY <3>2 DEF RotateKeys
      <4> QED
        BY <1>0, <4>1
    <3> QED
      BY <1>8, <3>1, <3>2 DEF Meanwhile
  <2>3. \A p \in Providers : hupEpoch'[p] <= epoch'[p] /\ 1 <= epoch'[p]
    BY <1>0, <1>1, <2>1, <2>2
  <2>4. Reloaded' = Reloaded
    BY <2>1 DEF Reloaded
  <2> QED
    BY <1>0, <1>1, <2>1, <2>3, <2>4 DEF EpochsOK
<1>9. CASE UNCHANGED serviceVars
  <2>1. UNCHANGED <<state, born, epoch, req, trusted, hupEpoch, watcher, hup, result>>
    BY <1>9 DEF serviceVars, vars, cfgVars, procVars, histVars
  <2> QED
    BY <1>0, <1>1, <2>1 DEF EpochsOK, Reloaded
<1> QED
  BY <1>2, <1>3, <1>4, <1>5, <1>6, <1>7, <1>8, <1>9 DEF ServiceNext

LEMMA ServiceInitInv == ServiceInit => ServiceInv
<1> SUFFICES ASSUME ServiceInit PROVE ServiceInv
  OBVIOUS
<1>1. AuthorizerInv
  BY InitInv, KeyInit, CountInit, AnswerInit DEF ServiceInit, AuthorizerInv
<1>2. D!IndInv
  BY ProcessAssumption, D!InitInv DEF ServiceInit
<1>3. /\ main = "readConfig" /\ watcher = "unborn" /\ result = "none"
      /\ \A w \in Workers : req[w].pc = "idle"
  BY DEF ServiceInit, Init, D!Init, NoRequest
<1>4. NoVersion \in D!Versions
  BY ServiceAssumption DEF NoVersion, D!Versions
<1>5. 1 \in Gens
  BY BoundAssumption DEF Gens
<1>6. LinkOK
  BY <1>3, <1>4, <1>5 DEF LinkOK, ServiceInit, Init, NoKeys, D!Serving
<1>7. ValidOK /\ PromisesOK
  BY <1>3 DEF ValidOK, PromisesOK, D!Serving
<1>8. EpochsOK
  BY <1>3 DEF EpochsOK, ServiceInit, Init, AnyEpoch, Reloaded
<1> QED
  BY <1>1, <1>2, <1>6, <1>7, <1>8 DEF ServiceInv

LEMMA ServiceStepInv ==
    ASSUME ServiceInv, [ServiceNext]_serviceVars
    PROVE  ServiceInv'
<1>1. AuthorizerInv /\ IndInv /\ D!IndInv /\ LinkOK /\ ValidOK /\ PromisesOK /\ EpochsOK
  BY DEF ServiceInv, AuthorizerInv
<1>2. AuthorizerInv' /\ D!IndInv'
  BY <1>1, AuthorizerKept, ProcessMoves, ProcessInv
<1>3. LinkOK' /\ ValidOK' /\ PromisesOK' /\ EpochsOK'
  BY <1>1, LinkStep, ValidStep, PromisesStep, EpochsStep
<1> QED
  BY <1>2, <1>3 DEF ServiceInv

-----------------------------------------------------------------------------
(* The theorems.                                                           *)

(* In the whole service the authorizer and the process keep what they keep *)
(* alone, the ruleset in use is the one the process believes to have       *)
(* installed, and every ruleset a request may still load meets what the    *)
(* request was promised when it arrived.                                   *)
THEOREM ServiceInvariance == ServiceSpec => []ServiceInv
BY ServiceInitInv, ServiceStepInv, PTL DEF ServiceSpec

(* A revocation takes effect, for any files, edits, signals, tokens and    *)
(* workers: once watchReloads has said that the config is reloaded, no     *)
(* request that arrives is granted by a ruleset made from files older than *)
(* the last SIGHUP.                                                        *)
THEOREM RevocationsTakeEffect == ServiceSpec => []RevocationTakesEffect
<1>1. ServiceInv => RevocationTakesEffect
  <2> SUFFICES ASSUME ServiceInv, NEW w \in Workers, Granted(w)
               PROVE  Meets(made[req[w].st], config[req[w].st], promised[w])
    BY DEF RevocationTakesEffect, Meets
  <2>1. req[w].st \in req[w].lo..state
    BY GrantExplained DEF ServiceInv, AuthorizerInv
  <2>2. PromiseKept(req[w], promised[w])
    BY DEF ServiceInv, PromisesOK, Granted
  <2> QED
    BY <2>1, <2>2 DEF PromiseKept
<1> QED
  BY <1>1, ServiceInvariance, PTL

(* Whatever the files hold and whenever they are read, every grant is that *)
(* of a configuration that was validated and whose discovery succeeded.    *)
THEOREM GrantsByValid == ServiceSpec => []GrantedByValid
<1>1. ServiceInv => GrantedByValid
  <2> SUFFICES ASSUME ServiceInv, NEW w \in Workers, Granted(w)
               PROVE  Valid(config[req[w].st]) /\ Explains(config[req[w].st], req[w])
    BY DEF GrantedByValid, Valid
  <2>1. /\ req[w].st \in req[w].lo..state /\ req[w].lo \in Nat /\ req[w].lo >= 1
        /\ state \in Nat /\ Explains(config[req[w].st], req[w])
    BY GrantExplained, StateFacts, RequestNumbers DEF ServiceInv, AuthorizerInv
  <2>2. req[w].st \in 1..state
    BY <2>1
  <2>3. Valid(config[req[w].st])
    BY <2>2 DEF ServiceInv, ValidOK, Granted
  <2> QED
    BY <2>1, <2>3
<1> QED
  BY <1>1, ServiceInvariance, PTL

(* A withdrawn key stops working, for any key schedule, signals, edits and *)
(* workers: a request that arrives once watchReloads has said that the     *)
(* config is reloaded is granted only with a key that its issuer published *)
(* at or after the last SIGHUP.                                            *)
THEOREM WithdrawnKeysAreRefused == ServiceSpec => []WithdrawnKeysRefused
<1>1. ServiceInv => WithdrawnKeysRefused
  <2> SUFFICES ASSUME ServiceInv, NEW w \in Workers, Granted(w)
               PROVE  LET tok == req[w].token
                          p == tok.iss
                      IN  \E e \in trusted[w][p]..Len(Published[p]) : tok.key \in Published[p][e]
    BY DEF WithdrawnKeysRefused
  <2> DEFINE r == req[w]
             p == r.token.iss
  <2>1. IndInv /\ KeyInv /\ EpochsOK
    BY DEF ServiceInv, AuthorizerInv
  <2>2. PICK e \in born[r.lo][p]..Len(Published[p]) : r.token.key \in Published[p][e]
    BY <2>1, KeysHold DEF ReloadForgetsKeys
  <2>3. p \in Providers
    <3>1. /\ ReqOK(r, clock, state, config) /\ config[r.st] \in Configs
          /\ At(r, {"fetch", "claims", "evaluate", "sign", "allow"})
      BY <2>1, StateFacts DEF Granted, At
    <3> QED
      BY <3>1, IssuerKnown DEF ReqOK, Vetted
  <2>4. trusted[w][p] <= born[r.lo][p]
    BY <2>1, <2>3 DEF EpochsOK, Granted
  <2>5. r.lo \in Gens /\ Len(Published[p]) \in Nat
    BY <2>1, <2>3, StateFacts, PublishedAssumption DEF Request
  <2>6. born[r.lo][p] \in Nat /\ trusted[w][p] \in Nat
    BY <2>1, <2>3, <2>5 DEF IndInv, TypeOK, EpochsOK
  <2>7. e \in trusted[w][p]..Len(Published[p])
    BY <2>2, <2>4, <2>5, <2>6
  <2> QED
    BY <2>2, <2>7
<1> QED
  BY <1>1, ServiceInvariance, PTL

(* What the authorizer promises of a grant and of its counters while its   *)
(* configurations are given, it also keeps inside the process that loads   *)
(* them: no mix of configurations, the expiry, the keys, the counters.     *)
THEOREM AuthorizerUnimpaired ==
    ServiceSpec => [](GrantFromOneConfig /\ GrantExpiry /\ ReloadForgetsKeys /\ DenialsAddUp)
<1>1. ServiceInv => GrantFromOneConfig
  BY GrantExplained DEF GrantFromOneConfig, ServiceInv, AuthorizerInv
<1>2. ServiceInv => GrantExpiry /\ ReloadForgetsKeys /\ DenialsAddUp
  BY ExpiryHolds, KeysHold DEF ServiceInv, AuthorizerInv, CountInv
<1> QED
  BY <1>1, <1>2, ServiceInvariance, PTL

-----------------------------------------------------------------------------
(* The refinement.                                                         *)

(* Steps that are not seen.                                                *)
LEMMA NotSeenOutside ==
    ASSUME UNCHANGED <<clock, state, config, made, req>>
    PROVE  UNCHANGED Whole!vars
BY DEF Whole!vars

(* What is asked and answered is seen of the service as of the authorizer. *)
LEMMA SeenOutside ==
    ASSUME ServiceInv, [Next]_vars, D!Serving, UNCHANGED <<clock, state, config, made>>
    PROVE  [Whole!Next]_(Whole!vars)
<1>1. made[1] # NotMade /\ state \in Nat /\ state > 0
  BY BoundAssumption DEF ServiceInv, LinkOK, AuthorizerInv, IndInv, TypeOK, Gens
<1>2. [Promise!Next]_(Promise!vars)
  BY Simulation DEF ServiceInv, AuthorizerInv
<1>3. ASSUME NEW w \in Workers, NEW t \in Tokens \cup {NoToken}, Promise!Ask(w, t)
      PROVE  Whole!Ask(w, t)
  BY <1>1, <1>3 DEF Promise!Ask, Whole!Ask, Promise!Unasked, Whole!Unasked, Promise!NoAnswer,
     Whole!NoAnswer
<1>4. ASSUME NEW w \in Workers, Promise!Answer(w)
      PROVE  Whole!Answer(w)
  BY <1>1, <1>4 DEF Promise!Answer, Whole!Answer
<1>5. \A c : ~Promise!Install(c)
  BY <1>1 DEF Promise!Install
<1>6. ~Promise!Tick
  <2>1. clock \in Int
    BY BoundAssumption DEF ServiceInv, AuthorizerInv, IndInv, TypeOK
  <2> QED
    BY <2>1 DEF Promise!Tick
<1>7. UNCHANGED Promise!vars => UNCHANGED Whole!vars
  BY DEF Promise!vars, Whole!vars
<1> QED
  BY <1>2, <1>3, <1>4, <1>5, <1>6, <1>7 DEF Promise!Next, Whole!Next

(* Every step of the service is a step of the promise, or not seen.        *)
LEMMA ServiceSimulation ==
    ASSUME ServiceInv, [ServiceNext]_serviceVars
    PROVE  [Whole!Next]_(Whole!vars)
<1>0. /\ IndInv /\ D!IndInv /\ LinkOK
      /\ state \in Gens /\ state \in Nat /\ 1 \in Gens /\ state >= 1 /\ MaxGens \in Nat
      /\ made \in [Gens -> D!Versions \cup {NotMade}]
  <2>1. IndInv /\ D!IndInv /\ LinkOK
    BY DEF ServiceInv, AuthorizerInv
  <2>2. state \in Gens /\ made \in [Gens -> D!Versions \cup {NotMade}]
    BY <2>1 DEF IndInv, TypeOK, LinkOK
  <2> QED
    BY <2>1, <2>2, BoundAssumption DEF Gens
<1>1. ASSUME main = "serve" \/ watcher = "swap"
      PROVE  loading.cfg \in Loadable /\ loading.ver \in D!Versions
  BY <1>0, <1>1, LoadedValid DEF Loadable, Valid, D!IndInv, D!TypeOK
<1>2. CASE StartAuthorizer
  <2>1. /\ main = "serve" /\ config' = [config EXCEPT ![1] = loading.cfg]
        /\ made' = [made EXCEPT ![1] = loading.ver] /\ UNCHANGED <<clock, state, req>>
    BY <1>2 DEF StartAuthorizer, D!MainServes
  <2>2. state = 1 /\ made[1] = NotMade
    BY <1>0, <2>1 DEF LinkOK, Before, D!Starting
  <2>3. made'[1] # NotMade
    BY <1>0, <1>1, <2>1, MadeIsNot
  <2>4. 0 < MaxGens
    BY BoundAssumption
  <2>5. Whole!Install(loading.cfg)
    BY <2>1, <2>2, <2>3, <2>4 DEF Whole!Install
  <2> QED
    BY <1>1, <2>1, <2>5 DEF Whole!Next
<1>3. CASE InstallRuleset
  <2>1. /\ watcher = "swap" /\ config' = [config EXCEPT ![state + 1] = loading.cfg]
        /\ made' = [made EXCEPT ![state + 1] = loading.ver] /\ UNCHANGED <<clock, req>>
        /\ state' = state + 1 /\ state < MaxGens
    BY <1>3 DEF InstallRuleset, D!Swap, Reload
  <2>2. made'[1] = made[1]
    BY <1>0, <2>1
  <2>3. made[1] # NotMade
    BY <1>0, <1>3, SwapServes DEF InstallRuleset, LinkOK
  <2>4. Whole!Install(loading.cfg)
    BY <2>1, <2>2, <2>3 DEF Whole!Install
  <2> QED
    BY <1>1, <2>1, <2>4 DEF Whole!Next
<1>4. CASE \E w \in Workers, t \in Tokens \cup {NoToken} : RequestArrives(w, t)
  <2>1. [Next]_vars /\ D!Serving /\ UNCHANGED <<clock, state, config, made>>
    BY <1>4 DEF RequestArrives, Receive, Next, cfgVars
  <2> QED
    BY <2>1, SeenOutside
<1>5. CASE RequestStep
  <2>1. [Next]_vars /\ D!Serving /\ UNCHANGED made
    BY <1>5 DEF RequestStep, Next, histVars
  <2>2. UNCHANGED <<clock, state, config>>
    BY <1>5, AuthorizeAlone DEF RequestStep, KeysArrive, KeysFail, cfgVars
  <2> QED
    BY <2>1, <2>2, SeenOutside
<1>6. CASE Meanwhile
  <2>1. CASE Tick
    <3>1. clock' = clock + 1 /\ UNCHANGED <<state, config, req, made>>
      BY <1>6, <2>1 DEF Tick, cfgVars, Meanwhile, histVars
    <3> QED
      BY <3>1 DEF Whole!Next, Whole!Tick
  <2>2. CASE \E p \in Providers : RotateKeys(p)
    <3>1. UNCHANGED <<clock, state, config, made, req>>
      BY <1>6, <2>2 DEF RotateKeys, cfgVars, Meanwhile, histVars
    <3> QED
      BY <3>1, NotSeenOutside
  <2> QED
    BY <1>6, <2>1, <2>2 DEF Meanwhile
<1>7. CASE ProcessStep \/ Hangup \/ UNCHANGED serviceVars
  <2>1. UNCHANGED <<clock, state, config, made, req>>
    BY <1>7 DEF ProcessStep, Hangup, serviceVars, vars, cfgVars, histVars
  <2> QED
    BY <2>1, NotSeenOutside
<1> QED
  BY <1>2, <1>3, <1>4, <1>5, <1>6, <1>7 DEF ServiceNext

(* The whole service implements the promise of Authorization, for any      *)
(* files, edits, signals, tokens, workers and key schedule: the answer to  *)
(* every request is the one of a single configuration that the files gave, *)
(* that loads and whose discovery succeeded, and that was in use while the *)
(* request was pending.                                                    *)
THEOREM ServiceRefinement == ServiceSpec => ServiceKeepsPromise
<1>1. ServiceInit => Whole!Init
  <2> SUFFICES ASSUME ServiceInit PROVE Whole!Init
    OBVIOUS
  <2>1. Promise!Init /\ 1 \in Gens
    BY PromiseInit, BoundAssumption DEF ServiceInit, Gens
  <2>2. made[1] = NotMade
    BY <2>1 DEF ServiceInit
  <2> QED
    BY <2>1, <2>2 DEF Promise!Init, Whole!Init, Promise!Unasked, Whole!Unasked, Promise!NoAnswer,
       Whole!NoAnswer
<1>2. ServiceInv /\ [ServiceNext]_serviceVars => [Whole!Next]_(Whole!vars)
  BY ServiceSimulation
<1> QED
  BY <1>1, <1>2, ServiceInvariance, PTL DEF ServiceSpec, ServiceKeepsPromise, Whole!Spec
=============================================================================
