---------------------------- MODULE DaemonProofs ----------------------------
(***************************************************************************)
(* Proofs about the process: run and watchReloads, for any contents of the *)
(* two files, any edits and any number of signals.                         *)
(***************************************************************************)
EXTENDS Daemon, TLAPS

-----------------------------------------------------------------------------
(* The inductive invariant.                                                *)

(* run and watchReloads never load at the same time: the goroutine is not  *)
(* started before run has finished with what it loaded.                    *)
Starting == {"readConfig", "readPolicy", "seeds", "notify", "discover", "listen",
             "connect", "serve", "spawn"}

OneLoads ==
    /\ main \in Starting => watcher = "unborn"
    /\ watcher \in {"unborn", "register"} => result = "none"

(* What is known of a configuration at each step of its load and use.      *)
LoadingOK ==
    /\ main = "readPolicy" \/ watcher = "readPolicy" => loading.cfg \in Parsed
    /\ \/ main \in {"seeds", "notify", "discover", "listen", "connect", "serve"}
       \/ watcher \in {"warn", "discover", "swap"}
       => Validate(loading.cfg)
    /\ main \in {"listen", "connect", "serve"} \/ watcher = "swap" => VerifierValid(loading.cfg)

(* A version v of the files, with config c, is no older than the last      *)
(* SIGHUP.                                                                 *)
UpToDate(v, c) == v.cfg >= asked.cfg /\ (c.policyFile # "" => v.pol >= asked.pol)

(* A signal that no load has answered is in the channel or has just been   *)
(* taken from it; with none in the channel, a load that has begun, or has  *)
(* been installed, is no older than the last signal.                       *)
SignalsOK ==
    /\ asked.cfg <= ver.cfg /\ asked.pol <= ver.pol
    /\ owed => hup = 1 \/ watcher = "readConfig"
    /\ hup = 0 =>
        /\ watcher = "readPolicy" => loading.ver.cfg >= asked.cfg
        /\ watcher \in {"warn", "discover", "swap"} => UpToDate(loading.ver, loading.cfg)
        /\ watcher = "select" /\ result = "ok" => UpToDate(installed.ver, installed.cfg)

(* Every setting that has drifted from those in use was warned of when it  *)
(* was loaded, before it was installed.                                    *)
WarningsOK ==
    /\ current = Unreloadable(installed.cfg)
    /\ Changed(running, current) \subseteq everWarned
    /\ watcher \in {"discover", "swap"} =>
        Changed(current, Unreloadable(loading.cfg)) \subseteq everWarned

IndInv == TypeOK /\ OneLoads /\ LoadingOK /\ ServesOnlyValid /\ SignalsOK /\ WarningsOK

-----------------------------------------------------------------------------
(* Facts about the operators.                                              *)

(* The policy file named by a config file survives the policy it brings    *)
(* and the defaults.                                                       *)
LEMMA PolicyFileKept ==
    ASSUME NEW c \in Parsed, NEW p
    PROVE  Defaulted(WithPolicy(c, p)).policyFile = c.policyFile
<1>1. DOMAIN c = Fields
  BY DaemonAssumption DEF Parsed
<1>2. /\ DOMAIN WithPolicy(c, p) = Fields
      /\ WithPolicy(c, p).policyFile = c.policyFile
  BY <1>1 DEF WithPolicy, Fields
<1>3. ASSUME NEW d, DOMAIN d = Fields PROVE Defaulted(d).policyFile = d.policyFile
  BY <1>3 DEF Defaulted, Fields
<1> QED
  BY <1>2, <1>3

(* What differs between the first and the last of three settings differs   *)
(* at one of the two steps.                                                *)
LEMMA ChangedTriangle ==
    ASSUME NEW a \in Settings, NEW b \in Settings, NEW c \in Settings
    PROVE  Changed(a, c) \subseteq Changed(a, b) \cup Changed(b, c)
<1>1. DOMAIN a = Groups /\ DOMAIN b = Groups
  BY DEF Settings, Unreloadable, Groups
<1> QED
  BY <1>1 DEF Changed

LEMMA ChangedType ==
    ASSUME NEW a \in Settings, NEW b
    PROVE  Changed(a, b) \subseteq Groups /\ Changed(a, a) = {}
<1>1. DOMAIN a = Groups
  BY DEF Settings, Unreloadable, Groups
<1> QED
  BY <1>1 DEF Changed

(* The step of run that follows each.                                      *)
LEMMA ProceedsTo ==
    ASSUME MainProceeds
    PROVE  \/ main = "seeds" /\ main' = "notify"
           \/ main = "notify" /\ main' = "discover"
           \/ main = "discover" /\ main' = "listen" /\ VerifierValid(loading.cfg)
           \/ main = "listen" /\ main' = "connect"
           \/ main = "connect" /\ main' = "serve"
           \/ main = "started" /\ main' = "wait"
BY DEF MainProceeds, After, Doomed

(* The steps of run that can fail come before it serves or waits.          *)
LEMMA FailsAt ==
    ASSUME MainFails
    PROVE  main \in {"seeds", "discover", "listen", "connect", "serve"} /\ main' = "exited"
BY DEF MainFails, Doomed, Fallible

(* What a load makes of the files.                                         *)
LEMMA ReadConfigLoads ==
    ASSUME TypeOK, ReadConfig
    PROVE  /\ loading' \in [cfg : Loaded, ver : Versions]
           /\ loading'.cfg = file.cfg.cfg /\ loading'.cfg \in Parsed
           /\ loading'.ver.cfg = ver.cfg
<1>0. /\ loading \in [cfg : Loaded, ver : Versions] /\ file.cfg \in ConfigFiles
      /\ ver.cfg \in 0..MaxEdits
  BY DEF TypeOK, Versions
<1>1. file.cfg.cfg \in Parsed /\ file.cfg.cfg \in Loaded
  BY <1>0 DEF Parsed, Loaded
<1> DEFINE n == ver.cfg
           c == file.cfg.cfg
<1>2. loading' = [loading EXCEPT !.cfg = c, !.ver.cfg = n]
  BY DEF ReadConfig
<1>3. loading.ver \in Versions
  BY <1>0
<1>4. c \in Loaded /\ n \in 0..MaxEdits
  BY <1>0, <1>1
<1> HIDE DEF n, c
<1>5. [loading.ver EXCEPT !.cfg = n] \in Versions /\ [loading.ver EXCEPT !.cfg = n].cfg = n
  BY <1>3, <1>4 DEF Versions
<1>6. loading'.ver = [loading.ver EXCEPT !.cfg = n] /\ loading'.cfg = c
      /\ loading' = [cfg |-> c, ver |-> [loading.ver EXCEPT !.cfg = n]]
  BY <1>0, <1>2
<1> QED
  BY <1>1, <1>4, <1>5, <1>6 DEF n, c

LEMMA ReadPolicyLoads ==
    ASSUME TypeOK, ReadPolicy, loading.cfg \in Parsed
    PROVE  /\ loading' \in [cfg : Loaded, ver : Versions]
           /\ loading'.cfg = Defaulted(WithPolicy(loading.cfg, file.pol))
           /\ loading'.cfg.policyFile = loading.cfg.policyFile
           /\ loading'.ver.cfg = loading.ver.cfg
           /\ loading.cfg.policyFile # "" => loading'.ver.pol = ver.pol
<1>0. /\ loading \in [cfg : Loaded, ver : Versions] /\ file.pol \in PolicyFiles
      /\ ver.pol \in 0..MaxEdits
  BY DEF TypeOK, Versions
<1> DEFINE c == Defaulted(WithPolicy(loading.cfg, file.pol))
           n == IF loading.cfg.policyFile # "" THEN ver.pol ELSE loading.ver.pol
<1>1. c \in Loaded
  BY <1>0 DEF Loaded
<1>2. c.policyFile = loading.cfg.policyFile
  BY PolicyFileKept
<1>3. loading.ver \in Versions
  BY <1>0
<1>4. n \in 0..MaxEdits
  BY <1>0, <1>3 DEF Versions
<1>5. loading' = [loading EXCEPT !.cfg = c, !.ver.pol = n]
  BY DEF ReadPolicy
<1>6. loading.cfg.policyFile # "" => n = ver.pol
  OBVIOUS
<1> HIDE DEF n, c
<1>7. /\ [loading.ver EXCEPT !.pol = n] \in Versions /\ [loading.ver EXCEPT !.pol = n].pol = n
      /\ [loading.ver EXCEPT !.pol = n].cfg = loading.ver.cfg
  BY <1>3, <1>4 DEF Versions
<1>8. loading'.ver = [loading.ver EXCEPT !.pol = n] /\ loading'.cfg = c
      /\ loading' = [cfg |-> c, ver |-> [loading.ver EXCEPT !.pol = n]]
  BY <1>0, <1>5
<1>9. loading' \in [cfg : Loaded, ver : Versions]
  BY <1>1, <1>7, <1>8
<1> QED
  BY <1>2, <1>6, <1>7, <1>8, <1>9 DEF c

-----------------------------------------------------------------------------
(* Each step keeps each part.                                              *)

LEMMA TypeStep ==
    ASSUME IndInv, [Next]_vars
    PROVE  TypeOK'
<1> USE DEF diskVars, loadVars, sigVars
<1>0. TypeOK /\ OneLoads /\ LoadingOK
  BY DEF IndInv
<1>1. CASE MainReadConfig
  <2>1. loading' \in [cfg : Loaded, ver : Versions]
    BY <1>0, <1>1, ReadConfigLoads DEF MainReadConfig
  <2> QED
    BY <1>0, <1>1, <2>1 DEF TypeOK, MainReadConfig
<1>2. CASE MainReadPolicy
  <2>1. loading' \in [cfg : Loaded, ver : Versions]
    BY <1>0, <1>2, ReadPolicyLoads DEF MainReadPolicy, LoadingOK
  <2> QED
    BY <1>0, <1>2, <2>1 DEF TypeOK, MainReadPolicy
<1>3. CASE MainProceeds
  BY <1>0, <1>3, ProceedsTo DEF TypeOK, MainProceeds
<1>4. CASE MainFails
  BY <1>0, <1>4 DEF TypeOK, MainFails
<1>5. CASE MainServes
  <2>1. Unreloadable(loading.cfg) \in Settings
    BY <1>0 DEF TypeOK, Settings
  <2> QED
    BY <1>0, <1>5, <2>1 DEF TypeOK, MainServes
<1>6. CASE MainSpawns \/ MainExits
  BY <1>0, <1>6 DEF TypeOK, MainSpawns, MainExits
<1>7. CASE Register \/ SelectDone \/ SelectHup
  BY <1>0, <1>7 DEF TypeOK, Register, SelectDone, SelectHup
<1>8. CASE ReloadReadConfig
  <2>1. loading' \in [cfg : Loaded, ver : Versions]
    BY <1>0, <1>8, ReadConfigLoads DEF ReloadReadConfig
  <2> QED
    BY <1>0, <1>8, <2>1 DEF TypeOK, ReloadReadConfig, GiveUp
<1>9. CASE ReloadReadPolicy
  <2>1. loading' \in [cfg : Loaded, ver : Versions]
    BY <1>0, <1>9, ReadPolicyLoads DEF ReloadReadPolicy, LoadingOK
  <2> QED
    BY <1>0, <1>9, <2>1 DEF TypeOK, ReloadReadPolicy, GiveUp
<1>10. CASE Warn
  <2>1. Warnings \subseteq Groups
    BY <1>0, ChangedType DEF TypeOK, Warnings
  <2> QED
    BY <1>0, <1>10, <2>1 DEF TypeOK, Warn
<1>11. CASE Discover
  BY <1>0, <1>11 DEF TypeOK, Discover, GiveUp
<1>12. CASE Swap
  <2>1. Unreloadable(loading.cfg) \in Settings
    BY <1>0 DEF TypeOK, Settings
  <2> QED
    BY <1>0, <1>12, <2>1 DEF TypeOK, Swap
<1>13. ASSUME NEW c \in ConfigFiles, EditConfig(c)
       PROVE  TypeOK'
  <2> DEFINE n == ver.cfg + 1
  <2>1. ver \in Versions /\ n \in 0..MaxEdits
    BY <1>0, <1>13, DaemonAssumption DEF TypeOK, Versions, EditConfig
  <2>2. ver' = [ver EXCEPT !.cfg = n]
    BY <1>13 DEF EditConfig
  <2> HIDE DEF n
  <2>3. ver' \in Versions
    BY <2>1, <2>2 DEF Versions
  <2> QED
    BY <1>0, <1>13, <2>3 DEF TypeOK, EditConfig
<1>14. ASSUME NEW p \in PolicyFiles, EditPolicy(p)
       PROVE  TypeOK'
  <2> DEFINE n == ver.pol + 1
  <2>1. ver \in Versions /\ n \in 0..MaxEdits
    BY <1>0, <1>14, DaemonAssumption DEF TypeOK, Versions, EditPolicy
  <2>2. ver' = [ver EXCEPT !.pol = n]
    BY <1>14 DEF EditPolicy
  <2> HIDE DEF n
  <2>3. ver' \in Versions
    BY <2>1, <2>2 DEF Versions
  <2> QED
    BY <1>0, <1>14, <2>3 DEF TypeOK, EditPolicy
<1>15. CASE SigHup
  <2>1. hups' \in 0..MaxHups /\ hup' \in 0..1
    BY <1>0, <1>15, DaemonAssumption DEF TypeOK, SigHup, Deliver
  <2> QED
    <3>1. asked' \in Versions /\ owed' \in BOOLEAN /\ main' \in {main, "killed"}
      BY <1>0, <1>15 DEF TypeOK, SigHup
    <3>2. UNCHANGED <<diskVars, ctx, watcher, loading, loadVars>>
      BY <1>15 DEF SigHup
    <3> QED
      BY <1>0, <2>1, <3>1, <3>2 DEF TypeOK
<1>16. CASE SigTerm
  BY <1>0, <1>16 DEF TypeOK, SigTerm
<1>17. CASE UNCHANGED vars
  BY <1>0, <1>17 DEF TypeOK, vars
<1> QED
  BY <1>1, <1>2, <1>3, <1>4, <1>5, <1>6, <1>7, <1>8, <1>9, <1>10, <1>11, <1>12, <1>13, <1>14,
     <1>15, <1>16, <1>17 DEF Next, MainStep, WatcherStep, Stopped

LEMMA LoadsStep ==
    ASSUME IndInv, [Next]_vars
    PROVE  OneLoads'
<1> USE DEF diskVars, loadVars, sigVars, IndInv
<1>0. main \in Starting => watcher = "unborn"
  BY DEF OneLoads
<1>1. CASE MainReadConfig \/ MainReadPolicy
  BY <1>0, <1>1 DEF OneLoads, Starting, MainReadConfig, MainReadPolicy
<1>2. CASE MainProceeds \/ MainFails
  BY <1>0, <1>2, ProceedsTo, FailsAt DEF OneLoads, Starting, MainProceeds, MainFails
<1>3. CASE MainServes \/ MainSpawns \/ MainExits
  BY <1>0, <1>3 DEF OneLoads, Starting, MainServes, MainSpawns, MainExits
<1>4. CASE WatcherStep
  <2>1. main' = main /\ watcher # "unborn" /\ watcher' \notin {"unborn", "register"}
    BY <1>4 DEF WatcherStep, Register, SelectDone, SelectHup, ReloadReadConfig,
                ReloadReadPolicy, Warn, Discover, Swap, GiveUp
  <2> QED
    BY <1>0, <2>1 DEF OneLoads
<1>5. CASE (\E c \in ConfigFiles : EditConfig(c)) \/ (\E p \in PolicyFiles : EditPolicy(p))
  BY <1>0, <1>5 DEF OneLoads, EditConfig, EditPolicy
<1>6. CASE SigHup \/ SigTerm
  BY <1>0, <1>6 DEF OneLoads, Starting, SigHup, SigTerm
<1>7. CASE UNCHANGED vars
  BY <1>0, <1>7 DEF OneLoads, vars
<1> QED
  BY <1>1, <1>2, <1>3, <1>4, <1>5, <1>6, <1>7 DEF Next, MainStep, Stopped

LEMMA LoadingStep ==
    ASSUME IndInv, [Next]_vars
    PROVE  LoadingOK' /\ ServesOnlyValid'
<1> USE DEF diskVars, loadVars, sigVars
<1>0. TypeOK /\ OneLoads /\ LoadingOK /\ ServesOnlyValid
  BY DEF IndInv
<1>1. CASE MainReadConfig
  <2>1. watcher = "unborn" /\ watcher' = "unborn" /\ loading'.cfg \in Parsed
    BY <1>0, <1>1, ReadConfigLoads DEF OneLoads, Starting, MainReadConfig
  <2>2. main' \in {"readPolicy", "exited"}
    BY <1>1 DEF MainReadConfig
  <2> QED
    BY <2>1, <2>2 DEF LoadingOK, ServesOnlyValid, Serving
<1>2. CASE MainReadPolicy
  <2>1. watcher' = "unborn" /\ loading.cfg \in Parsed
    BY <1>0, <1>2 DEF OneLoads, Starting, MainReadPolicy, LoadingOK
  <2>2. loading'.cfg = Defaulted(WithPolicy(loading.cfg, file.pol))
    BY <1>0, <1>2, <2>1, ReadPolicyLoads DEF MainReadPolicy
  <2>3. main' = "exited" \/ (main' = "seeds" /\ Validate(loading'.cfg))
    BY <1>2, <2>2 DEF MainReadPolicy, LoadOK
  <2> QED
    BY <2>1, <2>3 DEF LoadingOK, ServesOnlyValid, Serving
<1>3. CASE MainProceeds
  <2>1. UNCHANGED <<watcher, loading, installed>>
    BY <1>3 DEF MainProceeds
  <2> QED
    BY <1>0, <1>3, <2>1, ProceedsTo DEF LoadingOK, ServesOnlyValid, Serving
<1>4. CASE MainFails \/ MainExits \/ SigHup \/ SigTerm
  <2>1. UNCHANGED <<watcher, loading, installed>> /\ main' \in {main, "exited", "killed"}
    BY <1>4 DEF MainFails, MainExits, SigHup, SigTerm
  <2> QED
    BY <1>0, <2>1 DEF LoadingOK, ServesOnlyValid, Serving
<1>5. CASE MainServes
  <2>1. /\ main = "serve" /\ main' = "spawn" /\ UNCHANGED <<watcher, loading>>
        /\ installed' = loading
    BY <1>5 DEF MainServes
  <2> QED
    BY <1>0, <2>1 DEF LoadingOK, ServesOnlyValid, Serving
<1>6. CASE MainSpawns
  <2>1. /\ main = "spawn" /\ main' = "started" /\ watcher' = "register"
        /\ UNCHANGED <<loading, installed>>
    BY <1>6 DEF MainSpawns
  <2> QED
    BY <1>0, <2>1 DEF LoadingOK, ServesOnlyValid, Serving
<1>7. CASE Register \/ SelectDone \/ SelectHup
  <2>1. UNCHANGED <<main, loading, installed>> /\ watcher' \in {"select", "returned", "readConfig"}
    BY <1>7 DEF Register, SelectDone, SelectHup
  <2> QED
    BY <1>0, <2>1 DEF LoadingOK, ServesOnlyValid, Serving
<1>8. CASE ReloadReadConfig
  <2>1. /\ UNCHANGED <<main, installed>> /\ watcher = "readConfig"
        /\ watcher' \in {"readPolicy", "select"} /\ loading'.cfg \in Parsed
    BY <1>0, <1>8, ReadConfigLoads DEF ReloadReadConfig, GiveUp
  <2>2. main \notin Starting
    BY <1>0, <2>1 DEF OneLoads
  <2> QED
    BY <1>0, <2>1, <2>2 DEF LoadingOK, ServesOnlyValid, Serving, Starting
<1>9. CASE ReloadReadPolicy
  <2>1. UNCHANGED <<main, installed>> /\ watcher = "readPolicy" /\ loading.cfg \in Parsed
    BY <1>0, <1>9 DEF ReloadReadPolicy, LoadingOK
  <2>2. loading'.cfg = Defaulted(WithPolicy(loading.cfg, file.pol))
    BY <1>0, <1>9, <2>1, ReadPolicyLoads DEF ReloadReadPolicy
  <2>3. watcher' = "select" \/ (watcher' = "warn" /\ Validate(loading'.cfg))
    BY <1>9, <2>2 DEF ReloadReadPolicy, GiveUp, LoadOK
  <2>4. main \notin Starting
    BY <1>0, <2>1 DEF OneLoads
  <2> QED
    BY <1>0, <2>1, <2>3, <2>4 DEF LoadingOK, ServesOnlyValid, Serving, Starting
<1>10. CASE Warn
  <2>1. UNCHANGED <<main, loading, installed>> /\ watcher = "warn" /\ watcher' = "discover"
    BY <1>10 DEF Warn
  <2> QED
    BY <1>0, <2>1 DEF LoadingOK, ServesOnlyValid, Serving
<1>11. CASE Discover
  <2>1. /\ UNCHANGED <<main, loading, installed>> /\ watcher = "discover"
        /\ watcher' = "select" \/ (watcher' = "swap" /\ VerifierValid(loading.cfg))
    BY <1>11 DEF Discover, GiveUp, Doomed
  <2> QED
    BY <1>0, <2>1 DEF LoadingOK, ServesOnlyValid, Serving
<1>12. CASE Swap
  <2>1. /\ UNCHANGED <<main, loading>> /\ watcher = "swap" /\ watcher' = "select"
        /\ installed' = loading
    BY <1>12 DEF Swap
  <2> QED
    BY <1>0, <2>1 DEF LoadingOK, ServesOnlyValid, Serving
<1>13. CASE (\E c \in ConfigFiles : EditConfig(c)) \/ (\E p \in PolicyFiles : EditPolicy(p))
  BY <1>0, <1>13 DEF LoadingOK, ServesOnlyValid, Serving, EditConfig, EditPolicy
<1>14. CASE UNCHANGED vars
  BY <1>0, <1>14 DEF LoadingOK, ServesOnlyValid, Serving, vars
<1> QED
  BY <1>1, <1>2, <1>3, <1>4, <1>5, <1>6, <1>7, <1>8, <1>9, <1>10, <1>11, <1>12, <1>13, <1>14
  DEF Next, MainStep, WatcherStep, Stopped

LEMMA SignalsStep ==
    ASSUME IndInv, [Next]_vars
    PROVE  SignalsOK'
<1> USE DEF diskVars, loadVars, sigVars
<1>0. TypeOK /\ OneLoads /\ LoadingOK /\ SignalsOK
  BY DEF IndInv
<1>1. /\ ver.cfg \in Int /\ ver.pol \in Int /\ asked.cfg \in Int /\ asked.pol \in Int
      /\ ver \in Versions
  BY <1>0 DEF TypeOK, Versions
<1>2. CASE MainReadConfig \/ MainReadPolicy
  <2>1. UNCHANGED <<ver, asked, owed, hup, watcher>> /\ watcher = "unborn"
    BY <1>0, <1>2 DEF OneLoads, Starting, MainReadConfig, MainReadPolicy
  <2> QED
    BY <1>0, <2>1 DEF SignalsOK
<1>3. CASE MainProceeds \/ MainFails \/ MainExits \/ SigTerm \/ UNCHANGED vars
  <2>1. UNCHANGED <<ver, asked, owed, hup, watcher, loading, installed, result>>
    BY <1>3 DEF MainProceeds, MainFails, MainExits, SigTerm, vars
  <2> QED
    BY <1>0, <2>1 DEF SignalsOK, UpToDate
<1>4. CASE MainServes \/ MainSpawns
  <2>1. UNCHANGED <<ver, asked, owed, hup>> /\ watcher' \in {"unborn", "register"}
        /\ watcher = "unborn"
    BY <1>0, <1>4 DEF OneLoads, Starting, MainServes, MainSpawns
  <2> QED
    BY <1>0, <2>1 DEF SignalsOK
<1>5. CASE Register
  <2>1. /\ UNCHANGED <<ver, asked, owed, hup, loading, installed, result>>
        /\ watcher = "register" /\ watcher' = "select" /\ result = "none"
    BY <1>0, <1>5 DEF Register, OneLoads
  <2> QED
    BY <1>0, <2>1 DEF SignalsOK
<1>6. CASE SelectDone
  <2>1. UNCHANGED <<ver, asked, owed, hup>> /\ watcher = "select" /\ watcher' = "returned"
    BY <1>6 DEF SelectDone
  <2> QED
    BY <1>0, <2>1 DEF SignalsOK
<1>7. CASE SelectHup
  <2>1. UNCHANGED <<ver, asked, owed>> /\ hup' = 0 /\ watcher' = "readConfig"
    BY <1>7 DEF SelectHup
  <2> QED
    BY <1>0, <2>1 DEF SignalsOK
<1>8. CASE ReloadReadConfig
  <2>1. /\ UNCHANGED <<ver, asked, hup>> /\ owed' = FALSE
        /\ loading'.ver.cfg = ver.cfg
        /\ watcher' = "readPolicy" \/ (watcher' = "select" /\ result' = "failed")
    BY <1>0, <1>8, ReadConfigLoads DEF ReloadReadConfig, GiveUp
  <2> QED
    BY <1>0, <1>1, <2>1 DEF SignalsOK
<1>9. CASE ReloadReadPolicy
  <2>1. /\ UNCHANGED <<ver, asked, hup, owed>> /\ watcher = "readPolicy"
        /\ watcher' = "warn" \/ (watcher' = "select" /\ result' = "failed")
    BY <1>9 DEF ReloadReadPolicy, GiveUp
  <2>2. /\ loading'.ver.cfg = loading.ver.cfg
        /\ loading'.cfg.policyFile # "" => loading'.ver.pol = ver.pol
    BY <1>0, <1>9, ReadPolicyLoads DEF ReloadReadPolicy, LoadingOK
  <2>3. hup = 0 => UpToDate(loading.ver, loading.cfg)'
    BY <1>0, <1>1, <2>1, <2>2 DEF SignalsOK, UpToDate
  <2> QED
    BY <1>0, <2>1, <2>3 DEF SignalsOK
<1>10. CASE Warn \/ Discover
  <2>1. /\ UNCHANGED <<ver, asked, hup, owed, loading>> /\ watcher \in {"warn", "discover"}
        /\ \/ watcher' \in {"discover", "swap"}
           \/ watcher' = "select" /\ result' = "failed"
    BY <1>10 DEF Warn, Discover, GiveUp
  <2> QED
    BY <1>0, <2>1 DEF SignalsOK, UpToDate
<1>11. CASE Swap
  <2>1. /\ UNCHANGED <<ver, asked, hup, owed, loading>> /\ watcher = "swap"
        /\ watcher' = "select" /\ installed' = loading
    BY <1>11 DEF Swap
  <2> QED
    BY <1>0, <2>1 DEF SignalsOK, UpToDate
<1>12. ASSUME NEW n \in Int,
              \/ ver' = [ver EXCEPT !.cfg = n] /\ n >= ver.cfg
              \/ ver' = [ver EXCEPT !.pol = n] /\ n >= ver.pol,
              UNCHANGED <<asked, owed, hup, watcher, loading, installed, result>>
       PROVE  SignalsOK'
  <2>1. asked.cfg <= ver'.cfg /\ asked.pol <= ver'.pol
    <3>1. ver'.cfg \in Int /\ ver'.pol \in Int /\ ver'.cfg >= ver.cfg /\ ver'.pol >= ver.pol
      BY <1>1, <1>12 DEF Versions
    <3> QED
      BY <1>0, <1>1, <3>1 DEF SignalsOK
  <2> QED
    BY <1>0, <1>12, <2>1 DEF SignalsOK, UpToDate
<1>13. CASE (\E c \in ConfigFiles : EditConfig(c)) \/ (\E p \in PolicyFiles : EditPolicy(p))
  <2>1. CASE \E c \in ConfigFiles : EditConfig(c)
    <3> DEFINE n == ver.cfg + 1
    <3>1. /\ ver' = [ver EXCEPT !.cfg = n] /\ n \in Int /\ n >= ver.cfg
          /\ UNCHANGED <<asked, owed, hup, watcher, loading, installed, result>>
      BY <1>1, <2>1 DEF EditConfig
    <3> HIDE DEF n
    <3> QED
      BY <1>12, <3>1
  <2>2. CASE \E p \in PolicyFiles : EditPolicy(p)
    <3> DEFINE n == ver.pol + 1
    <3>1. /\ ver' = [ver EXCEPT !.pol = n] /\ n \in Int /\ n >= ver.pol
          /\ UNCHANGED <<asked, owed, hup, watcher, loading, installed, result>>
      BY <1>1, <2>2 DEF EditPolicy
    <3> HIDE DEF n
    <3> QED
      BY <1>12, <3>1
  <2> QED
    BY <1>13, <2>1, <2>2
<1>14. CASE SigHup
  <2>1. UNCHANGED <<ver, watcher, loading, installed, result>> /\ asked' = ver
    BY <1>14 DEF SigHup
  <2>2. \/ hup' = 1
        \/ UNCHANGED <<hup, owed>> /\ watcher \in {"unborn", "register", "returned"}
    BY <1>0, <1>14 DEF SigHup, Registered, Deliver, TypeOK
  <2> QED
    BY <1>0, <1>1, <2>1, <2>2 DEF SignalsOK
<1> QED
  BY <1>2, <1>3, <1>4, <1>5, <1>6, <1>7, <1>8, <1>9, <1>10, <1>11, <1>13, <1>14
  DEF Next, MainStep, WatcherStep, Stopped

LEMMA WarningsStep ==
    ASSUME IndInv, [Next]_vars
    PROVE  WarningsOK'
<1> USE DEF diskVars, loadVars, sigVars
<1>0. TypeOK /\ OneLoads /\ WarningsOK
  BY DEF IndInv
<1>1. CASE MainReadConfig \/ MainReadPolicy
  <2>1. UNCHANGED <<current, installed, running, everWarned>> /\ watcher' = "unborn"
    BY <1>0, <1>1 DEF OneLoads, Starting, MainReadConfig, MainReadPolicy
  <2> QED
    BY <1>0, <2>1 DEF WarningsOK
<1>2. CASE \/ MainProceeds \/ MainFails \/ MainExits \/ SigTerm \/ SigHup \/ UNCHANGED vars
           \/ (\E c \in ConfigFiles : EditConfig(c)) \/ (\E p \in PolicyFiles : EditPolicy(p))
  <2>1. UNCHANGED <<current, installed, running, everWarned, watcher, loading>>
    BY <1>2 DEF MainProceeds, MainFails, MainExits, SigTerm, SigHup, EditConfig, EditPolicy, vars
  <2> QED
    BY <1>0, <2>1 DEF WarningsOK
<1>3. CASE MainServes
  <2>1. /\ running' = Unreloadable(loading.cfg) /\ current' = Unreloadable(loading.cfg)
        /\ installed' = loading /\ UNCHANGED <<watcher, everWarned>> /\ watcher = "unborn"
    BY <1>0, <1>3 DEF OneLoads, Starting, MainServes
  <2>2. Changed(running', current') = {}
    <3>1. Unreloadable(loading.cfg) \in Settings
      BY <1>0 DEF TypeOK, Settings
    <3> QED
      BY <2>1, <3>1, ChangedType
  <2> QED
    BY <2>1, <2>2 DEF WarningsOK
<1>4. CASE MainSpawns \/ Register \/ SelectDone \/ SelectHup
  <2>1. /\ UNCHANGED <<current, installed, running, everWarned>>
        /\ watcher' \notin {"discover", "swap"}
    BY <1>4 DEF MainSpawns, Register, SelectDone, SelectHup
  <2> QED
    BY <1>0, <2>1 DEF WarningsOK
<1>5. CASE ReloadReadConfig \/ ReloadReadPolicy
  <2>1. /\ UNCHANGED <<current, installed, running, everWarned>>
        /\ watcher' \notin {"discover", "swap"}
    BY <1>5 DEF ReloadReadConfig, ReloadReadPolicy, GiveUp
  <2> QED
    BY <1>0, <2>1 DEF WarningsOK
<1>6. CASE Warn
  <2>1. /\ UNCHANGED <<current, installed, running, loading>>
        /\ everWarned' = everWarned \cup Changed(current, Unreloadable(loading.cfg))
    BY <1>6 DEF Warn, Warnings
  <2> QED
    BY <1>0, <2>1 DEF WarningsOK
<1>7. CASE Discover
  <2>1. UNCHANGED <<current, installed, running, everWarned, loading>> /\ watcher = "discover"
    BY <1>7 DEF Discover
  <2> QED
    BY <1>0, <2>1 DEF WarningsOK
<1>8. CASE Swap
  <2>1. /\ current' = Unreloadable(loading.cfg) /\ installed' = loading
        /\ watcher = "swap" /\ watcher' = "select" /\ UNCHANGED <<running, everWarned>>
    BY <1>8 DEF Swap
  <2>2. running \in Settings /\ current \in Settings /\ Unreloadable(loading.cfg) \in Settings
    BY <1>0 DEF TypeOK, Settings
  <2>3. Changed(running, current') \subseteq
            Changed(running, current) \cup Changed(current, current')
    BY <2>1, <2>2, ChangedTriangle
  <2> QED
    BY <1>0, <2>1, <2>3 DEF WarningsOK
<1> QED
  BY <1>1, <1>2, <1>3, <1>4, <1>5, <1>6, <1>7, <1>8 DEF Next, MainStep, WatcherStep, Stopped

LEMMA InitInv == Init => IndInv
<1> SUFFICES ASSUME Init PROVE IndInv
  OBVIOUS
<1>1. Nothing.cfg \in Parsed /\ Nothing.cfg \in Loaded
  <2>1. (CHOOSE c \in ConfigFiles : TRUE) \in ConfigFiles
    BY DEF Init
  <2>2. (CHOOSE c \in ConfigFiles : TRUE).cfg \in Parsed
    BY <2>1 DEF Parsed
  <2> QED
    BY <2>2 DEF Loaded, Nothing
<1>2. [cfg |-> 0, pol |-> 0] \in Versions
  BY DaemonAssumption DEF Versions
<1>3. Nothing \in [cfg : Loaded, ver : Versions]
  BY <1>1, <1>2 DEF Nothing
<1>4. Unreloadable(Nothing.cfg) \in Settings
  BY <1>1 DEF Settings
<1>5. TypeOK
  <2>1. 0 \in 0..MaxHups /\ 0 \in 0..1
    BY DaemonAssumption
  <2>2. hup \in 0..1 /\ hups \in 0..MaxHups /\ owed \in BOOLEAN
    BY <2>1 DEF Init
  <2> QED
    BY <1>2, <1>3, <1>4, <2>2 DEF Init, TypeOK
<1>6. OneLoads /\ LoadingOK /\ ServesOnlyValid
  BY DEF Init, OneLoads, LoadingOK, ServesOnlyValid, Serving
<1>7. SignalsOK
  BY DEF Init, SignalsOK
<1>8. WarningsOK
  BY <1>4, ChangedType DEF Init, WarningsOK
<1> QED
  BY <1>5, <1>6, <1>7, <1>8 DEF IndInv

LEMMA StepInv ==
    ASSUME IndInv, [Next]_vars
    PROVE  IndInv'
BY TypeStep, LoadsStep, LoadingStep, SignalsStep, WarningsStep DEF IndInv

(* How a step moves the load in progress: it goes on as it is, begins with *)
(* the config file now on disk, or goes on with the policy file now on     *)
(* disk.                                                                   *)
LEMMA LoadAdvances ==
    ASSUME IndInv, [Next]_vars
    PROVE  /\ watcher' = "readPolicy" =>
                \/ watcher = "readPolicy" /\ loading' = loading
                \/ loading'.ver.cfg = ver.cfg
           /\ watcher' \in {"warn", "discover", "swap"} =>
                \/ watcher \in {"warn", "discover", "swap"} /\ loading' = loading
                \/ /\ watcher = "readPolicy" /\ loading'.ver.cfg = loading.ver.cfg
                   /\ loading'.cfg.policyFile # "" => loading'.ver.pol = ver.pol
<1> USE DEF diskVars, loadVars, sigVars
<1>0. TypeOK /\ OneLoads /\ LoadingOK
  BY DEF IndInv
<1>1. CASE ReloadReadConfig
  <2>1. loading'.ver.cfg = ver.cfg
    BY <1>0, <1>1, ReadConfigLoads DEF ReloadReadConfig
  <2> QED
    BY <1>1, <2>1 DEF ReloadReadConfig, GiveUp
<1>2. CASE ReloadReadPolicy
  <2>1. watcher = "readPolicy" /\ watcher' \in {"warn", "select"} /\ ReadPolicy
    BY <1>2 DEF ReloadReadPolicy, GiveUp
  <2>2. /\ loading'.cfg.policyFile = loading.cfg.policyFile
        /\ loading'.ver.cfg = loading.ver.cfg
        /\ loading.cfg.policyFile # "" => loading'.ver.pol = ver.pol
    BY <1>0, <2>1, ReadPolicyLoads DEF LoadingOK
  <2> QED
    BY <2>1, <2>2
<1>3. CASE MainReadConfig \/ MainReadPolicy
  <2>1. watcher' = "unborn"
    BY <1>0, <1>3 DEF OneLoads, Starting, MainReadConfig, MainReadPolicy
  <2> QED
    BY <2>1
<1>4. CASE loading' = loading /\ (watcher' = "readPolicy" => watcher = "readPolicy")
           /\ (watcher' \in {"warn", "discover", "swap"} =>
                    watcher \in {"warn", "discover", "swap"})
  BY <1>4
<1>5. CASE MainProceeds \/ MainFails \/ MainServes \/ MainSpawns \/ MainExits
  BY <1>4, <1>5 DEF MainProceeds, MainFails, MainServes, MainSpawns, MainExits
<1>6. CASE Register \/ SelectDone \/ SelectHup \/ Warn \/ Discover \/ Swap
  BY <1>4, <1>6 DEF Register, SelectDone, SelectHup, Warn, Discover, GiveUp, Swap
<1>7. CASE \/ (\E c \in ConfigFiles : EditConfig(c)) \/ (\E p \in PolicyFiles : EditPolicy(p))
           \/ SigHup \/ SigTerm \/ UNCHANGED vars
  BY <1>4, <1>7 DEF EditConfig, EditPolicy, SigHup, SigTerm, vars
<1> QED
  BY <1>1, <1>2, <1>3, <1>5, <1>6, <1>7 DEF Next, MainStep, WatcherStep, Stopped

(* The files are only ever edited, and but for MainServes and Swap, no     *)
(* step installs a ruleset or begins to serve.                             *)
LEMMA RestKept ==
    ASSUME IndInv, [Next]_vars
    PROVE  /\ ver'.cfg >= ver.cfg /\ ver'.pol >= ver.pol
           /\ main' \in Starting \ {"spawn"} => main \in Starting \ {"spawn"}
           /\ ~MainServes /\ ~Swap => installed' = installed /\ (Serving' => Serving)
<1> USE DEF diskVars, loadVars, sigVars
<1>0. ver \in Versions /\ ver.cfg \in Int /\ ver.pol \in Int
  BY DEF IndInv, TypeOK, Versions
<1>1. ver'.cfg >= ver.cfg /\ ver'.pol >= ver.pol
  <2>1. CASE (\E c \in ConfigFiles : EditConfig(c)) \/ (\E p \in PolicyFiles : EditPolicy(p))
    BY <1>0, <2>1 DEF EditConfig, EditPolicy, Versions
  <2>2. CASE ver' = ver
    BY <1>0, <2>2
  <2> QED
    BY <2>1, <2>2 DEF Next, MainStep, MainReadConfig, MainReadPolicy, MainProceeds, MainFails,
        MainServes, MainSpawns, MainExits, WatcherStep, Register, SelectDone, SelectHup,
        ReloadReadConfig, ReloadReadPolicy, Warn, Discover, Swap, SigHup, SigTerm, Stopped, vars
<1>2. main' \in Starting \ {"spawn"} => main \in Starting \ {"spawn"}
  <2>1. CASE main' = main \/ main' \in {"exited", "killed"}
    BY <2>1 DEF Starting
  <2>2. CASE MainReadConfig \/ MainReadPolicy \/ MainServes \/ MainSpawns
    BY <2>2 DEF MainReadConfig, MainReadPolicy, MainServes, MainSpawns, Starting
  <2>3. CASE MainProceeds
    BY <2>3, ProceedsTo DEF Starting
  <2> QED
    BY <2>1, <2>2, <2>3 DEF Next, MainStep, MainFails, MainExits, WatcherStep, Register,
        SelectDone, SelectHup, ReloadReadConfig, ReloadReadPolicy, Warn, Discover, Swap,
        EditConfig, EditPolicy, SigHup, SigTerm, Stopped, vars
<1>3. ASSUME ~MainServes, ~Swap PROVE installed' = installed /\ (Serving' => Serving)
  <2>1. CASE main' = main /\ installed' = installed
    BY <2>1 DEF Serving
  <2>2. CASE MainReadConfig \/ MainReadPolicy \/ MainFails \/ MainSpawns \/ MainExits
    BY <2>2 DEF MainReadConfig, MainReadPolicy, MainFails, MainSpawns, MainExits, Serving
  <2>3. CASE MainProceeds
    BY <2>3, ProceedsTo DEF MainProceeds, Serving
  <2>4. CASE SigHup \/ SigTerm
    BY <2>4 DEF SigHup, SigTerm, Serving
  <2> QED
    BY <1>3, <2>1, <2>2, <2>3, <2>4 DEF Next, MainStep, WatcherStep, Register, SelectDone,
        SelectHup, ReloadReadConfig, ReloadReadPolicy, Warn, Discover, EditConfig, EditPolicy,
        Stopped, vars
<1> QED
  BY <1>1, <1>2, <1>3

-----------------------------------------------------------------------------
(* The process keeps the inductive invariant: a load in progress is known  *)
(* to be valid, recent and warned of as far as it has come.                *)
THEOREM Invariance == Spec => []IndInv
BY StepInv, InitInv, PTL DEF Spec

(* run and watchReloads stay on their steps and the signal channel within  *)
(* its one slot, whatever the files contain and however many SIGHUPs come. *)
THEOREM TypeCorrect == Spec => []TypeOK
<1>1. IndInv => TypeOK
  BY DEF IndInv
<1> QED
  BY <1>1, Invariance, PTL

(* Whatever is on disk when a reload reads it, and however the edits of    *)
(* the two files fall between its two reads, the ruleset in use comes from *)
(* a configuration that Validate and verifier.New accept.                  *)
THEOREM OnlyValidServed == Spec => []ServesOnlyValid
<1>1. IndInv => ServesOnlyValid
  BY DEF IndInv
<1> QED
  BY <1>1, Invariance, PTL

(* One slot in the signal channel is enough, for any number of SIGHUPs at  *)
(* any moment of a reload: once watchReloads is idle, what it installed    *)
(* last is no older than the files were at the last signal.                *)
THEOREM ReloadsCatchUp == Spec => []ReloadCatchesUp
<1>1. IndInv => ReloadCatchesUp
  <2> SUFFICES ASSUME IndInv, watcher = "select", hup = 0
               PROVE  /\ ~owed
                      /\ result = "ok" =>
                            /\ installed.ver.cfg >= asked.cfg
                            /\ installed.cfg.policyFile # "" => installed.ver.pol >= asked.pol
    BY DEF ReloadCatchesUp
  <2>1. hup # 1
    OBVIOUS
  <2>2. ~owed
    BY <2>1, Zenon DEF IndInv, SignalsOK
  <2> QED
    BY <2>2 DEF IndInv, SignalsOK, UpToDate
<1> QED
  BY <1>1, Invariance, PTL

(* A setting in use that differs from the installed config was warned of   *)
(* by some reload, for any sequence of reloads, failed ones included.      *)
THEOREM DriftWarned == Spec => []DriftWasWarned
<1>1. IndInv => DriftWasWarned
  BY DEF IndInv, DriftWasWarned, WarningsOK
<1> QED
  BY <1>1, Invariance, PTL
=============================================================================
