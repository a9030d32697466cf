-------------------------- MODULE TokenSourceProofs -------------------------
(***************************************************************************)
(* Proofs about the AWS token source, for any processes, callers, cache    *)
(* files and configurations, crashes and restarts included.                *)
(***************************************************************************)
EXTENDS TokenSource, FiniteSetTheorems, TLAPS

-----------------------------------------------------------------------------
(* The inductive invariant.                                                *)

StepsOf(a) == {"idle", "mint", "write", "rename"}
                \cup (IF a \in Callers THEN {"read", "have", "return", "done"}
                                       ELSE {"record", "clear"})

RunType == [pc : {"idle", "mint", "write", "rename", "read", "have", "return", "done",
                  "record", "clear"},
            since : 0..MaxClock, tok : Tokens \cup {NoTok}]

(* What goroutine a knows at its step r, when u[s] tells which processes   *)
(* run: it runs only while its process does, reads only a cache there is,  *)
(* is about to write only a token, and the token a caller holds is for it  *)
(* and was good when it asked.                                             *)
RoutineOK(a, r, u, now) ==
    /\ r \in RunType /\ r.pc \in StepsOf(a) /\ r.since <= now
    /\ r.pc # "idle" => u[Owner(a)]
    /\ r.pc \in {"write", "rename"} => r.tok # NoTok
    /\ r.pc = "read" => Ts(a).cachePath # NoPath
    /\ a \in Callers /\ r.tok # NoTok => Ts(a).audience \in r.tok.aud /\ r.since < r.tok.exp

RoutinesOK == run \in [Routines -> RunType] /\ \A a \in Routines : RoutineOK(a, run[a], up, clock)

History == SUBSET [result : {"nil", "error"}, during : SUBSET Routines]

(* The variables other than run; the clock keeps to its ticks.             *)
StateOK ==
    /\ clock \in 0..MaxClock /\ \E n \in Nat : clock = n * Step /\ n <= clock
    /\ cache \in [Paths -> Tokens \cup {NoTok}]
    /\ up \in [Sources -> BOOLEAN] /\ refreshing \in [Sources -> BOOLEAN]
    /\ lastErr \in [Sources -> {"nil", "error"}]
    /\ recent \in [Sources -> History]
    /\ \A s \in Sources : up[s] => Validate(Config[s])

Busy(s, i) == run[<<s, i>>].pc # "idle"

(* refreshing is set exactly while one of the two refreshers is busy.      *)
RefreshOK ==
    \A s \in Sources : up[s] =>
        /\ ~refreshing[s] => ~Busy(s, 1) /\ ~Busy(s, 2)
        /\ refreshing[s] => (Busy(s, 1) <=> ~Busy(s, 2))

(* A refresher that has recorded its outcome and not yet ended.            *)
Recorded(s, i) == run[<<s, i>>].pc \in {"write", "rename", "clear"}

(* lastErr is what a running refresh recorded, or the result of a most     *)
(* recent operation that ended while every such refresh was running.       *)
ErrorAt(s) ==
    \/ \E i \in {1, 2} : Recorded(s, i) /\ lastErr[s] = Outcome(run[<<s, i>>].tok)
    \/ \E h \in recent[s] : /\ h.result = lastErr[s]
                            /\ \A i \in {1, 2} : Recorded(s, i) => <<s, i>> \in h.during

ErrorOK == \A s \in Sources : up[s] => ErrorAt(s)

IndInv == StateOK /\ RoutinesOK /\ RefreshOK /\ ErrorOK

-----------------------------------------------------------------------------
(* Facts about the constants and the operators.                            *)

LEMMA OwnerFacts ==
    /\ \A a \in Routines : Owner(a) \in Sources
    /\ \A s \in Sources, i \in {1, 2} :
        /\ <<s, i>> \in Refreshers /\ <<s, i>> \in Routines /\ <<s, i>> \notin Callers
        /\ Owner(<<s, i>>) = s
    /\ \A a \in Refreshers : a \notin Callers /\ \E s \in Sources, i \in {1, 2} : a = <<s, i>>
    /\ \A c \in Callers : c \in Routines /\ Owner(c) = Home[c] /\ c \notin Refreshers
BY SourceAssumption DEF Owner, Routines, Refreshers

LEMMA NoTokFacts ==
    /\ NoTok \notin Tokens
    /\ \A t \in Tokens \cup {NoTok} : t.exp \in Nat
BY TokenAssumption DEF NoTok

(* The duration of a token source is at least a minute.                    *)
LEMMA MadeDuration ==
    ASSUME NEW s \in Sources, Validate(Config[s])
    PROVE  /\ Made(Config[s]).duration \in Nat /\ Made(Config[s]).duration >= 60000
<1> DEFINE cfg == Config[s]
           x == cfg.duration
<1>1. DOMAIN cfg = {"audience", "signingAlgorithm", "duration", "cachePath", "cacheRefreshBefore"}
  BY SourceAssumption
<1>2. Made(cfg).duration = IF x = 0 THEN 300 * Second ELSE x
  BY <1>1 DEF Made, Default
<1>3. x = 0 \/ x \in minDuration..maxDuration
  BY DEF Validate
<1> HIDE DEF x, cfg
<1>4. x = 0 \/ (x \in Nat /\ x >= 60000)
  <2>1. minDuration \in Int /\ minDuration >= 60000 /\ maxDuration \in Int
    BY DEF Second, minDuration, maxDuration
  <2> QED
    BY <1>3, <2>1
<1>5. (IF x = 0 THEN 300 * Second ELSE x) \in Nat
      /\ (IF x = 0 THEN 300 * Second ELSE x) >= 60000
  BY <1>4 DEF Second
<1> QED
  BY <1>2, <1>5 DEF cfg

(* A token is issued for the audience asked for and outlives the moment.   *)
LEMMA IssuedFacts ==
    ASSUME IndInv, NEW a \in Routines, up[Owner(a)]
    PROVE  /\ Issued(Ts(a), clock) \in Tokens
           /\ Ts(a).audience \in Issued(Ts(a), clock).aud
           /\ clock < Issued(Ts(a), clock).exp
<1> DEFINE s == Owner(a)
           d == Made(Config[s]).duration
<1>1. s \in Sources /\ Validate(Config[s]) /\ Ts(a) = Made(Config[s])
  BY OwnerFacts DEF IndInv, StateOK, Ts
<1>2. clock \in Nat /\ clock \in Times
  <2>1. PICK n \in Nat : clock = n * Step /\ n <= clock
    BY DEF IndInv, StateOK
  <2>2. clock \in Nat /\ clock <= MaxClock /\ MaxClock \in Nat
    BY SourceAssumption DEF IndInv, StateOK
  <2>3. n \in 0..MaxClock
    BY <2>1, <2>2
  <2> QED
    BY <2>1, <2>2, <2>3 DEF Times
<1>3. d \in Nat /\ d >= 60000
  BY <1>1, MadeDuration
<1>4. Issued(Ts(a), clock).exp = (clock \div 1000 + d \div 1000) * 1000
  BY <1>1 DEF Issued, Second
<1> HIDE DEF d
<1>5. clock < (clock \div 1000 + d \div 1000) * 1000
  BY <1>2, <1>3
<1> QED
  BY <1>1, <1>2, <1>4, <1>5, TokenAssumption DEF Issued

(* A cache path that is set names a cache file.                            *)
LEMMA CachePath ==
    ASSUME NEW a \in Routines, Ts(a).cachePath # NoPath
    PROVE  Ts(a).cachePath \in Paths
<1>1. Owner(a) \in Sources
  BY OwnerFacts
<1>2. Made(Config[Owner(a)]).cachePath = Config[Owner(a)].cachePath
  BY <1>1, SourceAssumption DEF Made
<1> QED
  BY <1>1, <1>2 DEF Ts, Paths

(* What the steps of a goroutine may use.                                  *)
LEMMA RoutineFacts ==
    ASSUME IndInv, NEW a \in Routines
    PROVE  /\ run \in [Routines -> RunType] /\ run[a] \in RunType
           /\ RoutineOK(a, run[a], up, clock)
           /\ run[a].since \in Nat /\ clock \in Nat /\ clock \in 0..MaxClock
           /\ run[a].tok \in Tokens \cup {NoTok} /\ run[a].tok.exp \in Nat
<1>1. /\ run \in [Routines -> RunType] /\ run[a] \in RunType
      /\ RoutineOK(a, run[a], up, clock)
      /\ clock \in 0..MaxClock
  BY DEF IndInv, RoutinesOK, StateOK
<1>2. run[a].since \in 0..MaxClock /\ run[a].tok \in Tokens \cup {NoTok}
  BY <1>1 DEF RunType
<1> QED
  BY <1>1, <1>2, NoTokFacts, SourceAssumption

-----------------------------------------------------------------------------
(* A quiet step of goroutine a, to r, starts no refresh and ends none, and *)
(* records nothing.                                                        *)
W == {"write", "rename", "clear"}

Quiet(a, r) ==
    a \notin Callers =>
        /\ run[a].pc # "idle" /\ r.pc # "idle"
        /\ run[a].pc \in W <=> r.pc \in W
        /\ r.pc \in W => r.tok = run[a].tok

(* A step that only moves goroutine a, to r.                               *)
LEMMA OneRoutine ==
    ASSUME IndInv, NEW a \in Routines, NEW r, RoutineOK(a, r, up, clock),
           run' = [run EXCEPT ![a] = r], UNCHANGED <<clock, up>>
    PROVE  RoutinesOK' /\ \A b \in Routines : run'[b] = IF b = a THEN r ELSE run[b]
<1>0. run \in [Routines -> RunType] /\ r \in RunType
  BY RoutineFacts DEF RoutineOK
<1>1. \A b \in Routines : run'[b] = IF b = a THEN r ELSE run[b]
  BY <1>0
<1>2. RoutinesOK'
  <2>1. run' \in [Routines -> RunType]
    BY <1>0
  <2>2. ASSUME NEW b \in Routines PROVE RoutineOK(b, run'[b], up, clock)
    BY <1>1, RoutineFacts
  <2> QED
    BY <2>1, <2>2 DEF RoutinesOK
<1> QED
  BY <1>1, <1>2

LEMMA QuietRuns ==
    ASSUME IndInv, NEW a \in Routines, NEW r, RoutineOK(a, r, up, clock), Quiet(a, r),
           run' = [run EXCEPT ![a] = r], UNCHANGED <<clock, up>>
    PROVE  /\ RoutinesOK'
           /\ \A s \in Sources, i \in {1, 2} :
                /\ Busy(s, i)' = Busy(s, i) /\ Recorded(s, i)' = Recorded(s, i)
                /\ Recorded(s, i) => run'[<<s, i>>].tok = run[<<s, i>>].tok
<1>1. \A b \in Routines : run'[b] = IF b = a THEN r ELSE run[b]
  BY OneRoutine
<1>2. RoutinesOK'
  BY OneRoutine
<1>3. ASSUME NEW s \in Sources, NEW i \in {1, 2}
      PROVE  /\ Busy(s, i)' = Busy(s, i) /\ Recorded(s, i)' = Recorded(s, i)
             /\ Recorded(s, i) => run'[<<s, i>>].tok = run[<<s, i>>].tok
  <2>1. <<s, i>> \in Routines /\ <<s, i>> \notin Callers
    BY OwnerFacts
  <2>2. CASE a = <<s, i>>
    <3>1. /\ run[<<s, i>>].pc # "idle" /\ r.pc # "idle"
          /\ run[<<s, i>>].pc \in W <=> r.pc \in W
          /\ r.pc \in W => r.tok = run[<<s, i>>].tok
      BY <2>1, <2>2 DEF Quiet
    <3>2. run'[<<s, i>>] = r
      BY <1>1, <2>1, <2>2
    <3> QED
      BY <3>1, <3>2 DEF Busy, Recorded, W
  <2>3. CASE a # <<s, i>>
    BY <1>1, <2>1, <2>3 DEF Busy, Recorded
  <2> QED
    BY <2>2, <2>3
<1> QED
  BY <1>2, <1>3

(* LastError of s is not touched by what happens elsewhere.                *)
LEMMA ErrorKept ==
    ASSUME NEW s \in Sources, ErrorAt(s), lastErr'[s] = lastErr[s], recent'[s] = recent[s],
           \A i \in {1, 2} : /\ Recorded(s, i)' = Recorded(s, i)
                             /\ Recorded(s, i) => run'[<<s, i>>].tok = run[<<s, i>>].tok
    PROVE  ErrorAt(s)'
BY DEF ErrorAt

LEMMA QuietStep ==
    ASSUME IndInv, NEW a \in Routines, NEW r, RoutineOK(a, r, up, clock), Quiet(a, r),
           run' = [run EXCEPT ![a] = r],
           cache' \in [Paths -> Tokens \cup {NoTok}],
           UNCHANGED <<clock, up, lastErr, refreshing, recent>>
    PROVE  IndInv'
<1>1. /\ RoutinesOK'
      /\ \A s \in Sources, i \in {1, 2} :
            /\ Busy(s, i)' = Busy(s, i) /\ Recorded(s, i)' = Recorded(s, i)
            /\ Recorded(s, i) => run'[<<s, i>>].tok = run[<<s, i>>].tok
  BY QuietRuns
<1>2. StateOK'
  BY DEF IndInv, StateOK
<1>3. RefreshOK'
  BY <1>1 DEF IndInv, RefreshOK
<1>4. ErrorOK'
  BY <1>1, ErrorKept DEF IndInv, ErrorOK
<1> QED
  BY <1>1, <1>2, <1>3, <1>4 DEF IndInv

-----------------------------------------------------------------------------
(* The steps of Token and of refreshAsync's goroutine that are quiet.      *)

LEMMA CallOK ==
    ASSUME IndInv, NEW c \in Callers, Call(c)
    PROVE  IndInv'
<1> DEFINE p == IF Ts(c).cachePath = NoPath THEN "mint" ELSE "read"
           r == [pc |-> p, since |-> clock, tok |-> NoTok]
<1>0. c \in Routines /\ Owner(c) = Home[c]
  BY OwnerFacts
<1>1. p \in {"mint", "read"}
  OBVIOUS
<1>2. run' = [run EXCEPT ![c] = r] /\ up[Home[c]]
      /\ UNCHANGED <<clock, cache, up, lastErr, refreshing, recent>>
  BY DEF Call
<1> HIDE DEF p
<1>3. r \in RunType /\ r.pc = p /\ r.since = clock /\ r.tok = NoTok
  BY <1>0, <1>1, RoutineFacts DEF RunType
<1> HIDE DEF r
<1>4. RoutineOK(c, r, up, clock)
  BY <1>0, <1>1, <1>2, <1>3, RoutineFacts DEF RoutineOK, StepsOf, p
<1>5. cache' \in [Paths -> Tokens \cup {NoTok}]
  BY <1>2 DEF IndInv, StateOK
<1> QED
  BY <1>0, <1>2, <1>4, <1>5, QuietStep DEF Quiet

(* A move to another step with nothing else changed.                       *)
LEMMA GotoOK ==
    ASSUME IndInv, NEW a \in Routines, NEW pc \in StepsOf(a), pc # "idle",
           run[a].pc # "idle", pc # "read", pc \in {"write", "rename"} => run[a].tok # NoTok
    PROVE  RoutineOK(a, [run[a] EXCEPT !.pc = pc], up, clock)
<1> DEFINE r == [run[a] EXCEPT !.pc = pc]
<1>1. pc \in {"idle", "mint", "write", "rename", "read", "have", "return", "done", "record", "clear"}
  BY DEF StepsOf
<1>2. r \in RunType /\ r.pc = pc /\ r.since = run[a].since /\ r.tok = run[a].tok
  BY <1>1, RoutineFacts DEF RunType
<1> HIDE DEF r
<1>3. RoutineOK(a, r, up, clock)
  BY <1>2, RoutineFacts DEF RoutineOK
<1> QED
  BY <1>3 DEF r

LEMMA ReadCacheOK ==
    ASSUME IndInv, NEW c \in Callers, ReadCache(c)
    PROVE  IndInv'
<1> DEFINE t == cache[Ts(c).cachePath]
<1>0. /\ c \in Routines /\ run[c].pc = "read" /\ run[c] \in RunType
      /\ run \in [Routines -> RunType]
  BY OwnerFacts, RoutineFacts DEF ReadCache
<1>1. UNCHANGED <<clock, cache, up, lastErr, refreshing, recent>>
  BY DEF ReadCache
<1>2. cache' \in [Paths -> Tokens \cup {NoTok}]
  BY <1>1 DEF IndInv, StateOK
<1>3. CASE ~CacheHit(Ts(c), t)
  <2>1. run' = [run EXCEPT ![c] = [run[c] EXCEPT !.pc = "mint"]]
    BY <1>3 DEF ReadCache
  <2>2. RoutineOK(c, [run[c] EXCEPT !.pc = "mint"], up, clock)
    BY <1>0, GotoOK DEF StepsOf
  <2> QED
    BY <1>0, <1>1, <1>2, <2>1, <2>2, QuietStep DEF Quiet
<1>4. CASE CacheHit(Ts(c), t) /\ t \in Tokens \cup {NoTok}
  <2> DEFINE r == [run[c] EXCEPT !.pc = "have", !.tok = t]
  <2>1. run' = [run EXCEPT ![c] = r]
    BY <1>4 DEF ReadCache
  <2>2. clock < t.exp /\ Ts(c).audience \in t.aud
    BY <1>4 DEF CacheHit
  <2>3. t.exp \in Nat
    BY <1>4, NoTokFacts
  <2> HIDE DEF t
  <2>4. r \in RunType /\ r.pc = "have" /\ r.since = run[c].since /\ r.tok = t
    BY <1>0, <1>4 DEF RunType
  <2> HIDE DEF r
  <2>5. RoutineOK(c, r, up, clock)
    BY <1>0, <2>2, <2>3, <2>4, RoutineFacts DEF RoutineOK, StepsOf
  <2> QED
    BY <1>0, <1>1, <1>2, <2>1, <2>5, QuietStep DEF Quiet
<1>5. t \in Tokens \cup {NoTok}
  <2>1. Ts(c).cachePath \in Paths
    BY <1>0, CachePath, RoutineFacts DEF RoutineOK
  <2> QED
    BY <2>1 DEF IndInv, StateOK
<1> QED
  BY <1>3, <1>4, <1>5

LEMMA MintOK ==
    ASSUME IndInv, NEW a \in Routines, Mint(a)
    PROVE  IndInv'
<1> DEFINE t == Issued(Ts(a), clock)
           p == IF a \in Refreshers THEN "record"
                ELSE IF Ts(a).cachePath = NoPath THEN "return" ELSE "write"
           r == [run[a] EXCEPT !.pc = p, !.tok = t]
<1>0. run[a].pc = "mint" /\ run[a] \in RunType /\ run[a].since <= clock /\ up[Owner(a)]
  BY RoutineFacts DEF Mint, RoutineOK
<1>1. /\ run' = [run EXCEPT ![a] = r]
      /\ UNCHANGED <<clock, cache, up, lastErr, refreshing, recent>>
  BY DEF Mint
<1>2. t \in Tokens /\ Ts(a).audience \in t.aud /\ clock < t.exp /\ t.exp \in Nat /\ t # NoTok
  BY <1>0, IssuedFacts, NoTokFacts
<1>3. p \in StepsOf(a) /\ p # "idle" /\ (a \notin Callers => p \notin W)
      /\ p \in {"record", "return", "write"}
  BY OwnerFacts DEF StepsOf, W, Routines
<1> HIDE DEF p, t
<1>4. r \in RunType /\ r.pc = p /\ r.since = run[a].since /\ r.tok = t
  BY <1>0, <1>2, <1>3 DEF RunType
<1> HIDE DEF r
<1>5. RoutineOK(a, r, up, clock)
  BY <1>0, <1>2, <1>3, <1>4, RoutineFacts DEF RoutineOK
<1>6. Quiet(a, r)
  BY <1>0, <1>3, <1>4 DEF Quiet, W
<1>7. cache' \in [Paths -> Tokens \cup {NoTok}]
  BY <1>1 DEF IndInv, StateOK
<1> QED
  BY <1>1, <1>5, <1>6, <1>7, QuietStep

(* A quiet move with Goto.                                                 *)
LEMMA QuietGoto ==
    ASSUME IndInv, NEW a \in Routines, NEW pc \in StepsOf(a), pc # "idle",
           run[a].pc # "idle", pc # "read", pc \in {"write", "rename"} => run[a].tok # NoTok,
           a \notin Callers => (run[a].pc \in W <=> pc \in W),
           Goto(a, pc), cache' \in [Paths -> Tokens \cup {NoTok}],
           UNCHANGED <<clock, up, lastErr, refreshing, recent>>
    PROVE  IndInv'
<1> DEFINE r == [run[a] EXCEPT !.pc = pc]
<1>1. RoutineOK(a, r, up, clock)
  BY GotoOK
<1>2. r.pc = pc /\ r.tok = run[a].tok
  BY RoutineFacts DEF RunType
<1>3. run' = [run EXCEPT ![a] = r]
  BY RoutineFacts DEF Goto
<1> HIDE DEF r
<1>4. Quiet(a, r)
  BY <1>2 DEF Quiet
<1> QED
  BY <1>1, <1>3, <1>4, QuietStep

LEMMA MintFailsOK ==
    ASSUME IndInv, NEW a \in Routines, MintFails(a)
    PROVE  IndInv'
<1> DEFINE p == IF a \in Refreshers THEN "record" ELSE "return"
<1>1. run[a].pc = "mint" /\ Goto(a, p) /\ UNCHANGED <<clock, cache, up, lastErr, refreshing, recent>>
  BY DEF MintFails
<1>2. p \in StepsOf(a) /\ p \in {"record", "return"}
  BY OwnerFacts DEF StepsOf, Routines
<1>3. cache' \in [Paths -> Tokens \cup {NoTok}]
  BY <1>1 DEF IndInv, StateOK
<1> HIDE DEF p
<1> QED
  BY <1>1, <1>2, <1>3, QuietGoto DEF W

LEMMA WriteOK ==
    ASSUME IndInv, NEW a \in Routines, WriteTemp(a) \/ Rename(a)
    PROVE  IndInv'
<1> DEFINE p == IF a \in Refreshers THEN "clear" ELSE "return"
<1>1. /\ run[a].pc \in {"write", "rename"} /\ (Goto(a, "rename") \/ Goto(a, p))
      /\ UNCHANGED <<clock, up, lastErr, refreshing, recent>>
  BY DEF WriteTemp, Rename, Written
<1>2. p \in StepsOf(a) /\ p \in {"clear", "return"} /\ "rename" \in StepsOf(a)
      /\ (a \notin Callers => p = "clear")
  BY OwnerFacts DEF StepsOf, Routines
<1>3. run[a].tok # NoTok /\ run[a].tok \in Tokens \cup {NoTok}
  BY <1>1, RoutineFacts DEF RoutineOK
<1>4. cache' \in [Paths -> Tokens \cup {NoTok}]
  <2>1. cache \in [Paths -> Tokens \cup {NoTok}]
    BY DEF IndInv, StateOK
  <2>2. cache' = cache \/ cache' = [cache EXCEPT ![Ts(a).cachePath] = run[a].tok]
    BY DEF WriteTemp, Rename
  <2> DEFINE q == Ts(a).cachePath
             t == run[a].tok
  <2> HIDE DEF q, t
  <2>3. [cache EXCEPT ![q] = t] \in [Paths -> Tokens \cup {NoTok}]
    <3>1. t \in Tokens \cup {NoTok}
      BY <1>3 DEF t
    <3> QED
      BY <2>1, <3>1
  <2> QED
    BY <2>1, <2>2, <2>3 DEF q, t
<1> HIDE DEF p
<1>5. CASE Goto(a, "rename")
  BY <1>1, <1>2, <1>3, <1>4, <1>5, QuietGoto DEF W
<1>6. CASE Goto(a, p)
  BY <1>1, <1>2, <1>3, <1>4, <1>6, QuietGoto DEF W
<1> QED
  BY <1>1, <1>5, <1>6

-----------------------------------------------------------------------------
(* The steps that end an operation or begin a refresh.                     *)

LEMMA OutcomeType == \A t : Outcome(t) \in {"nil", "error"}
BY DEF Outcome

(* The operations running in s, among them the refreshes that have         *)
(* recorded their outcome.                                                 *)
LEMMA RunningFacts ==
    ASSUME NEW s \in Sources
    PROVE  /\ Running(s) \subseteq Routines
           /\ \A i \in {1, 2} : Recorded(s, i) => <<s, i>> \in Running(s)
<1>1. Running(s) \subseteq Routines
  BY SourceAssumption DEF Running, Routines
<1>2. ASSUME NEW i \in {1, 2}, Recorded(s, i) PROVE <<s, i>> \in Running(s)
  BY <1>2, OwnerFacts DEF Recorded, Running
<1> QED
  BY <1>1, <1>2

(* What becomes of the history when operation op ends.                     *)
LEMMA EndedFacts ==
    ASSUME NEW history \in History, NEW op, NEW result \in {"nil", "error"},
           NEW others \in SUBSET Routines
    PROVE  /\ Ended(history, op, result, others) \in History
           /\ \A g \in history : op \in g.during =>
                \E h \in Ended(history, op, result, others) :
                    h.result = g.result /\ h.during = g.during \ {op}
<1> DEFINE E == Ended(history, op, result, others)
           new == [result |-> result, during |-> others \ {op}]
<1>1. ASSUME NEW g \in history
      PROVE  /\ [g EXCEPT !.during = g.during \ {op}] \in [result : {"nil", "error"},
                                                         during : SUBSET Routines]
             /\ [g EXCEPT !.during = g.during \ {op}].result = g.result
             /\ [g EXCEPT !.during = g.during \ {op}].during = g.during \ {op}
  BY DEF History
<1>2. ASSUME NEW g \in history, op \in g.during
      PROVE  [g EXCEPT !.during = g.during \ {op}] \in E
  BY <1>2 DEF Ended
<1>3. E \in History
  <2>1. new \in [result : {"nil", "error"}, during : SUBSET Routines]
    OBVIOUS
  <2>2. ASSUME NEW h \in E, h # new
        PROVE  h \in [result : {"nil", "error"}, during : SUBSET Routines]
    <3>1. PICK g \in history : h = [g EXCEPT !.during = g.during \ {op}]
      BY <2>2 DEF Ended
    <3> QED
      BY <1>1, <3>1
  <2> QED
    BY <2>1, <2>2 DEF History
<1> QED
  BY <1>1, <1>2, <1>3

(* The end of operation a, recorded in the history of its process.         *)
LEMMA EndOperationFacts ==
    ASSUME IndInv, NEW a \in Routines, EndOperation(a)
    PROVE  /\ recent' \in [Sources -> History]
           /\ \A s \in Sources : s # Owner(a) => recent'[s] = recent[s]
           /\ recent'[Owner(a)] = Ended(recent[Owner(a)], a, Outcome(run[a].tok),
                                        Running(Owner(a)))
<1> DEFINE s == Owner(a)
           E == Ended(recent[s], a, Outcome(run[a].tok), Running(s))
<1>1. s \in Sources /\ recent \in [Sources -> History]
  BY OwnerFacts DEF IndInv, StateOK
<1>2. recent' = [recent EXCEPT ![s] = E]
  BY <1>1 DEF EndOperation
<1>3. E \in History
  BY <1>1, EndedFacts, OutcomeType, RunningFacts
<1> HIDE DEF E
<1>4. /\ recent' \in [Sources -> History]
      /\ \A q \in Sources : q # s => recent'[q] = recent[q]
      /\ recent'[s] = E
  BY <1>1, <1>2, <1>3
<1> QED
  BY <1>4 DEF E

LEMMA ReturnOK ==
    ASSUME IndInv, NEW c \in Callers, Return(c)
    PROVE  IndInv'
<1> DEFINE r == [run[c] EXCEPT !.pc = "done"]
           q == Home[c]
           res == Outcome(run[c].tok)
<1>0. /\ c \in Routines /\ Owner(c) = q /\ q \in Sources /\ run[c].pc = "return"
      /\ UNCHANGED <<clock, cache, up, refreshing>> /\ Goto(c, "done")
      /\ cache \in [Paths -> Tokens \cup {NoTok}]
  BY OwnerFacts DEF Return, IndInv, StateOK
<1>1. CASE c \notin Handlers
  <2>1. UNCHANGED <<lastErr, recent>>
    BY <1>1 DEF Return
  <2> QED
    BY <1>0, <2>1, QuietGoto DEF StepsOf
<1>2. CASE c \in Handlers
  <2>1. EndOperation(c) /\ lastErr' = [lastErr EXCEPT ![q] = res]
    BY <1>2 DEF Return, setLastError
  <2>2. /\ RoutinesOK'
        /\ \A s \in Sources, i \in {1, 2} :
            /\ Busy(s, i)' = Busy(s, i) /\ Recorded(s, i)' = Recorded(s, i)
            /\ Recorded(s, i) => run'[<<s, i>>].tok = run[<<s, i>>].tok
    <3>1. RoutineOK(c, r, up, clock)
      BY <1>0, GotoOK DEF StepsOf
    <3>2. run' = [run EXCEPT ![c] = r]
      BY <1>0, RoutineFacts DEF Goto
    <3> HIDE DEF r
    <3> QED
      BY <1>0, <3>1, <3>2, QuietRuns DEF Quiet
  <2>3. /\ recent' \in [Sources -> History]
        /\ \A s \in Sources : s # q => recent'[s] = recent[s]
        /\ recent'[q] = Ended(recent[q], c, res, Running(q))
    BY <1>0, <2>1, EndOperationFacts
  <2>4. /\ lastErr' \in [Sources -> {"nil", "error"}] /\ lastErr'[q] = res
        /\ \A s \in Sources : s # q => lastErr'[s] = lastErr[s]
    BY <1>0, <2>1, OutcomeType DEF IndInv, StateOK
  <2>5. StateOK'
    BY <1>0, <2>3, <2>4 DEF IndInv, StateOK
  <2>6. RefreshOK'
    BY <1>0, <2>2 DEF IndInv, RefreshOK
  <2>7. ErrorAt(q)'
    <3>1. PICK h \in recent'[q] : h.result = res /\ h.during = Running(q) \ {c}
      <4> DEFINE new == [result |-> res, during |-> Running(q) \ {c}]
      <4>1. new \in recent'[q]
        BY <2>3 DEF Ended
      <4> QED
        BY <4>1
    <3>2. \A i \in {1, 2} : Recorded(q, i)' => <<q, i>> \in h.during
      BY <1>0, <2>2, <3>1, RunningFacts, OwnerFacts
    <3> QED
      BY <2>4, <3>1, <3>2 DEF ErrorAt
  <2>8. ErrorOK'
    BY <1>0, <2>2, <2>3, <2>4, <2>7, ErrorKept DEF IndInv, ErrorOK
  <2> QED
    BY <2>2, <2>5, <2>6, <2>8 DEF IndInv
<1> QED
  BY <1>1, <1>2

LEMMA RecordRefreshOK ==
    ASSUME IndInv, NEW a \in Refreshers, RecordRefresh(a)
    PROVE  IndInv'
<1> DEFINE p == IF run[a].tok = NoTok THEN "clear" ELSE "write"
           r == [run[a] EXCEPT !.pc = p]
<1>1. PICK q \in Sources, j \in {1, 2} : a = <<q, j>>
  BY OwnerFacts
<1>2. /\ a \in Routines /\ a \notin Callers /\ Owner(a) = q /\ run[a].pc = "record"
      /\ UNCHANGED <<clock, cache, up, refreshing, recent>> /\ Goto(a, p)
      /\ lastErr' = [lastErr EXCEPT ![q] = Outcome(run[a].tok)]
  BY <1>1, OwnerFacts DEF RecordRefresh, setLastError
<1>3. /\ p \in StepsOf(a) /\ p \in {"clear", "write"} /\ (p = "write" => run[a].tok # NoTok)
  BY <1>2 DEF StepsOf
<1> HIDE DEF p
<1>4. RoutineOK(a, r, up, clock)
  BY <1>2, <1>3, GotoOK
<1>5. r.pc = p /\ r.tok = run[a].tok
  BY <1>2, RoutineFacts DEF RunType
<1>6. run' = [run EXCEPT ![a] = r]
  BY <1>2, RoutineFacts DEF Goto
<1> HIDE DEF r
<1>7. RoutinesOK' /\ \A b \in Routines : run'[b] = IF b = a THEN r ELSE run[b]
  <2>1. UNCHANGED <<clock, up>>
    BY <1>2
  <2>2. RoutinesOK'
    BY <1>2, <1>4, <1>6, <2>1, OneRoutine
  <2>3. \A b \in Routines : run'[b] = IF b = a THEN r ELSE run[b]
    BY <1>2, <1>6, RoutineFacts
  <2> QED
    BY <2>2, <2>3
<1>8. /\ lastErr' \in [Sources -> {"nil", "error"}] /\ lastErr'[q] = Outcome(run[a].tok)
      /\ \A s \in Sources : s # q => lastErr'[s] = lastErr[s]
  BY <1>2, OutcomeType DEF IndInv, StateOK
<1>9. StateOK'
  BY <1>2, <1>8 DEF IndInv, StateOK
<1>10. ASSUME NEW s \in Sources, NEW i \in {1, 2}
       PROVE  /\ Busy(s, i)' = Busy(s, i)
              /\ <<s, i>> # a => run'[<<s, i>>] = run[<<s, i>>]
  <2>1. <<s, i>> \in Routines
    BY OwnerFacts
  <2> QED
    BY <1>2, <1>3, <1>5, <1>7, <2>1 DEF Busy
<1>11. RefreshOK'
  BY <1>2, <1>10 DEF IndInv, RefreshOK
<1>12. ErrorAt(q)'
  <2>1. run'[<<q, j>>].pc = p /\ run'[<<q, j>>].tok = run[a].tok
    BY <1>1, <1>2, <1>5, <1>7
  <2>2. Recorded(q, j)' /\ lastErr'[q] = Outcome(run'[<<q, j>>].tok)
    BY <1>3, <1>8, <2>1 DEF Recorded
  <2> QED
    BY <2>2 DEF ErrorAt
<1>13. ASSUME NEW s \in Sources, s # q, up[s] PROVE ErrorAt(s)'
  <2>1. \A i \in {1, 2} : run'[<<s, i>>] = run[<<s, i>>]
    BY <1>1, <1>10, <1>13
  <2>2. ErrorAt(s)
    BY <1>13 DEF IndInv, ErrorOK
  <2>3. \A i \in {1, 2} : Recorded(s, i)' = Recorded(s, i)
    BY <2>1 DEF Recorded
  <2> QED
    BY <1>2, <1>8, <1>13, <2>1, <2>2, <2>3, ErrorKept
<1>14. ErrorOK'
  BY <1>2, <1>12, <1>13 DEF ErrorOK
<1> QED
  BY <1>7, <1>9, <1>11, <1>14 DEF IndInv

LEMMA IdleFacts ==
    /\ Idle \in RunType /\ Idle.pc = "idle" /\ Idle.since = 0 /\ Idle.tok = NoTok
    /\ \A a, u : \A now \in Nat : RoutineOK(a, Idle, u, now)
<1>1. 0 \in 0..MaxClock
  BY SourceAssumption
<1>2. Idle \in RunType /\ Idle.pc = "idle" /\ Idle.since = 0 /\ Idle.tok = NoTok
  BY <1>1 DEF Idle, RunType
<1> QED
  BY <1>2 DEF RoutineOK, StepsOf

LEMMA ClearRefreshingOK ==
    ASSUME IndInv, NEW a \in Refreshers, ClearRefreshing(a)
    PROVE  IndInv'
<1> DEFINE res == Outcome(run[a].tok)
<1>1. PICK q \in Sources, j \in {1, 2} : a = <<q, j>>
  BY OwnerFacts
<1>2. /\ a \in Routines /\ a \notin Callers /\ Owner(a) = q /\ run[a].pc = "clear"
      /\ UNCHANGED <<clock, cache, up, lastErr>> /\ EndOperation(a)
      /\ refreshing' = [refreshing EXCEPT ![q] = FALSE]
      /\ run' = [run EXCEPT ![a] = Idle]
  BY <1>1, OwnerFacts DEF ClearRefreshing
<1>3. RoutinesOK' /\ \A b \in Routines : run'[b] = IF b = a THEN Idle ELSE run[b]
  <2>1. RoutineOK(a, Idle, up, clock)
    BY <1>2, IdleFacts, RoutineFacts
  <2>2. UNCHANGED <<clock, up>> /\ run' = [run EXCEPT ![a] = Idle]
    BY <1>2
  <2>3. RoutinesOK'
    BY <1>2, <2>1, <2>2, OneRoutine
  <2>4. \A b \in Routines : run'[b] = IF b = a THEN Idle ELSE run[b]
    BY <1>2, <2>1, <2>2, OneRoutine
  <2> QED
    BY <2>3, <2>4
<1>4. /\ recent' \in [Sources -> History]
      /\ \A s \in Sources : s # q => recent'[s] = recent[s]
      /\ recent'[q] = Ended(recent[q], a, res, Running(q))
  BY <1>2, EndOperationFacts
<1>5. /\ refreshing' \in [Sources -> BOOLEAN] /\ refreshing'[q] = FALSE
      /\ \A s \in Sources : s # q => refreshing'[s] = refreshing[s]
  BY <1>2 DEF IndInv, StateOK
<1>6. StateOK'
  BY <1>2, <1>4, <1>5 DEF IndInv, StateOK
<1>7. /\ run'[<<q, j>>].pc = "idle"
      /\ \A s \in Sources, i \in {1, 2} : <<s, i>> # a => run'[<<s, i>>] = run[<<s, i>>]
  BY <1>1, <1>3, IdleFacts, OwnerFacts
<1>8. RefreshOK'
  <2>1. ASSUME up[q] PROVE ~Busy(q, 1)' /\ ~Busy(q, 2)'
    <3>1. Busy(q, j)
      BY <1>1, <1>2 DEF Busy
    <3>2. \A i \in {1, 2} : i # j => ~Busy(q, i)
      BY <2>1, <3>1 DEF IndInv, RefreshOK
    <3>3. \A i \in {1, 2} : i # j => ~Busy(q, i)'
      BY <1>1, <1>7, <3>2 DEF Busy
    <3> QED
      BY <1>7, <3>3 DEF Busy
  <2>2. ASSUME NEW s \in Sources, s # q, up[s]
        PROVE  /\ ~refreshing'[s] => ~Busy(s, 1)' /\ ~Busy(s, 2)'
               /\ refreshing'[s] => (Busy(s, 1)' <=> ~Busy(s, 2)')
    <3>1. run'[<<s, 1>>] = run[<<s, 1>>] /\ run'[<<s, 2>>] = run[<<s, 2>>]
      BY <1>1, <1>7, <2>2
    <3> QED
      BY <1>5, <2>2, <3>1 DEF IndInv, RefreshOK, Busy
  <2> QED
    BY <1>2, <1>5, <2>1, <2>2 DEF RefreshOK
<1>9. ASSUME up[q] PROVE ErrorAt(q)'
  <2>1. ErrorAt(q)
    BY <1>9 DEF IndInv, ErrorOK
  <2>2. Recorded(q, j) /\ ~Recorded(q, j)'
    BY <1>1, <1>2, <1>7 DEF Recorded
  <2>3. \A i \in {1, 2} : i # j => /\ Recorded(q, i)' = Recorded(q, i)
                                   /\ run'[<<q, i>>] = run[<<q, i>>]
    BY <1>1, <1>7 DEF Recorded
  <2>4. ASSUME NEW h \in recent'[q], h.result = lastErr[q],
               \A i \in {1, 2} : i # j /\ Recorded(q, i) => <<q, i>> \in h.during
        PROVE  ErrorAt(q)'
    BY <1>2, <2>2, <2>3, <2>4 DEF ErrorAt
  <2>5. CASE lastErr[q] = res
    <3> DEFINE new == [result |-> res, during |-> Running(q) \ {a}]
    <3>1. new \in recent'[q]
      BY <1>4 DEF Ended
    <3>2. \A i \in {1, 2} : i # j /\ Recorded(q, i) => <<q, i>> \in new.during
      BY <1>1, RunningFacts
    <3> QED
      BY <2>4, <2>5, <3>1, <3>2
  <2>6. CASE \E i \in {1, 2} : i # j /\ Recorded(q, i) /\ lastErr[q] = Outcome(run[<<q, i>>].tok)
    BY <1>2, <2>3, <2>6 DEF ErrorAt
  <2>7. CASE \E g \in recent[q] : /\ g.result = lastErr[q]
                                  /\ \A i \in {1, 2} : Recorded(q, i) => <<q, i>> \in g.during
    <3>1. PICK g \in recent[q] : /\ g.result = lastErr[q]
                                 /\ \A i \in {1, 2} : Recorded(q, i) => <<q, i>> \in g.during
      BY <2>7
    <3>2. a \in g.during
      BY <1>1, <2>2, <3>1
    <3>3. recent[q] \in History /\ Running(q) \in SUBSET Routines /\ res \in {"nil", "error"}
      BY OutcomeType, RunningFacts DEF IndInv, StateOK
    <3>4. PICK h \in recent'[q] : h.result = g.result /\ h.during = g.during \ {a}
      <4> DEFINE k == [g EXCEPT !.during = g.during \ {a}]
      <4>1. k \in recent'[q]
        BY <1>4, <3>2 DEF Ended
      <4>2. k.result = g.result /\ k.during = g.during \ {a}
        BY <3>3 DEF History
      <4> HIDE DEF k
      <4> QED
        BY <4>1, <4>2
    <3>5. \A i \in {1, 2} : i # j /\ Recorded(q, i) => <<q, i>> \in h.during
      BY <1>1, <3>1, <3>4
    <3> QED
      BY <2>4, <3>1, <3>4, <3>5
  <2> QED
    BY <1>1, <2>1, <2>5, <2>6, <2>7 DEF ErrorAt
<1>10. ASSUME NEW s \in Sources, s # q, up[s] PROVE ErrorAt(s)'
  <2>1. \A i \in {1, 2} : run'[<<s, i>>] = run[<<s, i>>]
    BY <1>1, <1>7, <1>10
  <2>2. ErrorAt(s)
    BY <1>10 DEF IndInv, ErrorOK
  <2>3. \A i \in {1, 2} : Recorded(s, i)' = Recorded(s, i)
    BY <2>1 DEF Recorded
  <2> QED
    BY <1>2, <1>4, <1>10, <2>1, <2>2, <2>3, ErrorKept
<1>11. ErrorOK'
  BY <1>2, <1>9, <1>10 DEF ErrorOK
<1> QED
  BY <1>3, <1>6, <1>8, <1>11 DEF IndInv

(* The cached token is handed over; a refresh that it starts finds both    *)
(* refreshers idle.                                                        *)
LEMMA HandCachedOK ==
    ASSUME IndInv, NEW c \in Callers, HandCached(c)
    PROVE  IndInv'
<1> DEFINE q == Home[c]
           r == [run[c] EXCEPT !.pc = "return"]
           k == [Idle EXCEPT !.pc = "mint"]
           refresh == run[c].tok.exp - clock < Ts(c).cacheRefreshBefore /\ MayRefresh(q)
<1>1. /\ c \in Routines /\ c \notin Refreshers /\ Owner(c) = q /\ q \in Sources
      /\ run[c].pc = "have" /\ run \in [Routines -> RunType] /\ up[q]
      /\ cache \in [Paths -> Tokens \cup {NoTok}] /\ refreshing \in [Sources -> BOOLEAN]
  BY OwnerFacts, RoutineFacts DEF HandCached, RoutineOK, IndInv, StateOK
<1>2. /\ run' = [a \in Routines |-> CASE a = c -> r
                                    [] refresh /\ a = FreeRefresher(q) -> k
                                    [] OTHER -> run[a]]
      /\ refreshing' = [refreshing EXCEPT ![q] = refreshing[q] \/ refresh]
      /\ UNCHANGED <<clock, cache, up, lastErr, recent>>
  BY <1>1 DEF HandCached
<1>3. RoutineOK(c, r, up, clock) /\ r \in RunType
  <2>1. RoutineOK(c, r, up, clock)
    BY <1>1, GotoOK DEF StepsOf
  <2> QED
    BY <2>1 DEF RoutineOK
<1>4. k \in RunType /\ k.pc = "mint" /\ k.since = 0 /\ k.tok = NoTok
  BY IdleFacts DEF RunType
<1>5. refresh => ~refreshing[q]
  BY DEF MayRefresh
<1> HIDE DEF r, k, refresh
<1>6. CASE ~refresh
  <2>1. run' = [run EXCEPT ![c] = r]
    BY <1>1, <1>2, <1>3, <1>6
  <2>2. refreshing' = refreshing
    <3>1. (refreshing[q] \/ refresh) = refreshing[q]
      BY <1>1, <1>6
    <3> QED
      BY <1>1, <1>2, <3>1
  <2> QED
    BY <1>1, <1>2, <1>3, <2>1, <2>2, QuietStep DEF Quiet
<1>7. CASE refresh
  <2>1. ~Busy(q, 1) /\ ~Busy(q, 2)
    BY <1>1, <1>5, <1>7 DEF IndInv, RefreshOK
  <2>2. FreeRefresher(q) = <<q, 1>>
    BY <2>1 DEF FreeRefresher, Busy
  <2>3. \A a \in Routines : run'[a] = IF a = c THEN r ELSE IF a = <<q, 1>> THEN k ELSE run[a]
    <3>1. c # <<q, 1>>
      BY <1>1, OwnerFacts
    <3> QED
      BY <1>2, <1>7, <2>2, <3>1
  <2>4. RoutinesOK'
    <3>1. RoutineOK(<<q, 1>>, k, up, clock)
      <4>1. <<q, 1>> \in Routines /\ <<q, 1>> \notin Callers /\ Owner(<<q, 1>>) = q
        BY <1>1, OwnerFacts
      <4>2. clock \in Nat
        BY <4>1, RoutineFacts
      <4> QED
        BY <1>1, <1>4, <4>1, <4>2 DEF RoutineOK, StepsOf
    <3>2. ASSUME NEW a \in Routines PROVE RoutineOK(a, run'[a], up, clock) /\ run'[a] \in RunType
      BY <1>3, <1>4, <2>3, <3>1, RoutineFacts
    <3>3. run' \in [Routines -> RunType]
      BY <1>2, <3>2
    <3> QED
      BY <1>2, <3>2, <3>3 DEF RoutinesOK
  <2>5. /\ run'[<<q, 1>>] = k
        /\ \A s \in Sources, i \in {1, 2} :
            <<s, i>> # <<q, 1>> => run'[<<s, i>>] = run[<<s, i>>]
    <3>1. \A s \in Sources, i \in {1, 2} : <<s, i>> \in Routines /\ <<s, i>> # c
      BY <1>1, OwnerFacts
    <3>2. <<q, 1>> \in Routines /\ <<q, 1>> # c
      BY <1>1, <3>1
    <3>3. run'[<<q, 1>>] = k
      BY <2>3, <3>2
    <3>4. ASSUME NEW s \in Sources, NEW i \in {1, 2}, <<s, i>> # <<q, 1>>
          PROVE  run'[<<s, i>>] = run[<<s, i>>]
      BY <2>3, <3>1, <3>4
    <3> QED
      BY <3>3, <3>4
  <2>6. /\ refreshing' \in [Sources -> BOOLEAN] /\ refreshing'[q]
        /\ \A s \in Sources : s # q => refreshing'[s] = refreshing[s]
    <3>1. refreshing' = [refreshing EXCEPT ![q] = TRUE]
      BY <1>2, <1>7
    <3> QED
      BY <1>1, <3>1
  <2>7. StateOK'
    BY <1>2, <2>6 DEF IndInv, StateOK
  <2>8. RefreshOK'
    <3>1. Busy(q, 1)' /\ ~Busy(q, 2)'
      BY <1>1, <1>4, <2>1, <2>5 DEF Busy
    <3>2. ASSUME NEW s \in Sources, s # q, up[s]
          PROVE  /\ ~refreshing'[s] => ~Busy(s, 1)' /\ ~Busy(s, 2)'
                 /\ refreshing'[s] => (Busy(s, 1)' <=> ~Busy(s, 2)')
      <4>1. run'[<<s, 1>>] = run[<<s, 1>>] /\ run'[<<s, 2>>] = run[<<s, 2>>]
        BY <2>5, <3>2
      <4> QED
        BY <2>6, <3>2, <4>1 DEF IndInv, RefreshOK, Busy
    <3> QED
      BY <1>2, <2>6, <3>1, <3>2 DEF RefreshOK
  <2>9. ErrorOK'
    <3>1. ASSUME NEW s \in Sources, NEW i \in {1, 2}
          PROVE  /\ Recorded(s, i)' = Recorded(s, i)
                 /\ Recorded(s, i) => run'[<<s, i>>].tok = run[<<s, i>>].tok
      <4>1. CASE <<s, i>> = <<q, 1>>
        <5>1. run[<<s, i>>].pc = "idle" /\ run'[<<s, i>>].pc = "mint"
          BY <1>4, <2>1, <2>5, <4>1 DEF Busy
        <5> QED
          BY <5>1 DEF Recorded
      <4>2. CASE <<s, i>> # <<q, 1>>
        BY <2>5, <4>2 DEF Recorded
      <4> QED
        BY <4>1, <4>2
    <3> QED
      BY <1>2, <3>1, ErrorKept DEF IndInv, ErrorOK
  <2> QED
    BY <2>4, <2>7, <2>8, <2>9 DEF IndInv
<1> QED
  BY <1>6, <1>7

-----------------------------------------------------------------------------
(* Processes and the clock.                                                *)

LEMMA StartOK ==
    ASSUME IndInv, NEW q \in Sources, Start(q)
    PROVE  IndInv'
<1>1. /\ ~up[q] /\ Validate(Config[q]) /\ UNCHANGED <<clock, cache, run>>
      /\ up' = [up EXCEPT ![q] = TRUE] /\ lastErr' = [lastErr EXCEPT ![q] = "nil"]
      /\ refreshing' = [refreshing EXCEPT ![q] = FALSE]
      /\ recent' = [recent EXCEPT ![q] = NoneRecent("nil")]
  BY DEF Start
<1>2. NoneRecent("nil") \in History
  BY DEF NoneRecent, History
<1>3. StateOK /\ RoutinesOK
  BY DEF IndInv
<1>4. /\ up' \in [Sources -> BOOLEAN] /\ refreshing' \in [Sources -> BOOLEAN]
      /\ lastErr' \in [Sources -> {"nil", "error"}] /\ recent' \in [Sources -> History]
      /\ up'[q] /\ ~refreshing'[q] /\ lastErr'[q] = "nil" /\ recent'[q] = NoneRecent("nil")
      /\ \A s \in Sources : s # q => /\ up'[s] = up[s] /\ refreshing'[s] = refreshing[s]
                                      /\ lastErr'[s] = lastErr[s] /\ recent'[s] = recent[s]
  BY <1>1, <1>2, <1>3 DEF StateOK
<1>5. StateOK'
  BY <1>1, <1>3, <1>4 DEF StateOK
<1>6. RoutinesOK'
  <2>1. ASSUME NEW a \in Routines PROVE RoutineOK(a, run[a], up', clock)
    BY <1>3, <1>4, OwnerFacts DEF RoutinesOK, RoutineOK
  <2> QED
    BY <1>1, <1>3, <2>1 DEF RoutinesOK
<1>7. ~Busy(q, 1) /\ ~Busy(q, 2)
  BY <1>1, <1>3, OwnerFacts DEF Busy, RoutinesOK, RoutineOK
<1>8. RefreshOK'
  BY <1>1, <1>4, <1>7 DEF IndInv, RefreshOK, Busy
<1>9. ErrorOK'
  <2>1. ErrorAt(q)'
    <3>1. ~Recorded(q, 1)' /\ ~Recorded(q, 2)'
      BY <1>1, <1>7 DEF Recorded, Busy
    <3>2. [result |-> "nil", during |-> {}] \in recent'[q]
      BY <1>4 DEF NoneRecent
    <3> QED
      BY <1>4, <3>1, <3>2 DEF ErrorAt
  <2>2. ASSUME NEW s \in Sources, s # q, up[s] PROVE ErrorAt(s)'
    BY <1>1, <1>4, <2>2 DEF IndInv, ErrorOK, ErrorAt, Recorded
  <2> QED
    BY <1>4, <2>1, <2>2 DEF ErrorOK
<1> QED
  BY <1>5, <1>6, <1>8, <1>9 DEF IndInv

LEMMA ExitOK ==
    ASSUME IndInv, NEW q \in Sources, Exit(q)
    PROVE  IndInv'
<1>1. /\ up' = [up EXCEPT ![q] = FALSE]
      /\ run' = [a \in Routines |-> IF Owner(a) = q THEN Idle ELSE run[a]]
      /\ UNCHANGED <<clock, cache, lastErr, refreshing, recent>>
  BY DEF Exit
<1>2. StateOK /\ RoutinesOK
  BY DEF IndInv
<1>3. /\ up' \in [Sources -> BOOLEAN] /\ ~up'[q]
      /\ \A s \in Sources : s # q => up'[s] = up[s]
  BY <1>1, <1>2 DEF StateOK
<1>4. StateOK'
  BY <1>1, <1>2, <1>3 DEF StateOK
<1>5. RoutinesOK'
  <2>1. ASSUME NEW a \in Routines
        PROVE  RoutineOK(a, run'[a], up', clock) /\ run'[a] \in RunType
    <3>1. CASE Owner(a) = q
      BY <1>1, <3>1, IdleFacts, RoutineFacts
    <3>2. CASE Owner(a) # q
      <4>1. run'[a] = run[a] /\ up'[Owner(a)] = up[Owner(a)]
        BY <1>1, <1>3, <3>2, OwnerFacts
      <4> QED
        BY <4>1, RoutineFacts DEF RoutineOK
    <3> QED
      BY <3>1, <3>2
  <2>2. run' \in [Routines -> RunType]
    BY <1>1, <2>1
  <2> QED
    BY <1>1, <2>1, <2>2 DEF RoutinesOK
<1>6. ASSUME NEW s \in Sources, s # q
      PROVE  \A i \in {1, 2} : run'[<<s, i>>] = run[<<s, i>>]
  <2>1. \A i \in {1, 2} : <<s, i>> \in Routines /\ Owner(<<s, i>>) = s
    BY OwnerFacts
  <2> QED
    BY <1>1, <1>6, <2>1
<1>7. RefreshOK'
  BY <1>1, <1>3, <1>6 DEF IndInv, RefreshOK, Busy
<1>8. ErrorOK'
  <2>1. ASSUME NEW s \in Sources, s # q, up[s] PROVE ErrorAt(s)'
    <3>1. ErrorAt(s)
      BY <2>1 DEF IndInv, ErrorOK
    <3> QED
      BY <1>1, <1>6, <2>1, <3>1, ErrorKept DEF Recorded
  <2> QED
    BY <1>3, <2>1 DEF ErrorOK
<1> QED
  BY <1>4, <1>5, <1>7, <1>8 DEF IndInv

LEMMA TickOK ==
    ASSUME IndInv, Tick
    PROVE  IndInv'
<1>1. /\ clock + Step <= MaxClock /\ clock' = clock + Step
      /\ UNCHANGED <<cache, up, lastErr, refreshing, run, recent>>
  BY DEF Tick
<1>2. StateOK'
  <2>1. PICK n \in Nat : clock = n * Step /\ n <= clock
    BY DEF IndInv, StateOK
  <2>2. clock \in Nat /\ Step \in Nat /\ Step >= 1 /\ MaxClock \in Nat
    BY SourceAssumption DEF IndInv, StateOK
  <2>3. n + 1 \in Nat /\ clock' = (n + 1) * Step /\ n + 1 <= clock' /\ clock' \in 0..MaxClock
    BY <1>1, <2>1, <2>2
  <2> QED
    BY <1>1, <2>3 DEF IndInv, StateOK
<1>3. RoutinesOK'
  <2>1. clock \in Nat /\ clock' \in Nat /\ clock <= clock'
    BY <1>1, SourceAssumption DEF IndInv, StateOK
  <2>2. ASSUME NEW a \in Routines PROVE RoutineOK(a, run[a], up, clock')
    <3>1. RoutineOK(a, run[a], up, clock) /\ run[a].since \in Nat
      BY RoutineFacts
    <3> QED
      BY <2>1, <3>1 DEF RoutineOK
  <2> QED
    BY <1>1, <2>2 DEF IndInv, RoutinesOK
<1>4. RefreshOK' /\ ErrorOK'
  BY <1>1 DEF IndInv, RefreshOK, Busy, ErrorOK, ErrorAt, Recorded
<1> QED
  BY <1>2, <1>3, <1>4 DEF IndInv

-----------------------------------------------------------------------------
(* The theorems.                                                           *)

LEMMA InitInv == Init => IndInv
<1> SUFFICES ASSUME Init PROVE IndInv
  OBVIOUS
<1>1. /\ clock = 0 /\ cache \in [Paths -> Tokens \cup {NoTok}]
      /\ up = [s \in Sources |-> FALSE] /\ lastErr = [s \in Sources |-> "nil"]
      /\ refreshing = [s \in Sources |-> FALSE] /\ run = [a \in Routines |-> Idle]
      /\ recent = [s \in Sources |-> NoneRecent("nil")]
  BY DEF Init
<1>2. StateOK
  <2>1. 0 \in 0..MaxClock /\ 0 = 0 * Step /\ 0 \in Nat /\ 0 <= 0
    BY SourceAssumption
  <2>2. NoneRecent("nil") \in History
    BY DEF NoneRecent, History
  <2> QED
    BY <1>1, <2>1, <2>2 DEF StateOK
<1>3. RoutinesOK
  BY <1>1, IdleFacts DEF RoutinesOK
<1>4. RefreshOK /\ ErrorOK
  BY <1>1 DEF RefreshOK, ErrorOK
<1> QED
  BY <1>2, <1>3, <1>4 DEF IndInv

LEMMA StepInv == IndInv /\ [Next]_vars => IndInv'
<1> SUFFICES ASSUME IndInv, [Next]_vars PROVE IndInv'
  OBVIOUS
<1>1. CASE \E c \in Callers : Call(c)
  BY <1>1, CallOK
<1>2. ASSUME NEW a \in Routines, Mint(a) \/ Proceed(a) PROVE IndInv'
  BY <1>2, MintOK, MintFailsOK, WriteOK, ReadCacheOK, HandCachedOK, ReturnOK,
     RecordRefreshOK, ClearRefreshingOK DEF Proceed
<1>3. CASE \E s \in Sources : Start(s) \/ Exit(s)
  BY <1>3, StartOK, ExitOK
<1>4. CASE Tick
  BY <1>4, TickOK
<1>5. CASE UNCHANGED vars
  BY <1>5 DEF vars, IndInv, StateOK, RoutinesOK, RefreshOK, Busy, ErrorOK, ErrorAt, Recorded
<1> QED
  BY <1>1, <1>2, <1>3, <1>4, <1>5 DEF Next

(* The invariant the other theorems rest on.                               *)
THEOREM Invariance == Spec => []IndInv
BY InitInv, StepInv, PTL DEF Spec

(* Every variable has its type: each goroutine of awsauth is at a step of  *)
(* its own code, and only complete tokens are in the cache files.          *)
THEOREM TypeCorrect == Spec => []TypeOK
<1>1. IndInv => TypeOK
  BY DEF IndInv, StateOK, RoutinesOK, RoutineOK, RunType, StepsOf, TypeOK
<1> QED
  BY <1>1, Invariance, PTL

(* However calls, refreshes and restarts interleave, a TokenSource has one *)
(* background refresh while refreshing is set and none otherwise           *)
(* (refreshAsync).                                                         *)
THEOREM RefreshAlone == Spec => []OneRefresh
<1>1. IndInv => OneRefresh
  <2> SUFFICES ASSUME IndInv, NEW s \in Sources, up[s]
               PROVE  Cardinality({i \in {1, 2} : run[<<s, i>>].pc # "idle"})
                        = (IF refreshing[s] THEN 1 ELSE 0)
    BY DEF OneRefresh
  <2> DEFINE B == {i \in {1, 2} : run[<<s, i>>].pc # "idle"}
  <2>1. CASE refreshing[s]
    <3>1. B = {1} \/ B = {2}
      BY <2>1 DEF IndInv, RefreshOK, Busy
    <3> HIDE DEF B
    <3>2. Cardinality(B) = 1
      BY <3>1, FS_Singleton
    <3> QED
      BY <2>1, <3>2 DEF B
  <2>2. CASE ~refreshing[s]
    <3>1. B = {}
      BY <2>2 DEF IndInv, RefreshOK, Busy
    <3> HIDE DEF B
    <3>2. Cardinality(B) = 0
      BY <3>1, FS_EmptySet
    <3> QED
      BY <2>2, <3>2 DEF B
  <2> QED
    BY <2>1, <2>2
<1> QED
  BY <1>1, Invariance, PTL

(* LastError reports an operation that none has overtaken, or the refresh  *)
(* now running (NATSOption, refreshAsync).                                 *)
THEOREM LastErrorIsRecent == Spec => []LastErrorRecent
<1>1. IndInv => LastErrorRecent
  BY DEF IndInv, ErrorOK, ErrorAt, Recorded, LastErrorRecent, Results
<1> QED
  BY <1>1, Invariance, PTL

(* No step of any process, its end included, leaves a cache file without   *)
(* the token it held: what writeCache renames into place is a token.       *)
THEOREM NeverTorn == Spec => CacheNeverTorn
<1>1. IndInv /\ [Next]_vars => [\A p \in Paths : cache[p] # NoTok => cache'[p] # NoTok]_vars
  <2> SUFFICES ASSUME IndInv, Next, NEW p \in Paths, cache[p] # NoTok
               PROVE  cache'[p] # NoTok
    OBVIOUS
  <2>1. CASE \E a \in Routines : Rename(a)
    <3>1. PICK a \in Routines : Rename(a)
      BY <2>1
    <3>2. run[a].tok # NoTok
      BY <3>1, RoutineFacts DEF Rename, RoutineOK
    <3>3. cache \in [Paths -> Tokens \cup {NoTok}]
      BY DEF IndInv, StateOK
    <3>4. cache' = cache \/ cache' = [cache EXCEPT ![Ts(a).cachePath] = run[a].tok]
      BY <3>1 DEF Rename
    <3> QED
      BY <3>2, <3>3, <3>4
  <2>2. CASE UNCHANGED cache
    BY <2>2
  <2> QED
    BY <2>1, <2>2 DEF Next, Call, Mint, Proceed, MintFails, WriteTemp, ReadCache, HandCached,
                      Return, RecordRefresh, ClearRefreshing, Start, Exit, Tick
<1> QED
  BY <1>1, Invariance, PTL DEF Spec, CacheNeverTorn

-----------------------------------------------------------------------------
(* The refinement: a caller asks when it calls Token, is answered when     *)
(* Token returns, and nothing the cache, STS or the refresh do in between  *)
(* shows.                                                                  *)

(* A step to r of one goroutine that its caller does not notice.           *)
Unseen(a, r) ==
    a \in Callers => /\ run[a].pc \notin {"idle", "done"} /\ r.pc \notin {"idle", "done"}
                     /\ r.since = run[a].since

LEMMA UnseenStep ==
    ASSUME IndInv, NEW a \in Routines, NEW r, run' = [run EXCEPT ![a] = r], Unseen(a, r),
           UNCHANGED clock
    PROVE  UNCHANGED Supply!supplyVars
<1>1. \A c \in Callers : run'[c] = IF c = a THEN r ELSE run[c]
  BY RoutineFacts, OwnerFacts
<1>2. ASSUME NEW c \in Callers PROVE Asked(run'[c]) = Asked(run[c])
  BY <1>1 DEF Asked, Unseen
<1> QED
  BY <1>2 DEF Supply!supplyVars

LEMMA UnseenGoto ==
    ASSUME IndInv, NEW a \in Routines, NEW pc, Goto(a, pc), UNCHANGED clock,
           a \in Callers => run[a].pc \notin {"idle", "done"} /\ pc \notin {"idle", "done"}
    PROVE  UNCHANGED Supply!supplyVars
<1> DEFINE r == [run[a] EXCEPT !.pc = pc]
<1>1. run' = [run EXCEPT ![a] = r]
  BY RoutineFacts DEF Goto
<1>2. r.pc = pc /\ r.since = run[a].since
  BY RoutineFacts DEF RunType
<1> HIDE DEF r
<1>3. Unseen(a, r)
  BY <1>2 DEF Unseen
<1> QED
  BY <1>1, <1>3, UnseenStep

LEMMA SupplyAsk ==
    ASSUME IndInv, NEW c \in Callers, Call(c)
    PROVE  Supply!Ask(c)
<1> DEFINE p == IF Ts(c).cachePath = NoPath THEN "mint" ELSE "read"
           r == [pc |-> p, since |-> clock, tok |-> NoTok]
           call(f) == [d \in Callers |-> Asked(f[d])]
<1>1. run' = [run EXCEPT ![c] = r] /\ run[c].pc \in {"idle", "done"} /\ clock' = clock
  BY DEF Call
<1>2. Asked(run[c]).phase # "asked"
  BY <1>1 DEF Asked
<1>3. p \in {"mint", "read"}
  OBVIOUS
<1> HIDE DEF p
<1>4. Asked(r) = [phase |-> "asked", since |-> clock, tok |-> NoTok]
  BY <1>3 DEF Asked
<1> HIDE DEF r
<1>5. call(run') = [call(run) EXCEPT ![c] = [phase |-> "asked", since |-> clock, tok |-> NoTok]]
  <2>1. \A d \in Callers : run'[d] = IF d = c THEN r ELSE run[d]
    BY <1>1, RoutineFacts, OwnerFacts
  <2> QED
    BY <1>4, <2>1
<1> QED
  BY <1>1, <1>2, <1>5 DEF Supply!Ask

LEMMA SupplyAnswer ==
    ASSUME IndInv, NEW c \in Callers, Return(c)
    PROVE  Supply!Answer(c)
<1> DEFINE t == run[c].tok
           call(f) == [d \in Callers |-> Asked(f[d])]
<1>0. c \in Routines /\ run[c].pc = "return" /\ Goto(c, "done") /\ clock' = clock
  BY OwnerFacts DEF Return
<1>1. /\ run'[c].pc = "done" /\ run'[c].since = run[c].since /\ run'[c].tok = t
      /\ \A d \in Callers : d # c => run'[d] = run[d]
  <2>1. run'[c] = [run[c] EXCEPT !.pc = "done"] /\ \A d \in Callers : d # c => run'[d] = run[d]
    BY <1>0, RoutineFacts, OwnerFacts DEF Goto
  <2> QED
    BY <1>0, <2>1, RoutineFacts DEF RunType
<1>2. Asked(run[c]) = [phase |-> "asked", since |-> run[c].since, tok |-> NoTok]
  BY <1>0 DEF Asked
<1>3. Asked(run'[c]) = [phase |-> "answered", since |-> run[c].since, tok |-> t]
  BY <1>1 DEF Asked
<1>4. [Asked(run[c]) EXCEPT !.phase = "answered", !.tok = t] = Asked(run'[c])
  <2> DEFINE a == Asked(run[c])
             q == [a EXCEPT !.phase = "answered", !.tok = t]
  <2>1. a \in [phase : {"asked"}, since : {run[c].since}, tok : {NoTok}]
    BY <1>2
  <2> HIDE DEF a
  <2>2. q \in [phase : {"answered"}, since : {run[c].since}, tok : {t}]
    BY <2>1
  <2> HIDE DEF q
  <2>3. q = [phase |-> "answered", since |-> run[c].since, tok |-> t]
    BY <2>2
  <2> QED
    BY <1>3, <2>3 DEF q, a
<1>5. call(run') = [call(run) EXCEPT ![c] =
                        [call(run)[c] EXCEPT !.phase = "answered", !.tok = t]]
  BY <1>1, <1>4
<1>6. t \in Supply!Offer(c, call(run)[c].since) \cup {NoTok}
  <2>1. t # NoTok => t \in Tokens /\ Ts(c).audience \in t.aud /\ t.exp > run[c].since
    BY <1>0, RoutineFacts DEF RoutineOK
  <2>2. call(run)[c].since = run[c].since
    BY <1>2
  <2> QED
    BY <2>1, <2>2 DEF Supply!Offer
<1>7. call(run)[c].phase = "asked"
  BY <1>2
<1> QED
  BY <1>0, <1>5, <1>6, <1>7 DEF Supply!Answer

LEMMA SupplyCrash ==
    ASSUME IndInv, NEW s \in Sources, Exit(s)
    PROVE  Supply!Crash
<1> DEFINE gone == {c \in Callers : Home[c] = s}
           call(f) == [c \in Callers |-> Asked(f[c])]
<1>1. /\ clock' = clock
      /\ \A c \in Callers : run'[c] = IF c \in gone THEN Idle ELSE run[c]
  BY OwnerFacts DEF Exit
<1>2. Asked(Idle) = Supply!Unasked
  BY IdleFacts DEF Asked, Supply!Unasked
<1>3. call(run') = [c \in Callers |-> IF c \in gone THEN Supply!Unasked ELSE call(run)[c]]
  BY <1>1, <1>2
<1> QED
  BY <1>1, <1>3 DEF Supply!Crash

LEMMA SupplyQuiet ==
    ASSUME IndInv, NEW a \in Routines,
           Mint(a) \/ Proceed(a), ~(a \in Callers /\ Return(a))
    PROVE  UNCHANGED Supply!supplyVars
<1>1. CASE Mint(a)
  <2> DEFINE t == Issued(Ts(a), clock)
             p == IF a \in Refreshers THEN "record"
                  ELSE IF Ts(a).cachePath = NoPath THEN "return" ELSE "write"
             r == [run[a] EXCEPT !.pc = p, !.tok = t]
  <2>1. run' = [run EXCEPT ![a] = r] /\ clock' = clock /\ run[a].pc = "mint"
    BY <1>1 DEF Mint
  <2>2. p \in {"record", "return", "write"}
    OBVIOUS
  <2> HIDE DEF p, t
  <2>3. r.pc = p /\ r.since = run[a].since
    BY RoutineFacts DEF RunType
  <2> HIDE DEF r
  <2> QED
    BY <2>1, <2>2, <2>3, UnseenStep DEF Unseen
<1>2. CASE MintFails(a) \/ WriteTemp(a) \/ Rename(a)
  <2>1. PICK pc \in {"record", "return", "rename", "clear"} : Goto(a, pc)
    BY <1>2 DEF MintFails, WriteTemp, Rename, Written
  <2>2. run[a].pc \in {"mint", "write", "rename"} /\ clock' = clock
    BY <1>2 DEF MintFails, WriteTemp, Rename
  <2> QED
    BY <2>1, <2>2, UnseenGoto
<1>3. CASE a \in Callers /\ ReadCache(a)
  <2> DEFINE t == cache[Ts(a).cachePath]
             h == [run[a] EXCEPT !.pc = "have", !.tok = t]
             m == [run[a] EXCEPT !.pc = "mint"]
  <2>1. run[a].pc = "read" /\ clock' = clock
    BY <1>3 DEF ReadCache
  <2>2. run' = [run EXCEPT ![a] = h] \/ run' = [run EXCEPT ![a] = m]
    BY <1>3 DEF ReadCache
  <2> HIDE DEF t
  <2>3. /\ h.pc = "have" /\ h.since = run[a].since
        /\ m.pc = "mint" /\ m.since = run[a].since
    BY RoutineFacts DEF RunType
  <2> HIDE DEF h, m
  <2>4. Unseen(a, h) /\ Unseen(a, m)
    BY <2>1, <2>3 DEF Unseen
  <2> QED
    BY <2>1, <2>2, <2>4, UnseenStep
<1>4. CASE a \in Callers /\ HandCached(a)
  <2> DEFINE r == [run[a] EXCEPT !.pc = "return"]
  <2>1. run[a].pc = "have" /\ clock' = clock
    BY <1>4 DEF HandCached
  <2>2. \A c \in Callers : run'[c] = IF c = a THEN r ELSE run[c]
    <3>1. FreeRefresher(Home[a]) \notin Callers
      BY <1>4, SourceAssumption DEF FreeRefresher
    <3> QED
      BY <1>4, <3>1, OwnerFacts DEF HandCached
  <2>3. r.pc = "return" /\ r.since = run[a].since
    BY RoutineFacts DEF RunType
  <2> HIDE DEF r
  <2>4. Asked(r) = Asked(run[a])
    BY <2>1, <2>3 DEF Asked
  <2> QED
    BY <2>1, <2>2, <2>4 DEF Supply!supplyVars
<1>5. CASE a \in Refreshers /\ (RecordRefresh(a) \/ ClearRefreshing(a))
  <2>1. clock' = clock /\ \A c \in Callers : run'[c] = run[c]
    BY <1>5, RoutineFacts, OwnerFacts DEF RecordRefresh, ClearRefreshing, Goto
  <2> QED
    BY <2>1 DEF Supply!supplyVars
<1> QED
  BY <1>1, <1>2, <1>3, <1>4, <1>5 DEF Proceed

LEMMA SupplyStep ==
    ASSUME IndInv, [Next]_vars
    PROVE  [Supply!Next]_(Supply!supplyVars)
<1>1. CASE \E c \in Callers : Call(c)
  BY <1>1, SupplyAsk DEF Supply!Next
<1>2. ASSUME NEW a \in Routines, Mint(a) \/ Proceed(a)
      PROVE  [Supply!Next]_(Supply!supplyVars)
  <2>1. CASE a \in Callers /\ Return(a)
    BY <2>1, SupplyAnswer DEF Supply!Next
  <2>2. CASE ~(a \in Callers /\ Return(a))
    BY <1>2, <2>2, SupplyQuiet
  <2> QED
    BY <2>1, <2>2
<1>3. CASE \E s \in Sources : Exit(s)
  BY <1>3, SupplyCrash DEF Supply!Next
<1>4. CASE (\E s \in Sources : Start(s)) \/ UNCHANGED vars
  BY <1>4 DEF Start, vars, Supply!supplyVars
<1>5. CASE Tick
  BY <1>5 DEF Tick, Supply!Tick, Supply!Next
<1> QED
  BY <1>1, <1>2, <1>3, <1>4, <1>5 DEF Next

(* The AWS token source implements TokenSupply: whatever other processes   *)
(* and the background refresh do to the cache file, a token that Token     *)
(* returns has the caller's audience and was good when the caller asked.   *)
THEOREM Refinement == Spec => KeepsSupply
<1>1. Init => Supply!Init
  <2> SUFFICES ASSUME Init PROVE Supply!Init
    OBVIOUS
  <2>1. Asked(Idle) = Supply!Unasked
    BY IdleFacts DEF Asked, Supply!Unasked
  <2>2. clock = 0 /\ \A c \in Callers : run[c] = Idle
    BY OwnerFacts DEF Init
  <2> QED
    BY <2>1, <2>2 DEF Supply!Init
<1>2. IndInv /\ [Next]_vars => [Supply!Next]_(Supply!supplyVars)
  BY SupplyStep
<1> QED
  BY <1>1, <1>2, Invariance, PTL DEF Spec, KeepsSupply, Supply!Spec
=============================================================================
