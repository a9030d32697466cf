-------------------------- MODULE FileSourceProofs --------------------------
(***************************************************************************)
(* Proofs about the Kubernetes token source, and about the connections     *)
(* that take their tokens from it (Client), for any callers, any lifetime  *)
(* of the projected tokens and any rotation the kubelet may make.          *)
(***************************************************************************)
EXTENDS Client, TLAPS

-----------------------------------------------------------------------------
(* The inductive invariant.                                                *)

RunType == [pc : {"idle", "read", "return", "done"}, since : 0..MaxClock,
            found : Tokens \cup {NoTok}, tok : Tokens \cup {NoTok}]

TypeInv ==
    /\ clock \in 0..MaxClock /\ file \in Tokens \cup {NoTok}
    /\ run \in [Callers -> RunType]

(* The token in the file was issued by now and has not expired.            *)
FileOK == file # NoTok => clock < file.exp /\ file.exp <= clock + Lifetime

(* A call r began with a token no more recent than the one in file f; what *)
(* it has read is no older than that, and was good when the call began.    *)
CallOK(r, f, now) ==
    /\ r.since <= now
    /\ r.found.exp <= f.exp
    /\ r.tok # NoTok => r.found.exp <= r.tok.exp /\ r.since < r.tok.exp

CallsOK == \A c \in Callers : CallOK(run[c], file, clock)

IndInv == TypeInv /\ FileOK /\ CallsOK

-----------------------------------------------------------------------------
(* A token of the kubelet is one for the audience, and never expires at 0. *)
LEMMA TokenFacts ==
    ASSUME NEW t \in Tokens \cup {NoTok}
    PROVE  /\ t.exp \in Nat
           /\ t # NoTok => t \in Tokens /\ audience \in t.aud
           /\ NoTok.exp = 0
<1>1. CASE t \in Tokens
  <2>1. PICK at \in 0..MaxClock : t = [aud |-> {audience}, exp |-> at + Lifetime]
    BY <1>1 DEF Tokens, Issued
  <2>2. t.exp = at + Lifetime /\ t.aud = {audience}
    BY <2>1
  <2> QED
    BY <1>1, <2>2, FileAssumption DEF NoTok
<1>2. CASE t = NoTok
  BY <1>2 DEF NoTok
<1> QED
  BY <1>1, <1>2

LEMMA IssuedFacts ==
    ASSUME NEW at \in 0..MaxClock
    PROVE  Issued(at) \in Tokens /\ Issued(at).exp = at + Lifetime
BY DEF Tokens, Issued

LEMMA RunFacts ==
    ASSUME IndInv, NEW c \in Callers
    PROVE  /\ run[c] \in RunType /\ CallOK(run[c], file, clock)
           /\ run[c].since \in Nat /\ clock \in Nat /\ file.exp \in Nat
           /\ run[c].found.exp \in Nat /\ run[c].tok.exp \in Nat
<1>1. /\ run[c] \in RunType /\ clock \in 0..MaxClock /\ file \in Tokens \cup {NoTok}
      /\ CallOK(run[c], file, clock)
  BY DEF IndInv, TypeInv, CallsOK
<1>2. /\ run[c].since \in 0..MaxClock /\ run[c].found \in Tokens \cup {NoTok}
      /\ run[c].tok \in Tokens \cup {NoTok}
  BY <1>1 DEF RunType
<1> QED
  BY <1>1, <1>2, TokenFacts, FileAssumption

(* A step that only replaces the record of c by a good one.                *)
LEMMA OneCall ==
    ASSUME IndInv, NEW c \in Callers, NEW r \in RunType, CallOK(r, file, clock),
           run' = [run EXCEPT ![c] = r], UNCHANGED <<clock, file>>
    PROVE  IndInv'
BY DEF IndInv, TypeInv, FileOK, CallsOK

LEMMA IndStep ==
    ASSUME IndInv, [Next]_vars
    PROVE  IndInv'
<1>0. /\ clock \in Nat /\ clock \in 0..MaxClock /\ MaxClock \in Nat /\ Lifetime \in Nat
      /\ Lifetime > 1 /\ file \in Tokens \cup {NoTok} /\ file.exp \in Nat
      /\ run \in [Callers -> RunType] /\ NoTok \in Tokens \cup {NoTok} /\ NoTok.exp = 0
  BY FileAssumption, TokenFacts DEF IndInv, TypeInv
<1>1. ASSUME NEW c \in Callers, Call(c)
      PROVE  IndInv'
  <2> DEFINE r == [pc |-> "read", since |-> clock, found |-> file, tok |-> NoTok]
  <2>1. r \in RunType
    BY <1>0 DEF RunType
  <2>2. CallOK(r, file, clock)
    BY <1>0 DEF CallOK
  <2>3. run' = [run EXCEPT ![c] = r] /\ UNCHANGED <<clock, file>>
    BY <1>1 DEF Call
  <2> HIDE DEF r
  <2> QED
    BY <2>1, <2>2, <2>3, OneCall
<1>2. ASSUME NEW c \in Callers, Cancelled(c)
      PROVE  IndInv'
  <2> DEFINE r == [run[c] EXCEPT !.pc = "return"]
  <2>1. r \in RunType /\ r.since = run[c].since /\ r.found = run[c].found /\ r.tok = run[c].tok
    BY <1>0 DEF RunType
  <2>2. run' = [run EXCEPT ![c] = r] /\ UNCHANGED <<clock, file>>
    BY <1>2 DEF Cancelled
  <2> HIDE DEF r
  <2>3. CallOK(r, file, clock)
    BY <2>1, RunFacts DEF CallOK
  <2> QED
    BY <2>1, <2>2, <2>3, OneCall
<1>3. ASSUME NEW c \in Callers, ReadFile(c)
      PROVE  IndInv'
  <2>0. PICK t \in {file, NoTok} :
          run' = [run EXCEPT ![c] = [run[c] EXCEPT !.pc = "return", !.tok = t]]
    BY <1>3 DEF ReadFile
  <2> DEFINE r == [run[c] EXCEPT !.pc = "return", !.tok = t]
  <2>1. r \in RunType /\ r.since = run[c].since /\ r.found = run[c].found /\ r.tok = t
    BY <1>0 DEF RunType
  <2>2. run' = [run EXCEPT ![c] = r] /\ UNCHANGED <<clock, file>>
    BY <1>3, <2>0 DEF ReadFile
  <2> HIDE DEF r
  <2>3. CallOK(r, file, clock)
    BY <1>0, <2>1, RunFacts DEF CallOK, IndInv, FileOK
  <2> QED
    BY <2>1, <2>2, <2>3, OneCall
<1>4. ASSUME NEW c \in Callers, Return(c)
      PROVE  IndInv'
  <2> DEFINE r == [run[c] EXCEPT !.pc = "done"]
  <2>1. r \in RunType /\ r.since = run[c].since /\ r.found = run[c].found /\ r.tok = run[c].tok
    BY <1>0 DEF RunType
  <2>2. run' = [run EXCEPT ![c] = r] /\ UNCHANGED <<clock, file>>
    BY <1>4 DEF Return
  <2> HIDE DEF r
  <2>3. CallOK(r, file, clock)
    BY <2>1, RunFacts DEF CallOK
  <2> QED
    BY <2>1, <2>2, <2>3, OneCall
<1>5. CASE New \/ UNCHANGED vars
  BY <1>5 DEF New, vars, IndInv, TypeInv, FileOK, CallsOK
<1>6. CASE Rotate
  <2>1. /\ file' \in Tokens /\ file'.exp = clock + Lifetime /\ UNCHANGED <<clock, run>>
    BY <1>0, <1>6, IssuedFacts DEF Rotate
  <2>2. file.exp <= file'.exp
    BY <1>0, <2>1 DEF IndInv, FileOK
  <2>3. TypeInv' /\ FileOK'
    BY <1>0, <2>1 DEF TypeInv, FileOK
  <2>4. ASSUME NEW c \in Callers PROVE CallOK(run[c], file', clock)
    BY <1>0, <2>1, <2>2, RunFacts DEF CallOK
  <2> QED
    BY <2>1, <2>3, <2>4 DEF IndInv, CallsOK
<1>7. CASE Tick
  <2>1. /\ clock' = clock + 1 /\ clock' \in 0..MaxClock /\ UNCHANGED <<file, run>>
        /\ file # NoTok => clock' < file.exp
    BY <1>0, <1>7 DEF Tick
  <2>2. TypeInv' /\ FileOK'
    BY <1>0, <2>1 DEF TypeInv, FileOK, IndInv
  <2>3. ASSUME NEW c \in Callers PROVE CallOK(run[c], file, clock')
    BY <1>0, <2>1, RunFacts DEF CallOK
  <2> QED
    BY <2>1, <2>2, <2>3 DEF IndInv, CallsOK
<1> QED
  BY <1>1, <1>2, <1>3, <1>4, <1>5, <1>6, <1>7 DEF Next

LEMMA InitInv == Init => IndInv
<1> SUFFICES ASSUME Init PROVE IndInv
  OBVIOUS
<1>1. 0 \in 0..MaxClock /\ NoTok \in Tokens \cup {NoTok} /\ NoTok.exp = 0
  BY FileAssumption, TokenFacts
<1>2. Idle \in RunType
  BY <1>1 DEF Idle, RunType
<1>3. TypeInv /\ FileOK
  BY <1>1, <1>2 DEF Init, TypeInv, FileOK
<1>4. CallOK(Idle, NoTok, 0)
  BY <1>1 DEF Idle, CallOK
<1> QED
  BY <1>3, <1>4 DEF Init, IndInv, CallsOK

(* The file only gets fresher and no token in it expires, so what a call   *)
(* reads is no older than what it could have found at its start.           *)
THEOREM Invariance == Spec => []IndInv
<1>1. IndInv /\ [Next]_vars => IndInv'
  BY IndStep
<1> QED
  BY <1>1, InitInv, PTL DEF Spec

(* A call that succeeds has read the token that was in the file when it    *)
(* began or a more recent one, for any rotations and any other calls.      *)
THEOREM RotationPickedUp == Spec => []PicksUpRotation
<1>1. IndInv => PicksUpRotation
  BY RunFacts DEF PicksUpRotation, CallOK
<1> QED
  BY <1>1, Invariance, PTL

(* LastError is the outcome of a most recent handler call, for any number  *)
(* of handlers and any overlap of their calls.                             *)
THEOREM LastErrorIsRecent == Spec => []LastErrorRecent
<1>1. Init => LastErrorRecent
  BY DEF Init, LastErrorRecent, Results, NoneRecent
<1>2. LastErrorRecent /\ [Next]_vars => LastErrorRecent'
  <2> SUFFICES ASSUME LastErrorRecent, [Next]_vars PROVE LastErrorRecent'
    OBVIOUS
  <2>1. ASSUME NEW c \in Callers, Return(c)
        PROVE  LastErrorRecent'
    <3>1. CASE c \in Handlers
      <4>1. /\ lastErr' = Outcome(run[c].tok)
            /\ recent' = Ended(recent, c, Outcome(run[c].tok), Running)
        BY <2>1, <3>1 DEF Return
      <4>2. [result |-> lastErr', during |-> Running \ {c}] \in recent'
        BY <4>1 DEF Ended
      <4> QED
        BY <4>2 DEF LastErrorRecent, Results
    <3>2. CASE c \notin Handlers
      BY <2>1, <3>2 DEF Return, LastErrorRecent
    <3> QED
      BY <3>1, <3>2
  <2>2. CASE UNCHANGED <<lastErr, recent>>
    BY <2>2 DEF LastErrorRecent
  <2> QED
    BY <2>1, <2>2 DEF Next, Call, Cancelled, ReadFile, New, Rotate, Tick, vars
<1> QED
  BY <1>1, <1>2, PTL DEF Spec

-----------------------------------------------------------------------------
(* The refinement: a call is asked when it begins, answered when it        *)
(* returns, and nothing in between shows.                                  *)

(* What those in S see of their calls.                                     *)
Seen(S) == [c \in S |-> Asked(run[c])]

LEMMA CallSeen ==
    ASSUME IndInv, NEW S \in SUBSET Callers, NEW c \in S, Call(c)
    PROVE  /\ Seen(S)[c].phase # "asked" /\ clock' = clock
           /\ Seen(S)' = [Seen(S) EXCEPT ![c] =
                            [phase |-> "asked", since |-> clock, tok |-> NoTok]]
<1>0. run \in [Callers -> RunType]
  BY DEF IndInv, TypeInv
<1>1. /\ run' = [run EXCEPT ![c] = [pc |-> "read", since |-> clock, found |-> file, tok |-> NoTok]]
      /\ run[c].pc \in {"idle", "done"} /\ clock' = clock
  BY DEF Call
<1>2. Asked(run[c]).phase # "asked"
  BY <1>1 DEF Asked
<1>3. Asked([pc |-> "read", since |-> clock, found |-> file, tok |-> NoTok])
          = [phase |-> "asked", since |-> clock, tok |-> NoTok]
  BY DEF Asked
<1> QED
  BY <1>0, <1>1, <1>2, <1>3 DEF Seen

LEMMA ReturnSeen ==
    ASSUME IndInv, NEW S \in SUBSET Callers, NEW c \in S, Return(c)
    PROVE  /\ Seen(S)[c].phase = "asked" /\ clock' = clock
           /\ Seen(S)' = [Seen(S) EXCEPT ![c] =
                            [@ EXCEPT !.phase = "answered", !.tok = run[c].tok]]
           /\ run[c].tok # NoTok =>
                run[c].tok \in {t \in Tokens : audience \in t.aud /\ t.exp > Seen(S)[c].since}
<1> DEFINE t == run[c].tok
<1>0. run \in [Callers -> RunType]
  BY DEF IndInv, TypeInv
<1>1. run' = [run EXCEPT ![c].pc = "done"] /\ run[c].pc = "return" /\ clock' = clock
  BY DEF Return
<1>2. run'[c].pc = "done" /\ run'[c].since = run[c].since /\ run'[c].tok = t
  <2>1. run'[c] = [run[c] EXCEPT !.pc = "done"]
    BY <1>0, <1>1
  <2> QED
    BY <1>0, <2>1 DEF RunType
<1>3. Asked(run[c]) = [phase |-> "asked", since |-> run[c].since, tok |-> NoTok]
  BY <1>1 DEF Asked
<1>4. Asked(run'[c]) = [phase |-> "answered", since |-> run[c].since, tok |-> t]
  BY <1>2 DEF Asked
<1>5. Seen(S)' = [Seen(S) EXCEPT ![c] = [Seen(S)[c] EXCEPT !.phase = "answered", !.tok = t]]
  <2>1. [Asked(run[c]) EXCEPT !.phase = "answered", !.tok = t] = Asked(run'[c])
    <3> DEFINE a == Asked(run[c])
               q == [a EXCEPT !.phase = "answered", !.tok = t]
    <3>1. a \in [phase : {"asked"}, since : {run[c].since}, tok : {NoTok}]
      BY <1>3
    <3> HIDE DEF a
    <3>2. q \in [phase : {"answered"}, since : {run[c].since}, tok : {t}]
      BY <3>1
    <3> HIDE DEF q
    <3>3. q = [phase |-> "answered", since |-> run[c].since, tok |-> t]
      BY <3>2
    <3> QED
      BY <1>4, <3>3 DEF q, a
  <2>2. \A d \in S : d # c => run'[d] = run[d]
    BY <1>0, <1>1
  <2> QED
    BY <2>1, <2>2 DEF Seen
<1>6. t # NoTok => t \in Tokens /\ audience \in t.aud /\ t.exp > run[c].since
  <2>1. t \in Tokens \cup {NoTok} /\ CallOK(run[c], file, clock)
    BY RunFacts DEF RunType
  <2> QED
    BY <2>1, RunFacts, TokenFacts DEF CallOK
<1>7. Seen(S)[c].phase = "asked" /\ Seen(S)[c].since = run[c].since
  BY <1>3 DEF Seen
<1> QED
  BY <1>1, <1>5, <1>6, <1>7

(* The steps inside a call, and those of another caller, do not show.      *)
LEMMA Unseen ==
    ASSUME IndInv, NEW S \in SUBSET Callers, NEW c \in Callers,
           Cancelled(c) \/ ReadFile(c) \/ (c \notin S /\ (Call(c) \/ Return(c)))
    PROVE  UNCHANGED <<clock, Seen(S)>>
<1>0. run \in [Callers -> RunType]
  BY DEF IndInv, TypeInv
<1>1. clock' = clock /\ \A d \in Callers : d # c => run'[d] = run[d]
  BY <1>0 DEF Call, Cancelled, ReadFile, Return
<1>2. CASE c \notin S
  BY <1>1, <1>2 DEF Seen
<1>3. ASSUME Cancelled(c) \/ ReadFile(c) PROVE UNCHANGED Seen(S)
  <2>1. PICK t : run' = [run EXCEPT ![c] = [run[c] EXCEPT !.pc = "return", !.tok = t]]
    <3>1. Cancelled(c) => run' = [run EXCEPT ![c] = [run[c] EXCEPT !.pc = "return", !.tok = run[c].tok]]
      <4>1. [run[c] EXCEPT !.pc = "return"] = [run[c] EXCEPT !.pc = "return", !.tok = run[c].tok]
        BY <1>0 DEF RunType
      <4> QED
        BY <4>1 DEF Cancelled
    <3>2. ReadFile(c) => \E t : run' = [run EXCEPT ![c] = [run[c] EXCEPT !.pc = "return", !.tok = t]]
      BY DEF ReadFile
    <3> QED
      BY <1>3, <3>1, <3>2
  <2>2. run[c].pc = "read"
    BY <1>3 DEF Cancelled, ReadFile
  <2>3. run'[c].pc = "return" /\ run'[c].since = run[c].since
    BY <1>0, <2>1 DEF RunType
  <2>4. Asked(run'[c]) = Asked(run[c])
    BY <2>2, <2>3 DEF Asked
  <2> QED
    BY <1>1, <2>4 DEF Seen
<1> QED
  BY <1>1, <1>2, <1>3

LEMMA SupplyStep ==
    ASSUME IndInv, [Next]_vars
    PROVE  [Supply!Next]_(Supply!supplyVars)
<1>1. ASSUME NEW c \in Callers, Call(c)
      PROVE  Supply!Ask(c)
  BY <1>1, CallSeen DEF Supply!Ask, Seen
<1>2. ASSUME NEW c \in Callers, Return(c)
      PROVE  Supply!Answer(c)
  <2>1. run[c].tok \in Supply!Offer(c, Seen(Callers)[c].since) \cup {NoTok}
    BY <1>2, ReturnSeen DEF Supply!Offer
  <2>2. /\ Seen(Callers)[c].phase = "asked" /\ clock' = clock
        /\ Seen(Callers)' = [Seen(Callers) EXCEPT ![c] =
                [Seen(Callers)[c] EXCEPT !.phase = "answered", !.tok = run[c].tok]]
    BY <1>2, ReturnSeen
  <2> QED
    BY <2>1, <2>2, Zenon DEF Supply!Answer, Seen
<1>3. ASSUME NEW c \in Callers, Cancelled(c) \/ ReadFile(c)
      PROVE  UNCHANGED Supply!supplyVars
  BY <1>3, Unseen DEF Supply!supplyVars, Seen
<1>4. CASE New \/ Rotate \/ UNCHANGED vars
  BY <1>4 DEF New, Rotate, vars, Supply!supplyVars
<1>5. CASE Tick
  BY <1>5 DEF Tick, Supply!Tick, Supply!Next
<1> QED
  BY <1>1, <1>2, <1>3, <1>4, <1>5 DEF Next, Supply!Next

(* The Kubernetes token source implements TokenSupply: whatever the        *)
(* kubelet does between the start and the end of a call, a token returned  *)
(* had not expired when the call began.                                    *)
THEOREM Refinement == Spec => KeepsSupply
<1>1. Init => Supply!Init
  BY DEF Init, Supply!Init, Supply!Unasked, Asked, Idle
<1>2. IndInv /\ [Next]_vars => [Supply!Next]_(Supply!supplyVars)
  BY SupplyStep
<1> QED
  BY <1>1, <1>2, Invariance, PTL DEF Spec, KeepsSupply, Supply!Spec

-----------------------------------------------------------------------------
(* The connections.                                                        *)

LEMMA ClientStep ==
    ASSUME [ClientNext]_clientVars
    PROVE  [Next]_vars
<1>1. \A c \in Handlers : c \in Callers
  BY FileAssumption
<1> QED
  BY <1>1 DEF ClientNext, clientVars, Dial, Handle, Connect, CallDirectly, Next

(* A client is a token source with connections: all that is proved of      *)
(* FileSource holds of it.                                                 *)
THEOREM ClientIsSource == ClientSpec => Spec
<1>1. ClientInit => Init
  BY DEF ClientInit
<1> QED
  BY <1>1, ClientStep, PTL DEF ClientSpec, Spec

(* What nats.go sees of the handlers is what Session assumes of a source.  *)
LEMMA ConnStep ==
    ASSUME IndInv, [ClientNext]_clientVars
    PROVE  [Conn!SessionNext]_(Conn!vars)
<1>0. Handlers \in SUBSET Callers
  BY FileAssumption
<1>1. ASSUME NEW c \in Handlers, Dial(c) \/ Connect(c) PROVE Conn!SessionNext
  BY <1>1 DEF Dial, Connect, Conn!SessionNext
<1>2. ASSUME NEW c \in Handlers, ReadFile(c), UNCHANGED link PROVE UNCHANGED Conn!vars
  BY <1>0, <1>2, Unseen DEF Conn!vars, Seen
<1>3. ASSUME NEW c \in Handlers, Return(c), UNCHANGED link PROVE Conn!SessionNext
  <2>1. Conn!Answer(c)
    <3>1. run[c].tok \in Conn!Offer(c, Seen(Handlers)[c].since) \cup {NoTok}
      BY <1>0, <1>3, ReturnSeen DEF Conn!Offer
    <3>2. /\ Seen(Handlers)[c].phase = "asked" /\ clock' = clock
          /\ Seen(Handlers)' = [Seen(Handlers) EXCEPT ![c] =
                  [Seen(Handlers)[c] EXCEPT !.phase = "answered", !.tok = run[c].tok]]
      BY <1>0, <1>3, ReturnSeen
    <3> QED
      BY <3>1, <3>2, Zenon DEF Conn!Answer, Seen
  <2> QED
    BY <1>3, <2>1 DEF Conn!SessionNext
<1>4. ASSUME NEW c \in Callers \ Handlers, CallDirectly(c) PROVE UNCHANGED Conn!vars
  BY <1>0, <1>4, Unseen DEF CallDirectly, Conn!vars, Seen
<1>5. CASE ((New \/ Rotate) /\ UNCHANGED link) \/ UNCHANGED clientVars
  BY <1>5 DEF New, Rotate, clientVars, vars, Conn!vars
<1>6. CASE Tick /\ Conn!Pass
  BY <1>6 DEF Conn!SessionNext
<1> QED
  BY <1>1, <1>2, <1>3, <1>4, <1>5, <1>6 DEF ClientNext, Handle

(* A token refused as expired is never presented again on the same         *)
(* connection of a client in a pod, for any connections and rotations.     *)
THEOREM RefusedNotResent == ClientSpec => NeverResent
<1>1. ClientInit => Conn!SessionInit
  <2>1. Asked(Idle) = Conn!Unasked
    BY DEF Asked, Idle, Conn!Unasked
  <2>2. Init => [c \in Handlers |-> Asked(run[c])] = [c \in Handlers |-> Conn!Unasked]
    BY <2>1, FileAssumption DEF Init
  <2> QED
    BY <2>2 DEF ClientInit, Init, Conn!SessionInit, Conn!Init
<1>2. IndInv /\ [ClientNext]_clientVars => [Conn!SessionNext]_(Conn!vars)
  BY ConnStep
<1>3. Conn!Numbers
  BY TokenFacts DEF Conn!Numbers
<1>4. ClientSpec => Conn!SessionSpec
  BY <1>1, <1>2, Invariance, ClientIsSource, PTL DEF ClientSpec, Conn!SessionSpec
<1> QED
  BY <1>3, <1>4, Conn!NotPresentedAgain, PTL DEF NeverResent
=============================================================================
