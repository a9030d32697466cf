----------------------------- MODULE FileSource -----------------------------
(***************************************************************************)
(* The Kubernetes token source (lib/k8sauth): every call reads the token   *)
(* file, which the kubelet fills after the pod has started and then        *)
(* replaces well before the token in it expires.                           *)
(*                                                                         *)
(* A caller runs Token, or, if it is one of Handlers, the handler          *)
(* NATSOption gives to nats.go:  idle -> read -> return -> done.           *)
(* Each knows the token that was in the file when it began (found).        *)
(***************************************************************************)
EXTENDS Integers, Recent

CONSTANTS
    Callers,     \* the goroutines that call Token
    Handlers,    \* those of them that do so for nats.go
    TokenPath,   \* Config.TokenPath
    Lifetime,    \* how long a projected token lives, in ticks
    MaxClock     \* bound on the clock

ASSUME FileAssumption ==
    /\ Handlers \subseteq Callers
    /\ Lifetime \in Nat \ {0, 1} /\ MaxClock \in Nat

audience == "callout"
NoTok  == [aud |-> {}, exp |-> 0]
Issued(at) == [aud |-> {audience}, exp |-> at + Lifetime]
Tokens == {Issued(at) : at \in 0..MaxClock}

VARIABLES
    clock,
    file,     \* the token in the file; NoTok if it is missing or blank
    ts,       \* is there a TokenSource?
    lastErr,  \* TokenSource.lastErr: "nil" or "error"
    run,      \* run[c]: where caller c is
    recent    \* the most recent operations LastError speaks of (Recent)

vars == <<clock, file, ts, lastErr, run, recent>>

Idle == [pc |-> "idle", since |-> 0, found |-> NoTok, tok |-> NoTok]

Init ==
    /\ clock = 0 /\ file = NoTok /\ ts = FALSE /\ lastErr = "nil"
    /\ run = [c \in Callers |-> Idle]
    /\ recent = NoneRecent("nil")

(* New: the file is not looked at.                                         *)
New ==
    /\ ~ts /\ TokenPath # ""
    /\ ts' = TRUE
    /\ UNCHANGED <<clock, file, lastErr, run, recent>>

Call(c) ==
    /\ ts /\ run[c].pc \in {"idle", "done"}
    /\ run' = [run EXCEPT ![c] = [pc |-> "read", since |-> clock, found |-> file, tok |-> NoTok]]
    /\ UNCHANGED <<clock, file, ts, lastErr, recent>>

(* Token returns the error of a context that has ended; the handler's has  *)
(* no end.                                                                 *)
Cancelled(c) ==
    /\ run[c].pc = "read" /\ c \notin Handlers
    /\ run' = [run EXCEPT ![c].pc = "return"]
    /\ UNCHANGED <<clock, file, ts, lastErr, recent>>

(* The file is read only once, for the first caller.                       *)
ReadFile_Captured(c) ==
    LET kept == {run[d].tok : d \in Callers} \ {NoTok}
    IN  /\ run[c].pc = "read"
        /\ run' = [run EXCEPT ![c] = [@ EXCEPT !.pc = "return",
                        !.tok = IF kept = {} THEN file ELSE CHOOSE t \in kept : TRUE]]
        /\ UNCHANGED <<clock, file, ts, lastErr, recent>>

(* os.ReadFile, which may fail, and the checks of what it returns.         *)
ReadFile(c) ==
    /\ run[c].pc = "read"
    /\ \E t \in {file, NoTok} :
        run' = [run EXCEPT ![c] = [@ EXCEPT !.pc = "return", !.tok = t]]
    /\ UNCHANGED <<clock, file, ts, lastErr, recent>>

Outcome(tok) == IF tok = NoTok THEN "error" ELSE "nil"

Running == {c \in Handlers : run[c].pc \in {"read", "return"}}

(* A read that succeeds does not clear LastError.                          *)
Return_KeepsError(c) ==
    /\ run[c].pc = "return"
    /\ run' = [run EXCEPT ![c].pc = "done"]
    /\ IF c \in Handlers
       THEN /\ lastErr' = IF run[c].tok = NoTok THEN "error" ELSE lastErr
            /\ recent' = Ended(recent, c, Outcome(run[c].tok), Running)
       ELSE UNCHANGED <<lastErr, recent>>
    /\ UNCHANGED <<clock, file, ts>>

(* Token returns; the handler of NATSOption also records the error.        *)
Return(c) ==
    /\ run[c].pc = "return"
    /\ run' = [run EXCEPT ![c].pc = "done"]
    /\ IF c \in Handlers
       THEN /\ lastErr' = Outcome(run[c].tok)
            /\ recent' = Ended(recent, c, Outcome(run[c].tok), Running)
       ELSE UNCHANGED <<lastErr, recent>>
    /\ UNCHANGED <<clock, file, ts>>

(* The kubelet.                                                            *)
Rotate ==
    /\ file' = Issued(clock)
    /\ UNCHANGED <<clock, ts, lastErr, run, recent>>

(* Time passes, but no token stays in the file until it expires.           *)
Tick ==
    /\ clock < MaxClock
    /\ file # NoTok => clock + 1 < file.exp
    /\ clock' = clock + 1
    /\ UNCHANGED <<file, ts, lastErr, run, recent>>

Next ==
    \/ \E c \in Callers : Call(c) \/ Cancelled(c) \/ ReadFile(c) \/ Return(c)
    \/ New \/ Rotate \/ Tick

Spec == Init /\ [][Next]_vars

-----------------------------------------------------------------------------
(* Properties.                                                             *)

(* LastError is the outcome of a handler call after whose end no other one *)
(* began and ended, however they overlap.                                  *)
LastErrorRecent == lastErr \in Results(recent)

(* A call that succeeds returns a token at least as recent as the one in   *)
(* the file when it began, whatever was rotated in meanwhile and whatever  *)
(* other calls read before (NATSOption: never a captured string).          *)
PicksUpRotation ==
    \A c \in Callers : run[c].pc = "done" /\ run[c].tok # NoTok => run[c].tok.exp >= run[c].found.exp

Asked(r) ==
    [phase |-> CASE r.pc = "idle" -> "idle" [] r.pc = "done" -> "answered" [] OTHER -> "asked",
     since |-> r.since,
     tok   |-> IF r.pc = "done" THEN r.tok ELSE NoTok]

Supply == INSTANCE TokenSupply WITH
            Audience <- [c \in Callers |-> audience],
            Step <- 1,
            call <- [c \in Callers |-> Asked(run[c])]

(* The token source implements the promise of TokenSupply.                 *)
KeepsSupply == Supply!Spec
=============================================================================
