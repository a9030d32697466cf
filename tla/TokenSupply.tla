----------------------------- MODULE TokenSupply ----------------------------
(***************************************************************************)
(* What a token source (lib/awsauth, lib/k8sauth) promises to whoever asks *)
(* it for a token: the answer is a token meant for the caller's audience   *)
(* that had not expired when the caller asked, or no token.                *)
(***************************************************************************)
EXTENDS Integers

CONSTANTS
    Callers,     \* the goroutines that ask
    Audience,    \* Audience[c]: the audience c asks a token for
    Tokens,      \* the tokens there are: [aud, exp]
    NoTok,       \* the empty string
    Step         \* how far the clock moves at a time

VARIABLES clock, call

supplyVars == <<clock, call>>

Unasked == [phase |-> "idle", since |-> 0, tok |-> NoTok]

Offer(c, since) == {t \in Tokens : Audience[c] \in t.aud /\ t.exp > since}

Init ==
    /\ clock = 0
    /\ call = [c \in Callers |-> Unasked]

Ask(c) ==
    /\ call[c].phase # "asked"
    /\ call' = [call EXCEPT ![c] = [phase |-> "asked", since |-> clock, tok |-> NoTok]]
    /\ UNCHANGED clock

Answer(c) ==
    /\ call[c].phase = "asked"
    /\ \E t \in Offer(c, call[c].since) \cup {NoTok} :
        call' = [call EXCEPT ![c] = [@ EXCEPT !.phase = "answered", !.tok = t]]
    /\ UNCHANGED clock

(* A process ends, and with it all its calls.                              *)
Crash ==
    /\ \E gone \in SUBSET Callers :
        call' = [c \in Callers |-> IF c \in gone THEN Unasked ELSE call[c]]
    /\ UNCHANGED clock

Tick == clock' = clock + Step /\ UNCHANGED call

Next == (\E c \in Callers : Ask(c) \/ Answer(c)) \/ Crash \/ Tick

Spec == Init /\ [][Next]_supplyVars
=============================================================================
