---------------------------- MODULE Authorization ---------------------------
(***************************************************************************)
(* What the callout service promises, with no word of how it is done:      *)
(* every request is answered as ONE configuration demands that was current *)
(* between the arrival of the request and its answer.                      *)
(***************************************************************************)
EXTENDS Integers

CONSTANTS
    Workers, Tokens, NoToken, Configs, InitConfig, MaxGens, StartClock,
    Answers(_, _, _)   \* the answers a configuration may give, alone, to a
                       \* token that is presented during a period of time

VARIABLES
    clock,    \* the time, in ticks
    state,    \* the number of configurations installed so far, 0 before the first
    config,   \* config[g]: the g-th configuration installed
    asked     \* asked[w]: the request of worker w and its answer

vars == <<clock, state, config, asked>>

NoAnswer == [verdict |-> "none", account |-> "", expires |-> 0, reason |-> "none"]

Unasked == [phase |-> "idle", token |-> NoToken, lo |-> 1, start |-> StartClock,
            answer |-> NoAnswer]

(* The first configuration may be there from the start or come later.      *)
Init ==
    /\ clock = StartClock /\ state \in {0, 1}
    /\ config = [g \in 1..MaxGens |-> InitConfig]
    /\ asked = [w \in Workers |-> Unasked]

Ask(w, t) ==
    /\ state > 0 /\ asked[w].phase # "pending"
    /\ asked' = [asked EXCEPT ![w] = [Unasked EXCEPT
            !.phase = "pending", !.token = t, !.lo = state, !.start = clock]]
    /\ UNCHANGED <<clock, state, config>>

(* The answer given is that of one of the configurations.                  *)
Answer(w) ==
    LET a == asked[w]
        answer == asked'[w].answer
    IN  /\ a.phase = "pending"
        /\ asked' = [asked EXCEPT ![w] = [a EXCEPT !.phase = "answered", !.answer = answer]]
        /\ UNCHANGED <<clock, state, config>>
        /\ \E g \in a.lo..state : answer \in Answers(config[g], a.token, a.start..clock)

Install(c) ==
    /\ state < MaxGens
    /\ state' = state + 1
    /\ config' = [config EXCEPT ![state + 1] = c]
    /\ UNCHANGED <<clock, asked>>

Tick == clock' = clock + 1 /\ UNCHANGED <<state, config, asked>>

Next ==
    \/ \E w \in Workers, t \in Tokens \cup {NoToken} : Ask(w, t)
    \/ \E w \in Workers : Answer(w)
    \/ \E c \in Configs : Install(c)
    \/ Tick

Spec == Init /\ [][Next]_vars
=============================================================================
