------------------------------ MODULE Session -------------------------------
(***************************************************************************)
(* The long-lived connection of a client that takes its tokens from a      *)
(* token source (TokenSupply: the promise both sources keep): nats.go asks *)
(* its handler for a token on every (re)connect, the callout verifies it   *)
(* once and issues a user JWT that expires no later than the token, the    *)
(* server closes the connection when that expires, and nats.go gives up    *)
(* after two authentication failures in a row.  The clocks of the client   *)
(* and of the callout agree.                                               *)
(*                                                                         *)
(*   down -> asking -> sent -> up -> down        closed: nats.go gave up   *)
(***************************************************************************)
EXTENDS TokenSupply

CONSTANT MaxClock   \* bound on the clock

VARIABLE link   \* link[c]: the connection of c

vars == <<clock, call, link>>

NoLink == [state |-> "down", tok |-> NoTok, expires |-> 0, fails |-> 0, refused |-> {}]

SessionInit == Init /\ link = [c \in Callers |-> NoLink]

(* nats.go dials and calls the token handler.                              *)
Dial(c) ==
    /\ link[c].state = "down"
    /\ Ask(c)
    /\ link' = [link EXCEPT ![c].state = "asking"]

(* What the handler returned is sent in CONNECT.                           *)
Present(c) ==
    /\ link[c].state = "asking" /\ call[c].phase = "answered"
    /\ link' = [link EXCEPT ![c].state = "sent", ![c].tok = call[c].tok]
    /\ UNCHANGED <<clock, call>>

(* The callout's verdict: go-oidc accepts a token up to its expiry, and    *)
(* the user JWT's own expiry may be capped by the rule that matched.       *)
Accept(c) ==
    LET tok == link[c].tok
    IN  /\ link[c].state = "sent" /\ tok # NoTok /\ clock <= tok.exp
        /\ \E e \in {clock + Step, tok.exp} :
            /\ e <= tok.exp
            /\ link' = [link EXCEPT ![c] = [NoLink EXCEPT !.state = "up", !.expires = e,
                                                          !.refused = link[c].refused]]
        /\ UNCHANGED <<clock, call>>

(* No token, one that has expired, or a denial for any other reason.       *)
Refuse(c) ==
    LET expired == {t \in {link[c].tok} \ {NoTok} : clock > t.exp}
    IN  /\ link[c].state = "sent"
        /\ link' = [link EXCEPT ![c] = [NoLink EXCEPT
                        !.state = IF link[c].fails = 1 THEN "closed" ELSE "down",
                        !.fails = link[c].fails + 1, !.refused = link[c].refused \cup expired]]
        /\ UNCHANGED <<clock, call>>

(* The user JWT expires, or the network fails.                             *)
Disconnect(c) ==
    /\ link[c].state = "up"
    /\ link' = [link EXCEPT ![c] = [NoLink EXCEPT !.refused = link[c].refused]]
    /\ UNCHANGED <<clock, call>>

(* The server closes a connection as soon as its user JWT has expired.     *)
Pass ==
    /\ clock + Step <= MaxClock
    /\ \A c \in Callers : link[c].state = "up" => clock < link[c].expires
    /\ Tick /\ UNCHANGED link

SessionNext ==
    \/ \E c \in Callers : Dial(c) \/ Present(c) \/ Accept(c) \/ Refuse(c) \/ Disconnect(c)
    \/ (\E c \in Callers : Answer(c)) /\ UNCHANGED link
    \/ Pass

SessionSpec == SessionInit /\ [][SessionNext]_vars

-----------------------------------------------------------------------------
(* Properties.                                                             *)

(* A token the callout refused because it had expired is never presented   *)
(* again on that connection, so an expired token alone never makes nats.go *)
(* give up by two identical failures (package awsauth, "Token lifetime").  *)
NeverResent ==
    [][\A c \in Callers :
        link[c].state = "asking" /\ link'[c].state = "sent" => link'[c].tok \notin link[c].refused]_vars
=============================================================================
