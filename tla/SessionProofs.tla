--------------------------- MODULE SessionProofs ----------------------------
(***************************************************************************)
(* Proofs about a client's connection, from what every token source        *)
(* promises (TokenSupply) and for any tokens, any step of the clock and    *)
(* any number of connections.                                              *)
(***************************************************************************)
EXTENDS Session, TLAPS

Calls ==
    [phase : {"idle", "asked", "answered"}, since : Int, tok : Tokens \cup {NoTok}]

Links ==
    [state : {"down", "asking", "sent", "up", "closed"}, tok : Tokens \cup {NoTok},
     expires : Int, fails : Int, refused : SUBSET Tokens]

Types ==
    /\ clock \in Int
    /\ call \in [Callers -> Calls]
    /\ link \in [Callers -> Links]

(* A token refused as expired had expired by now, and before nats.go last  *)
(* asked; an answer nats.go has not presented yet had not expired when it  *)
(* asked, and the empty string is not a token that was refused.            *)
Outdated(c) ==
    /\ \A t \in link[c].refused : t # NoTok /\ t.exp < clock
    /\ link[c].state = "asking" => \A t \in link[c].refused : t.exp < call[c].since
    /\ call[c].phase = "answered" => call[c].tok \in Offer(c, call[c].since) \cup {NoTok}

(* Time goes forward, and expiries can be compared with it.                *)
Numbers == Step \in Nat /\ \A t \in Tokens : t.exp \in Int

IndInv == Numbers /\ Types /\ \A c \in Callers : Outdated(c)

LEMMA InitInv == Numbers /\ SessionInit => IndInv
<1> SUFFICES ASSUME Numbers, SessionInit PROVE IndInv
  OBVIOUS
<1>1. Types
  BY DEF SessionInit, Init, Types, Unasked, NoLink, Calls, Links
<1>2. ASSUME NEW c \in Callers PROVE Outdated(c)
  BY DEF SessionInit, Init, Unasked, NoLink, Outdated
<1> QED
  BY <1>1, <1>2 DEF IndInv

(* A step changes one connection and its call, and the clock is still.     *)
LEMMA OneConnection ==
    ASSUME IndInv, NEW c \in Callers, NEW k \in Calls, NEW l \in Links,
           call' = [call EXCEPT ![c] = k], link' = [link EXCEPT ![c] = l], clock' = clock,
           Outdated(c)'
    PROVE  IndInv'
<1>1. Types' /\ Numbers'
  BY DEF IndInv, Types, Numbers
<1>2. ASSUME NEW d \in Callers, d # c PROVE Outdated(d)'
  <2>1. call'[d] = call[d] /\ link'[d] = link[d]
    BY <1>2 DEF IndInv, Types
  <2> QED
    BY <2>1 DEF IndInv, Outdated, Offer
<1> QED
  BY <1>1, <1>2 DEF IndInv

LEMMA DialOK == ASSUME IndInv, NEW c \in Callers, Dial(c) PROVE IndInv'
<1> DEFINE k == [phase |-> "asked", since |-> clock, tok |-> NoTok]
           l == [link[c] EXCEPT !.state = "asking"]
<1>1. k \in Calls /\ l \in Links
  BY DEF IndInv, Types, Calls, Links
<1>2. call' = [call EXCEPT ![c] = k] /\ link' = [link EXCEPT ![c] = l] /\ clock' = clock
  BY DEF Dial, Ask
<1>3. call'[c] = k /\ link'[c] = l /\ l.refused = link[c].refused /\ l.state = "asking"
  BY <1>2 DEF IndInv, Types, Links
<1>4. Outdated(c)'
  BY <1>2, <1>3 DEF IndInv, Outdated
<1> QED
  BY <1>1, <1>2, <1>4, OneConnection

LEMMA AnswerOK ==
    ASSUME IndInv, NEW c \in Callers, Answer(c), UNCHANGED link
    PROVE  IndInv'
<1>1. PICK t \in Offer(c, call[c].since) \cup {NoTok} :
        call' = [call EXCEPT ![c] = [@ EXCEPT !.phase = "answered", !.tok = t]]
  BY DEF Answer
<1> DEFINE k == [call[c] EXCEPT !.phase = "answered", !.tok = t]
<1>2. k \in Calls /\ link[c] \in Links
  BY DEF IndInv, Types, Calls, Offer
<1>3. k.tok = t /\ k.since = call[c].since
  BY DEF IndInv, Types, Calls
<1>4. call' = [call EXCEPT ![c] = k] /\ link' = [link EXCEPT ![c] = link[c]] /\ clock' = clock
  BY <1>1 DEF Answer, IndInv, Types
<1>5. call'[c] = k
  BY <1>4 DEF IndInv, Types
<1> HIDE DEF k
<1>6. Outdated(c)'
  BY <1>3, <1>4, <1>5 DEF IndInv, Outdated, Offer
<1> QED
  BY <1>2, <1>4, <1>6, OneConnection

(* A step that changes the link only, and adds to what was refused at most *)
(* a token that has expired.                                               *)
LEMMA LinkStep ==
    ASSUME IndInv, NEW c \in Callers, NEW l \in Links, link' = [link EXCEPT ![c] = l],
           UNCHANGED <<clock, call>>, l.state # "asking",
           \A t \in l.refused \ link[c].refused : t # NoTok /\ t.exp < clock
    PROVE  IndInv'
<1>1. call[c] \in Calls /\ call' = [call EXCEPT ![c] = call[c]] /\ clock' = clock
  BY DEF IndInv, Types
<1>2. link'[c] = l
  BY DEF IndInv, Types
<1>3. Outdated(c)'
  BY <1>2 DEF IndInv, Outdated, Offer
<1> QED
  BY <1>1, <1>3, OneConnection

LEMMA PresentOK == ASSUME IndInv, NEW c \in Callers, Present(c) PROVE IndInv'
<1> DEFINE l == [link[c] EXCEPT !.state = "sent", !.tok = call[c].tok]
<1>1. l \in Links /\ l.refused = link[c].refused /\ l.state = "sent"
  BY DEF IndInv, Types, Links, Calls
<1>2. link' = [link EXCEPT ![c] = l] /\ UNCHANGED <<clock, call>>
  BY DEF Present, IndInv, Types, Links
<1> HIDE DEF l
<1> QED
  BY <1>1, <1>2, LinkStep

LEMMA NoLinkType == NoLink \in Links
BY DEF NoLink, Links

LEMMA AcceptOK == ASSUME IndInv, NEW c \in Callers, Accept(c) PROVE IndInv'
<1> DEFINE T == link[c].refused
<1>1. PICK e \in {clock + Step, link[c].tok.exp} :
        link' = [link EXCEPT ![c] = [NoLink EXCEPT !.state = "up", !.expires = e, !.refused = T]]
  BY DEF Accept
<1> DEFINE l == [NoLink EXCEPT !.state = "up", !.expires = e, !.refused = T]
<1>2. e \in Int /\ T \in SUBSET Tokens
  BY DEF Accept, IndInv, Numbers, Types, Links
<1>3. link' = [link EXCEPT ![c] = l] /\ UNCHANGED <<clock, call>>
  BY <1>1 DEF Accept
<1> HIDE DEF T
<1>4. l \in Links /\ l.refused = T /\ l.state = "up"
  BY <1>2, NoLinkType DEF Links
<1> HIDE DEF l
<1> QED
  BY <1>3, <1>4, LinkStep DEF T

LEMMA RefuseOK == ASSUME IndInv, NEW c \in Callers, Refuse(c) PROVE IndInv'
<1> DEFINE expired == {t \in {link[c].tok} \ {NoTok} : clock > t.exp}
           s == IF link[c].fails = 1 THEN "closed" ELSE "down"
           f == link[c].fails + 1
           T == link[c].refused \cup expired
           l == [NoLink EXCEPT !.state = s, !.fails = f, !.refused = T]
<1>1. link' = [link EXCEPT ![c] = l] /\ UNCHANGED <<clock, call>>
  BY DEF Refuse
<1>2. link[c] \in Links
  BY DEF IndInv, Types
<1>3. \A t \in expired : t \in Tokens /\ t # NoTok /\ t.exp < clock
  BY DEF IndInv, Numbers, Types, Links
<1>4. s \in {"down", "closed"} /\ f \in Int /\ T \in SUBSET Tokens
  BY <1>2, <1>3 DEF Links
<1>5. \A t \in T \ link[c].refused : t # NoTok /\ t.exp < clock
  BY <1>3
<1> HIDE DEF expired, s, f, T
<1>6. l \in Links /\ l.refused = T /\ l.state # "asking"
  BY <1>4, NoLinkType DEF Links
<1> HIDE DEF l
<1> QED
  BY <1>1, <1>5, <1>6, LinkStep

LEMMA DisconnectOK == ASSUME IndInv, NEW c \in Callers, Disconnect(c) PROVE IndInv'
<1> DEFINE T == link[c].refused
           l == [NoLink EXCEPT !.refused = T]
<1>0. T \in SUBSET Tokens
  BY DEF IndInv, Types, Links
<1>1. link' = [link EXCEPT ![c] = l] /\ UNCHANGED <<clock, call>>
  BY DEF Disconnect
<1> HIDE DEF T
<1>2. l \in Links /\ l.refused = T /\ l.state = "down"
  BY <1>0 DEF Links, NoLink
<1> HIDE DEF l
<1> QED
  BY <1>1, <1>2, LinkStep DEF T

LEMMA PassOK == ASSUME IndInv, Pass PROVE IndInv'
<1>1. clock' \in Int /\ clock <= clock' /\ UNCHANGED <<call, link>>
  BY DEF Pass, Tick, IndInv, Numbers, Types
<1>2. Types' /\ Numbers'
  BY <1>1 DEF IndInv, Types, Numbers
<1>3. ASSUME NEW c \in Callers PROVE Outdated(c)'
  <2>1. \A t \in link[c].refused : t.exp \in Int
    BY DEF IndInv, Numbers, Types, Links
  <2>2. clock \in Int /\ Outdated(c)
    BY DEF IndInv, Types
  <2> QED
    BY <1>1, <2>1, <2>2 DEF Outdated, Offer
<1> QED
  BY <1>2, <1>3 DEF IndInv

LEMMA StepInv == IndInv /\ [SessionNext]_vars => IndInv'
<1> SUFFICES ASSUME IndInv, [SessionNext]_vars PROVE IndInv'
  OBVIOUS
<1>1. CASE UNCHANGED vars
  BY <1>1 DEF vars, IndInv, Numbers, Types, Outdated, Offer
<1> QED
  BY <1>1, DialOK, AnswerOK, PresentOK, AcceptOK, RefuseOK, DisconnectOK, PassOK
  DEF SessionNext

(* A token the callout refused because it had expired is never presented   *)
(* again on that connection: nats.go asks anew, and the source's promise   *)
(* then excludes every token that had expired.                             *)
THEOREM NotPresentedAgain == Numbers /\ SessionSpec => NeverResent
<1> DEFINE Fresh ==
        \A c \in Callers :
            link[c].state = "asking" /\ link'[c].state = "sent"
                => link'[c].tok \notin link[c].refused
<1>1. IndInv /\ [SessionNext]_vars => [Fresh]_vars
  <2> SUFFICES ASSUME IndInv, SessionNext, NEW c \in Callers,
                      link[c].state = "asking", link'[c].state = "sent"
               PROVE  link'[c].tok \notin link[c].refused
    OBVIOUS
  <2>1. link \in [Callers -> Links] /\ \A d \in Callers : link[d] \in Links
    BY DEF IndInv, Types
  <2>2. link'[c] # link[c]
    OBVIOUS
  <2>3. Present(c)
    <3>1. ASSUME NEW d \in Callers, Dial(d) \/ Accept(d) \/ Refuse(d) \/ Disconnect(d)
          PROVE  FALSE
      <4>1. PICK l : link' = [link EXCEPT ![d] = l] /\ (d = c => l.state # "sent")
        <5>1. CASE Dial(d)
          BY <5>1, <2>1 DEF Dial, Links
        <5>2. CASE Accept(d)
          BY <5>2 DEF Accept, NoLink
        <5>3. CASE Refuse(d)
          BY <5>3 DEF Refuse, NoLink
        <5>4. CASE Disconnect(d)
          BY <5>4 DEF Disconnect, NoLink
        <5> QED
          BY <3>1, <5>1, <5>2, <5>3, <5>4
      <4> QED
        BY <2>1, <2>2, <4>1
    <3>2. ASSUME NEW d \in Callers, Present(d) PROVE d = c
      BY <3>2, <2>1, <2>2 DEF Present
    <3> QED
      BY <2>2, <3>1, <3>2 DEF SessionNext, Pass, Tick
  <2>4. link'[c].tok = call[c].tok /\ call[c].phase = "answered"
    BY <2>1, <2>3 DEF Present, Links
  <2>5. CASE call[c].tok = NoTok
    BY <2>4, <2>5 DEF IndInv, Outdated
  <2>6. CASE call[c].tok \in Offer(c, call[c].since)
    <3>1. /\ call[c].tok.exp > call[c].since /\ call[c].tok.exp \in Int
          /\ call[c].since \in Int
      BY <2>6 DEF Offer, IndInv, Numbers, Types, Calls
    <3>2. \A t \in link[c].refused : t.exp < call[c].since
      BY DEF IndInv, Outdated
    <3> QED
      BY <2>4, <3>1, <3>2
  <2> QED
    BY <2>4, <2>5, <2>6 DEF IndInv, Outdated
<1> QED
  BY <1>1, InitInv, StepInv, PTL DEF SessionSpec, NeverResent
=============================================================================
