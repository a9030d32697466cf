------------------------------- MODULE Client -------------------------------
(***************************************************************************)
(* A client in a pod: FileSource and Session together.  Each of Handlers   *)
(* is the token handler k8sauth's NATSOption installed on one connection,  *)
(* which nats.go calls when it dials and whose answer it presents; the     *)
(* other callers call Token directly.                                      *)
(***************************************************************************)
EXTENDS FileSource

VARIABLE link   \* link[c]: the connection handler c is installed on (Session)

Conn == INSTANCE SessionProofs WITH
            Callers <- Handlers,
            Audience <- [c \in Handlers |-> audience],
            Step <- 1,
            call <- [c \in Handlers |-> Asked(run[c])]

clientVars == <<vars, link>>

ClientInit == Init /\ link = [c \in Handlers |-> Conn!NoLink]

(* nats.go dials and calls the handler.                                    *)
Dial(c) == Call(c) /\ Conn!Dial(c)

Handle(c) == (ReadFile(c) \/ Return(c)) /\ UNCHANGED link

(* What nats.go, the server and the callout make of the handler's answer.  *)
Connect(c) ==
    /\ UNCHANGED vars
    /\ Conn!Present(c) \/ Conn!Accept(c) \/ Conn!Refuse(c) \/ Conn!Disconnect(c)

(* Token, called by the program itself.                                    *)
CallDirectly(c) ==
    (Call(c) \/ Cancelled(c) \/ ReadFile(c) \/ Return(c)) /\ UNCHANGED link

ClientNext ==
    \/ \E c \in Handlers : Dial(c) \/ Handle(c) \/ Connect(c)
    \/ \E c \in Callers \ Handlers : CallDirectly(c)
    \/ (New \/ Rotate) /\ UNCHANGED link
    \/ Tick /\ Conn!Pass

ClientSpec == ClientInit /\ [][ClientNext]_clientVars

(* A token the callout refused because it had expired is never presented   *)
(* again on that connection: the handler reads the file anew on every      *)
(* (re)connect (NATSOption).                                               *)
NeverResent == Conn!NeverResent
=============================================================================
