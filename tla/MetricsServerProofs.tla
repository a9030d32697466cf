------------------------ MODULE MetricsServerProofs -------------------------
(***************************************************************************)
(* Proofs about the metrics endpoint, for any set of scrapers.             *)
(***************************************************************************)
EXTENDS MetricsServer, TLAPS

(* Every variable has its type.                                            *)
Types ==
    /\ serve \in {"select", "shutdown", "returned"}
    /\ err \in {"none", "nil", "accept", "timeout"}
    /\ acceptor \in {"start", "accept", "send", "ended"}
    /\ closed \in BOOLEAN
    /\ scrape \in [Scrapers -> {"none", "open", "answered", "cut"}]

(* Once Shutdown was called no scrape can begin, and Serve returns nil     *)
(* only after it; no scrape is cut while the process lives.                *)
IndInv ==
    /\ Types
    /\ closed => acceptor # "accept"
    /\ serve = "shutdown" => closed
    /\ err = "nil" => closed /\ serve = "returned"
    /\ err # "none" => serve = "returned"
    /\ Alive => \A s \in Scrapers : scrape[s] # "cut"
    /\ Alive /\ err = "nil" => InFlight = {}

LEMMA InitInv == Init => IndInv
BY DEF Init, IndInv, Types, InFlight, Alive

LEMMA StepInv == IndInv /\ [Next]_vars => IndInv'
<1> SUFFICES ASSUME IndInv, [Next]_vars PROVE IndInv'
  OBVIOUS
<1> USE DEF IndInv, Types, Alive, InFlight
<1>1. CASE StartServing
  BY <1>1 DEF StartServing
<1>2. CASE AcceptFails \/ SendError \/ Cancel
  BY <1>2 DEF AcceptFails, SendError, Cancel
<1>3. ASSUME NEW s \in Scrapers, Scrape(s) PROVE IndInv'
  BY <1>3 DEF Scrape
<1>4. ASSUME NEW s \in Scrapers, Answer(s) PROVE IndInv'
  BY <1>4 DEF Answer
<1>5. CASE SelectDone
  BY <1>5 DEF SelectDone
<1>6. CASE SelectError
  BY <1>6 DEF SelectError
<1>7. CASE ShutdownReturns \/ ShutdownTimeout
  BY <1>7 DEF ShutdownReturns, ShutdownTimeout
<1>8. CASE MainExits
  BY <1>8 DEF MainExits
<1>9. CASE UNCHANGED vars
  BY <1>9 DEF vars
<1> QED
  BY <1>1, <1>2, <1>3, <1>4, <1>5, <1>6, <1>7, <1>8, <1>9 DEF Next, Goroutines

(* When Serve reports success, every scrape it accepted was answered,      *)
(* however many there are and however they overlap with the shutdown.      *)
THEOREM GracefulSuccess == Spec => []SuccessIsGraceful
<1>1. IndInv => SuccessIsGraceful
  BY DEF IndInv, Types, SuccessIsGraceful, InFlight
<1> QED
  BY <1>1, InitInv, StepInv, PTL DEF Spec
=============================================================================
