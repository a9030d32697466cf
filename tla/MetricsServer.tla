--------------------------- MODULE MetricsServer ----------------------------
(***************************************************************************)
(* The metrics endpoint (internal/metrics/server.go) and the end of the    *)
(* process: Serve, the goroutine in it that runs http.Server.Serve, the    *)
(* scrapes, and run, which returns when its context is done.               *)
(*                                                                         *)
(*   Serve      select -> shutdown -> returned                             *)
(*   goroutine  start -> accept -> send -> ended                           *)
(*   scrape     none -> open -> answered | cut                             *)
(***************************************************************************)
EXTENDS Naturals, FiniteSets

CONSTANT Scrapers

Capacity == 1   \* of errCh

VARIABLES
    main,      \* run: "wait" for the context, or "exited"
    ctx,       \* "open" or "done"
    serve,     \* where Serve is
    err,       \* what Serve returned: "none", "nil", "accept" or "timeout"
    acceptor,  \* where the goroutine is
    errCh,     \* the number of errors in the channel
    closed,    \* has Shutdown been called?
    scrape     \* scrape[s]: the request of s

vars == <<main, ctx, serve, err, acceptor, errCh, closed, scrape>>

Init ==
    /\ main = "wait" /\ ctx = "open"
    /\ serve = "select" /\ err = "none"
    /\ acceptor = "start" /\ errCh = 0 /\ closed = FALSE
    /\ scrape = [s \in Scrapers |-> "none"]

Alive == main # "exited"
InFlight == {s \in Scrapers : scrape[s] = "open"}

-----------------------------------------------------------------------------
(* srv.Serve returns ErrServerClosed if Shutdown came first.               *)
StartServing ==
    /\ Alive /\ acceptor = "start"
    /\ acceptor' = IF closed THEN "ended" ELSE "accept"
    /\ UNCHANGED <<main, ctx, serve, err, errCh, closed, scrape>>

Scrape(s) ==
    /\ Alive /\ acceptor = "accept" /\ scrape[s] # "open"
    /\ scrape' = [scrape EXCEPT ![s] = "open"]
    /\ UNCHANGED <<main, ctx, serve, err, acceptor, errCh, closed>>

Answer(s) ==
    /\ Alive /\ scrape[s] = "open"
    /\ scrape' = [scrape EXCEPT ![s] = "answered"]
    /\ UNCHANGED <<main, ctx, serve, err, acceptor, errCh, closed>>

(* Accept fails for good.                                                  *)
AcceptFails ==
    /\ Alive /\ acceptor = "accept"
    /\ acceptor' = "send"
    /\ UNCHANGED <<main, ctx, serve, err, errCh, closed, scrape>>

HasRoom_Unbuffered == errCh = 0 /\ serve = "select"

(* A send on errCh does not block.                                         *)
HasRoom == errCh < Capacity

SendError ==
    /\ Alive /\ acceptor = "send" /\ HasRoom
    /\ errCh' = errCh + 1
    /\ acceptor' = "ended"
    /\ UNCHANGED <<main, ctx, serve, err, closed, scrape>>

-----------------------------------------------------------------------------
(* Serve's select takes either branch that is ready.                       *)

(* Shutdown closes the listener, and Accept returns.                       *)
SelectDone ==
    /\ Alive /\ serve = "select" /\ ctx = "done"
    /\ serve' = "shutdown"
    /\ closed' = TRUE
    /\ acceptor' = IF acceptor = "accept" THEN "ended" ELSE acceptor
    /\ UNCHANGED <<main, ctx, err, errCh, scrape>>

SelectError ==
    /\ Alive /\ serve = "select" /\ errCh > 0
    /\ serve' = "returned" /\ err' = "accept"
    /\ errCh' = errCh - 1
    /\ UNCHANGED <<main, ctx, acceptor, closed, scrape>>

(* Close, which does not wait, instead of Shutdown.                        *)
ShutdownReturns_Close ==
    /\ Alive /\ serve = "shutdown"
    /\ serve' = "returned" /\ err' = "nil"
    /\ scrape' = [s \in Scrapers |-> IF s \in InFlight THEN "cut" ELSE scrape[s]]
    /\ UNCHANGED <<main, ctx, acceptor, errCh, closed>>

(* Shutdown returns nil when no request is in flight.                      *)
ShutdownReturns ==
    /\ Alive /\ serve = "shutdown" /\ InFlight = {}
    /\ serve' = "returned" /\ err' = "nil"
    /\ UNCHANGED <<main, ctx, acceptor, errCh, closed, scrape>>

ShutdownTimeout_Never == serve = "none" /\ UNCHANGED vars

(* After five seconds it returns an error, and the requests go on.         *)
ShutdownTimeout ==
    /\ Alive /\ serve = "shutdown" /\ InFlight # {}
    /\ serve' = "returned" /\ err' = "timeout"
    /\ UNCHANGED <<main, ctx, acceptor, errCh, closed, scrape>>

-----------------------------------------------------------------------------
(* SIGTERM or SIGINT.                                                      *)
Cancel ==
    /\ Alive /\ ctx = "open"
    /\ ctx' = "done"
    /\ UNCHANGED <<main, serve, err, acceptor, errCh, closed, scrape>>

(* run returns, and with main every goroutine ends.                        *)
MainExits ==
    /\ Alive /\ ctx = "done"
    /\ main' = "exited"
    /\ scrape' = [s \in Scrapers |-> IF s \in InFlight THEN "cut" ELSE scrape[s]]
    /\ UNCHANGED <<ctx, serve, err, acceptor, errCh, closed>>

Goroutines ==
    \/ StartServing \/ SendError
    \/ SelectDone \/ SelectError \/ ShutdownReturns \/ ShutdownTimeout

Next ==
    \/ Goroutines \/ AcceptFails \/ Cancel \/ MainExits
    \/ \E s \in Scrapers : Scrape(s) \/ Answer(s)

(* Goroutines that can go on do; a scraper need not read its answer, and   *)
(* nothing is assumed of how soon main exits.                              *)
Fairness ==
    /\ WF_vars(StartServing) /\ WF_vars(SendError)
    /\ WF_vars(SelectDone \/ SelectError \/ ShutdownReturns \/ ShutdownTimeout)

Spec == Init /\ [][Next]_vars /\ Fairness

-----------------------------------------------------------------------------
(* Properties.                                                             *)

(* While the process lives, a cancelled context makes Serve return, though *)
(* a scrape may never end or Accept fail at the same time.                 *)
ServeReturns == (ctx = "done" /\ Alive) ~> (serve = "returned" \/ ~Alive)

(* The goroutine that accepts is not left behind by a Serve that took the  *)
(* other branch of its select (the buffer of errCh).                       *)
AcceptorEnds == serve = "returned" ~> (acceptor = "ended" \/ ~Alive)

(* If Serve reports success, every scrape it accepted was answered.        *)
SuccessIsGraceful == Alive /\ err = "nil" => \A s \in Scrapers : scrape[s] \in {"none", "answered"}
=============================================================================
