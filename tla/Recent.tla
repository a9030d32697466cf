------------------------------- MODULE Recent -------------------------------
(***************************************************************************)
(* Which operation is "the most recent one" when operations overlap: any   *)
(* that ended and after whose end no other operation both began and ended. *)
(* A history of type SUBSET [result, during]: the result of each such      *)
(* operation and the operations that were running when it ended.           *)
(***************************************************************************)

NoneRecent(result) == {[result |-> result, during |-> {}]}

(* The history after operation op ends with a result, others still running.*)
Ended(history, op, result, running) ==
    {[h EXCEPT !.during = @ \ {op}] : h \in {h \in history : op \in h.during}}
        \cup {[result |-> result, during |-> running \ {op}]}

Results(history) == {h.result : h \in history}
=============================================================================
