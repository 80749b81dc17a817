------------------------------ MODULE IdSource ------------------------------
(***************************************************************************)
(* What the pipeline asks of RedisIdWorker.nextId("order"), with nothing   *)
(* of clocks and counters: a call is answered once, with an id that no     *)
(* other call was answered with.  existsById takes two events of one id    *)
(* for one order, so that all the consumer's idempotency rests on it.      *)
(***************************************************************************)
VARIABLE answers    \* the calls that have returned, each with its id

Calls == {a.call : a \in answers}

Drawn == {a.id : a \in answers}

Init == answers = {}

\* Which new id it is is left open.
Draw ==
    \E a \in answers' :
        /\ a.call \notin Calls
        /\ a.id \notin Drawn
        /\ answers' = answers \cup {a}

Spec == Init /\ [][Draw]_answers
=============================================================================
