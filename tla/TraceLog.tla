------------------------------- MODULE TraceLog -------------------------------
(***************************************************************************)
(* What SqliteTracer promises, without its queue, workers and counter.     *)
(*                                                                         *)
(* A logged trace is accepted or dropped; an accepted trace is stored or   *)
(* reported as failed, once and for good, or stays pending; a flush that   *)
(* answers True asked about traces that were accepted by then and leaves   *)
(* none of them pending.                                                   *)
(***************************************************************************)
CONSTANTS Traces, Flushers

VARIABLES status,  \* what became of each trace
          asked,   \* the traces a flush asks about
          answer   \* where the flush is, or what it answered

vars == <<status, asked, answer>>

Settled == {t \in Traces : status[t] \in {"stored", "failed"}}
Pending == {t \in Traces : status[t] = "pending"}

Init == /\ status = [t \in Traces |-> "new"]
        /\ asked = [f \in Flushers |-> {}]
        /\ answer = [f \in Flushers |-> "idle"]

\* The caller learns nothing of either.
Log(t) ==
    /\ status[t] = "new"
    /\ \E s \in {"pending", "dropped"} : status' = [status EXCEPT ![t] = s]
    /\ UNCHANGED <<asked, answer>>

Settle(t) ==
    /\ status[t] = "pending"
    /\ \E s \in {"stored", "failed"} : status' = [status EXCEPT ![t] = s]
    /\ UNCHANGED <<asked, answer>>

Ask(f) ==
    /\ answer[f] = "idle"
    /\ asked' = [asked EXCEPT ![f] = Pending \cup Settled]
    /\ answer' = [answer EXCEPT ![f] = "join"]
    /\ UNCHANGED status

AnswerTrue(f) ==
    /\ answer[f] = "join"
    /\ asked[f] \subseteq Settled
    /\ answer' = [answer EXCEPT ![f] = "true"]
    /\ UNCHANGED <<status, asked>>

AnswerFalse(f) ==
    /\ answer[f] = "join"
    /\ answer' = [answer EXCEPT ![f] = "false"]
    /\ UNCHANGED <<status, asked>>

Next == \/ \E t \in Traces : Log(t) \/ Settle(t)
        \/ \E f \in Flushers : Ask(f) \/ AnswerTrue(f) \/ AnswerFalse(f)

Spec == Init /\ [][Next]_vars
===============================================================================
