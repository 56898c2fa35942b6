------------------------------ MODULE Questions -------------------------------
(***************************************************************************)
(* What the chat promises about a question, without its store, its awaits, *)
(* its sockets and its callbacks: a question is handed to one connection   *)
(* at most and answered at most once; one that the browser gave up is      *)
(* never answered; and a connection answers one question at a time.        *)
(***************************************************************************)

CONSTANTS Asked, Connections

VARIABLES stage,    \* how far each question has come
          holders   \* the connections that have it, waiting or in work

vars == <<stage, holders>>

Init ==
    /\ stage = [q \in Asked |-> "unasked"]
    /\ holders = [q \in Asked |-> {}]

Ask(q) ==
    /\ stage[q] = "unasked"
    /\ stage' = [stage EXCEPT ![q] = "waiting"]
    /\ UNCHANGED holders

GiveUp(q) ==
    /\ stage[q] = "waiting"
    /\ stage' = [stage EXCEPT ![q] = "failed"]
    /\ UNCHANGED holders

\* With a connection open, a question is handed over as it is asked.
Hand(q, k) ==
    /\ stage[q] \in {"unasked", "waiting"}
    /\ stage' = [stage EXCEPT ![q] = "handed"]
    /\ holders' = [holders EXCEPT ![q] = {k}]

Take(q) ==
    /\ stage[q] = "handed"
    /\ \A r \in Asked : stage[r] = "answering" => holders[r] # holders[q]
    /\ stage' = [stage EXCEPT ![q] = "answering"]
    /\ UNCHANGED holders

\* The answer is shown, or the connection or its handler goes before that: either way the
\* question is never answered again.
End(q) ==
    /\ stage[q] = "answering"
    /\ stage' = [stage EXCEPT ![q] = "answered"]
    /\ holders' = [holders EXCEPT ![q] = {}]

Next == \E q \in Asked : Ask(q) \/ GiveUp(q) \/ Take(q) \/ End(q) \/ \E k \in Connections : Hand(q, k)

Spec == Init /\ [][Next]_vars
===============================================================================
