----------------------------- MODULE Rendezvous -----------------------------
(***************************************************************************)
(* What a client of CAMThread::CallWorker is promised: calls are taken one *)
(* at a time, and a call either is refused or returns the answer the       *)
(* worker gave to that very call.  Calls are numbered in the order in      *)
(* which they are admitted; the answer to call n is written n.             *)
(***************************************************************************)
EXTENDS Naturals

CONSTANT MaxCalls            \* bound on the number of calls of a behaviour

VARIABLES
    current,                 \* the call in progress, 0 when there is none
    outcome                  \* what each call returned

rvars == <<current, outcome>>

Calls == 1 .. MaxCalls

Refused == MaxCalls + 1      \* E_FAIL
Pending == MaxCalls + 2

Init ==
    /\ current = 0
    /\ outcome = [n \in Calls |-> Pending]

Ask(n) ==
    /\ current = 0
    /\ \A m \in Calls : outcome[m] = Pending <=> m >= n
    /\ current' = n
    /\ UNCHANGED outcome

Return(n) ==
    /\ current = n
    /\ current' = 0
    /\ outcome' \in {[outcome EXCEPT ![n] = a] : a \in {n, Refused}}

Next == \E n \in Calls : Ask(n) \/ Return(n)

Spec == Init /\ [][Next]_rvars
=============================================================================
