---------------------------- MODULE ThreadHelper ----------------------------
(***************************************************************************)
(* ThreadHelperImpl (src/src/base/threadhelper.h): the worker thread of    *)
(* the player's controllers.  The owner starts and stops it; the thread    *)
(* runs the controller's _Thread, which looks for the stop event now and   *)
(* then, and clears the handle and the event itself when it returns.       *)
(* m_thread and m_stopevent are shared without a lock.                     *)
(* A thread is the number of its start, 0 the handle NULL.  Priorities are *)
(* left out.                                                               *)
(***************************************************************************)
EXTENDS Naturals

CONSTANTS
    MaxThreads,  \* bound on the threads started
    Times,       \* _Stop's times: how often it waits
    Busy         \* whether _Thread may go without a look at the event for
                 \* longer than all those waits

ASSUME ThreadHelperAssumption ==
    MaxThreads \in Nat /\ Times \in Nat /\ Busy \in BOOLEAN

Threads == 1 .. MaxThreads

VARIABLES
    m_thread,     \* the handle
    m_stopevent,  \* manual reset
    tpc,          \* where each thread is
    opc,          \* where the owner is
    tries,        \* the loop variable of _Stop
    started,      \* threads begun
    stopReturned  \* the owner's last call was a _Stop that has returned

owner == <<opc, tries, started, stopReturned>>
vars  == <<m_thread, m_stopevent, tpc, owner>>

TypeOK ==
    /\ m_thread \in 0 .. MaxThreads /\ m_stopevent \in BOOLEAN
    /\ tpc \in [Threads -> {"none", "body", "clear", "reset", "gone"}]
    /\ opc \in {"idle", "store", "wait", "check", "kill", "clear", "reset"}
    /\ tries \in 0 .. Times /\ started \in 0 .. MaxThreads /\ stopReturned \in BOOLEAN

Init ==
    /\ m_thread = 0 /\ m_stopevent = FALSE /\ tpc = [t \in Threads |-> "none"]
    /\ opc = "idle" /\ tries = 0 /\ started = 0 /\ stopReturned = FALSE

Lives(t) == t # 0 /\ tpc[t] \in {"body", "clear", "reset"}

Is_alive == Lives(m_thread)

------------------------------------------------------------------------------
(* The thread: Logic runs _Thread and then _ResetThread.                   *)

\* _Thread returns when its work is done or when _Exit_state shows it the event.
Body(t) ==
    /\ tpc[t] = "body"
    /\ tpc' = [tpc EXCEPT ![t] = "clear"]
    /\ UNCHANGED <<m_thread, m_stopevent, owner>>

ClearHandle(t) ==
    /\ tpc[t] = "clear"
    /\ m_thread' = 0 /\ tpc' = [tpc EXCEPT ![t] = "reset"]
    /\ UNCHANGED <<m_stopevent, owner>>

ResetStopEvent(t) ==
    /\ tpc[t] = "reset"
    /\ m_stopevent' = FALSE /\ tpc' = [tpc EXCEPT ![t] = "gone"]
    /\ UNCHANGED <<m_thread, owner>>

Thread(t) == Body(t) \/ ClearHandle(t) \/ ResetStopEvent(t)

------------------------------------------------------------------------------
(* The owner: _Start and _Stop.                                            *)

StartsAlways == TRUE
MayStart == ~Is_alive

\* _beginthread lets the thread run before its handle is stored.
Start ==
    /\ opc = "idle" /\ MayStart /\ started < MaxThreads
    /\ opc' = "store" /\ started' = started + 1 /\ stopReturned' = FALSE
    /\ tpc' = [tpc EXCEPT ![started + 1] = "body"]
    /\ UNCHANGED <<m_thread, m_stopevent, tries>>

Store ==
    /\ opc = "store" /\ opc' = "idle" /\ m_thread' = started
    /\ UNCHANGED <<m_stopevent, tpc, tries, started, stopReturned>>

Stop ==
    /\ opc = "idle" /\ stopReturned' = ~Is_alive /\ tries' = 0
    /\ IF Is_alive THEN m_stopevent' = TRUE /\ opc' = IF Times = 0 THEN "check" ELSE "wait"
                   ELSE UNCHANGED <<m_stopevent, opc>>
    /\ UNCHANGED <<m_thread, tpc, started>>

\* 300 ms pass: the thread is busy, or it has looked and seen no event.
Elapses == Busy \/ (Lives(m_thread) /\ tpc[m_thread] = "body" /\ ~m_stopevent)

WaitAgain == tries' = tries + 1 /\ opc' = IF tries' < Times THEN "wait" ELSE "check"

\* WaitForSingleObject returns at once when the handle is NULL or its thread
\* has ended; the loop then finds no thread alive.
Wait ==
    /\ opc = "wait"
    /\ \/ ~Is_alive /\ opc' = "check" /\ UNCHANGED tries
       \/ Elapses /\ WaitAgain
    /\ UNCHANGED <<m_thread, m_stopevent, tpc, started, stopReturned>>

Check ==
    /\ opc = "check" /\ opc' = IF Is_alive THEN "kill" ELSE "clear"
    /\ UNCHANGED <<m_thread, m_stopevent, tpc, tries, started, stopReturned>>

Spared(t) == UNCHANGED tpc
Terminate(t) == tpc' = [u \in Threads |-> IF u = t /\ Lives(u) THEN "gone" ELSE tpc[u]]

Kill ==
    /\ opc = "kill" /\ opc' = "clear" /\ Terminate(m_thread)
    /\ UNCHANGED <<m_thread, m_stopevent, tries, started, stopReturned>>

OwnerClears ==
    /\ opc = "clear" /\ opc' = "reset" /\ m_thread' = 0
    /\ UNCHANGED <<m_stopevent, tpc, tries, started, stopReturned>>

OwnerResets ==
    /\ opc = "reset" /\ opc' = "idle" /\ m_stopevent' = FALSE /\ tries' = 0
    /\ stopReturned' = TRUE
    /\ UNCHANGED <<m_thread, tpc, started>>

StopSteps == Wait \/ Check \/ Kill \/ OwnerClears \/ OwnerResets

Next ==
    \/ Start \/ Store \/ Stop \/ StopSteps
    \/ \E t \in Threads : Thread(t)

Spec == Init /\ [][Next]_vars

------------------------------------------------------------------------------
(* Properties *)

Running(t) == tpc[t] \in {"body", "clear"}

\* A thread that has not yet cleared the handle is the one it names, or the one
\* whose handle _Start is about to store (_Start line 38, _ResetThread line 89).
HandleNamesRunner ==
    \A t \in Threads : Running(t) => m_thread = t \/ (opc = "store" /\ started = t)

\* Two threads of one controller never run its _Thread at the same time.
OneBody == \A t, u \in Threads : tpc[t] = "body" /\ tpc[u] = "body" => t = u

\* When _Stop has returned no thread runs _Thread, however busy it was.
BodyStopped == stopReturned => \A t \in Threads : tpc[t] # "body"
==============================================================================
