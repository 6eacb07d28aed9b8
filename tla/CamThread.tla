------------------------------ MODULE CamThread ------------------------------
(***************************************************************************)
(* CAMThread (src/src/filters/BaseClasses/wxutil.cpp and wxutil.h): the    *)
(* request/reply handshake between client threads and one worker thread    *)
(* that every threaded filter of the player is built on.                   *)
(*                                                                         *)
(* A request is a number: the n-th call admitted by the access lock.  Its  *)
(* command is "exit" or "work"; the DWORD 0 that a timed out call leaves   *)
(* in m_dwParam is the value of CMD_EXIT in every user of the class.  The  *)
(* worker's answer to request n is written n, so that a return value tells *)
(* whose answer it is.                                                     *)
(***************************************************************************)
EXTENDS Naturals

CONSTANTS
    Clients,      \* threads that call CallWorker and Create
    Nobody,       \* owner of a free m_AccessLock
    Workers,      \* threads CreateThread may hand out
    MaxCalls      \* bound on the number of calls

ASSUME NobodyAssumption == Nobody \notin Clients
ASSUME MaxCallsAssumption == MaxCalls \in Nat

VARIABLES
    accessLock,     \* owner of m_AccessLock
    hThread,        \* m_hThread # NULL
    eventSend,      \* m_EventSend, manual reset
    eventComplete,  \* m_EventComplete, auto reset
    dwParam,        \* m_dwParam
    dwReturnVal,    \* m_dwReturnVal
    cpc,            \* where each client is
    call,           \* the request of each client's call
    wpc,            \* where each worker thread is
    taken,          \* the parameter each worker has read
    issued,         \* number of calls admitted so far
    command,        \* the command of each request
    served,         \* requests a worker has taken up
    outcome         \* what each call returned, Pending before that

cvars == <<accessLock, cpc, call, issued, command, outcome>>
evars == <<eventSend, eventComplete>>
wvars == <<wpc, taken, served>>
vars  == <<cvars, evars, wvars, hThread, dwParam, dwReturnVal>>

Calls  == 1 .. MaxCalls
Params == 0 .. MaxCalls
Failed == MaxCalls + 1              \* (DWORD) E_FAIL
Pending == MaxCalls + 2             \* the call has not returned

NextCall == issued + 1

IsExit(r) == r = 0 \/ command[r] = "exit"

TypeOK ==
    /\ accessLock \in Clients \cup {Nobody}
    /\ hThread \in BOOLEAN /\ eventSend \in BOOLEAN /\ eventComplete \in BOOLEAN
    /\ dwParam \in Params /\ dwReturnVal \in Params
    /\ cpc \in [Clients -> {"idle", "entered", "paramSet", "waiting", "woken",
                            "timedOut", "paramCleared", "completeReset"}]
    /\ call \in [Clients -> Params]
    /\ wpc \in [Workers -> {"none", "getRequest", "readParam", "exiting",
                            "serving", "resetSend", "setComplete"}]
    /\ taken \in [Workers -> Params]
    /\ issued \in Params
    /\ command \in [Calls -> {"work", "exit"}]
    /\ served \in SUBSET Calls
    /\ outcome \in [Calls -> Params \cup {Failed, Pending}]

Init ==
    /\ accessLock = Nobody
    /\ hThread = FALSE
    /\ eventSend = FALSE /\ eventComplete = FALSE
    /\ dwParam = 0 /\ dwReturnVal = 0
    /\ cpc = [c \in Clients |-> "idle"]
    /\ call = [c \in Clients |-> 0]
    /\ wpc = [w \in Workers |-> "none"]
    /\ taken = [w \in Workers |-> 0]
    /\ issued = 0
    /\ command = [n \in Calls |-> "work"]
    /\ served = {}
    /\ outcome = [n \in Calls |-> Pending]

(***************************************************************************)
(* Operations on the two events.  The variants leave an event as it is: a  *)
(* manual-reset m_EventComplete, a Reply that forgets one of its events.   *)
(***************************************************************************)
CompleteStaysSet == UNCHANGED eventComplete
ConsumeComplete == eventComplete' = FALSE

SendNotReset == UNCHANGED eventSend
ResetSend == eventSend' = FALSE

CompleteNotSet == UNCHANGED eventComplete
SetComplete == eventComplete' = TRUE

(***************************************************************************)
(* Create, under m_AccessLock for its whole length: it either finds the    *)
(* thread or starts one.  Nobody can ask the new thread to exit before the *)
(* lock is released, so the start and the store of the handle are one step.*)
(***************************************************************************)
CreateUnchecked(w) ==                    \* variant: no test of ThreadExists
    /\ accessLock = Nobody
    /\ wpc[w] = "none"
    /\ hThread' = TRUE
    /\ wpc' = [wpc EXCEPT ![w] = "getRequest"]
    /\ UNCHANGED <<cvars, evars, taken, served, dwParam, dwReturnVal>>

Create(w) ==
    /\ accessLock = Nobody
    /\ ~hThread
    /\ wpc[w] = "none"
    /\ hThread' = TRUE
    /\ wpc' = [wpc EXCEPT ![w] = "getRequest"]
    /\ UNCHANGED <<cvars, evars, taken, served, dwParam, dwReturnVal>>

(***************************************************************************)
(* CallWorker, step by step.                                               *)
(***************************************************************************)
Lock(c) ==
    /\ accessLock = Nobody
    /\ cpc[c] = "idle"
    /\ issued < MaxCalls
    /\ accessLock' = c
    /\ issued' = NextCall
    /\ call' = [call EXCEPT ![c] = NextCall]
    /\ \E k \in {"work", "exit"} : command' = [command EXCEPT ![NextCall] = k]
    /\ cpc' = [cpc EXCEPT ![c] = "entered"]
    /\ UNCHANGED <<outcome, evars, wvars, hThread, dwParam, dwReturnVal>>

ReturnWith(c, value) ==
    /\ outcome' = [outcome EXCEPT ![call[c]] = value]
    /\ accessLock' = Nobody
    /\ cpc' = [cpc EXCEPT ![c] = "idle"]
    /\ UNCHANGED <<call, issued, command>>

NoThread(c) ==
    /\ cpc[c] = "entered" /\ ~hThread
    /\ ReturnWith(c, Failed)
    /\ UNCHANGED <<evars, wvars, hThread, dwParam, dwReturnVal>>

SetParam(c) ==
    /\ cpc[c] = "entered" /\ hThread
    /\ dwParam' = call[c]
    /\ cpc' = [cpc EXCEPT ![c] = "paramSet"]
    /\ UNCHANGED <<accessLock, call, issued, command, outcome, evars, wvars,
                   hThread, dwReturnVal>>

Signal(c) ==
    /\ cpc[c] = "paramSet"
    /\ eventSend' = TRUE
    /\ cpc' = [cpc EXCEPT ![c] = "waiting"]
    /\ UNCHANGED <<accessLock, call, issued, command, outcome, eventComplete,
                   wvars, hThread, dwParam, dwReturnVal>>

Wake(c) ==
    /\ cpc[c] = "waiting" /\ eventComplete
    /\ ConsumeComplete
    /\ cpc' = [cpc EXCEPT ![c] = "woken"]
    /\ UNCHANGED <<accessLock, call, issued, command, outcome, eventSend,
                   wvars, hThread, dwParam, dwReturnVal>>

Answered(c) ==
    /\ cpc[c] = "woken"
    /\ ReturnWith(c, dwReturnVal)
    /\ UNCHANGED <<evars, wvars, hThread, dwParam, dwReturnVal>>

(* The ten seconds are over: m_dwParam = 0, both events are reset, E_FAIL. *)
WaitElapses(c) == cpc[c] = "waiting" /\ ~eventComplete

TimeOut(c) ==
    /\ WaitElapses(c)
    /\ cpc' = [cpc EXCEPT ![c] = "timedOut"]
    /\ UNCHANGED <<accessLock, call, issued, command, outcome, evars, wvars,
                   hThread, dwParam, dwReturnVal>>

ClearParam(c) ==
    /\ cpc[c] = "timedOut"
    /\ dwParam' = 0
    /\ cpc' = [cpc EXCEPT ![c] = "paramCleared"]
    /\ UNCHANGED <<accessLock, call, issued, command, outcome, evars, wvars,
                   hThread, dwReturnVal>>

ClearComplete(c) ==
    /\ cpc[c] = "paramCleared"
    /\ eventComplete' = FALSE
    /\ cpc' = [cpc EXCEPT ![c] = "completeReset"]
    /\ UNCHANGED <<accessLock, call, issued, command, outcome, eventSend,
                   wvars, hThread, dwParam, dwReturnVal>>

ClearSend(c) ==
    /\ cpc[c] = "completeReset"
    /\ ResetSend
    /\ ReturnWith(c, Failed)
    /\ UNCHANGED <<eventComplete, wvars, hThread, dwParam, dwReturnVal>>

(***************************************************************************)
(* The worker: GetRequest waits for m_EventSend and then reads m_dwParam;  *)
(* a worker told to exit stores NULL in m_hThread before it replies.       *)
(***************************************************************************)
GetRequest(w) ==
    /\ wpc[w] = "getRequest" /\ eventSend
    /\ wpc' = [wpc EXCEPT ![w] = "readParam"]
    /\ UNCHANGED <<cvars, evars, taken, served, hThread, dwParam, dwReturnVal>>

ReadParam(w) ==
    /\ wpc[w] = "readParam"
    /\ taken' = [taken EXCEPT ![w] = dwParam]
    /\ served' = served \cup ({dwParam} \ {0})
    /\ wpc' = [wpc EXCEPT ![w] = IF IsExit(dwParam) THEN "exiting" ELSE "serving"]
    /\ UNCHANGED <<cvars, evars, hThread, dwParam, dwReturnVal>>

DropHandle(w) ==
    /\ wpc[w] = "exiting"
    /\ hThread' = FALSE
    /\ wpc' = [wpc EXCEPT ![w] = "serving"]
    /\ UNCHANGED <<cvars, evars, taken, served, dwParam, dwReturnVal>>

ReplyValueAndSignal(w) ==                \* variant: signals before the reset
    /\ wpc[w] = "serving"
    /\ dwReturnVal' = taken[w]
    /\ eventComplete' = TRUE
    /\ wpc' = [wpc EXCEPT ![w] = "resetSend"]
    /\ UNCHANGED <<cvars, eventSend, taken, served, hThread, dwParam>>

ReplyValue(w) ==
    /\ wpc[w] = "serving"
    /\ dwReturnVal' = taken[w]
    /\ wpc' = [wpc EXCEPT ![w] = "resetSend"]
    /\ UNCHANGED <<cvars, evars, taken, served, hThread, dwParam>>

ReplyReset(w) ==
    /\ wpc[w] = "resetSend"
    /\ ResetSend
    /\ wpc' = [wpc EXCEPT ![w] = "setComplete"]
    /\ UNCHANGED <<cvars, eventComplete, taken, served, hThread, dwParam, dwReturnVal>>

ReplySignal(w) ==
    /\ wpc[w] = "setComplete"
    /\ SetComplete
    /\ wpc' = [wpc EXCEPT ![w] = IF IsExit(taken[w]) THEN "none" ELSE "getRequest"]
    /\ UNCHANGED <<cvars, eventSend, taken, served, hThread, dwParam, dwReturnVal>>

Client(c) ==
    \/ Lock(c) \/ NoThread(c) \/ SetParam(c) \/ Signal(c) \/ Wake(c) \/ Answered(c)

Late(c) == TimeOut(c) \/ ClearParam(c) \/ ClearComplete(c) \/ ClearSend(c)

Worker(w) ==
    \/ GetRequest(w) \/ ReadParam(w) \/ DropHandle(w)
    \/ ReplyValue(w) \/ ReplyReset(w) \/ ReplySignal(w)

(* Every answer comes within the ten seconds.                              *)
Next ==
    \/ \E w \in Workers : Create(w) \/ Worker(w)
    \/ \E c \in Clients : Client(c)

Spec == Init /\ [][Next]_vars

(* An answer may also take longer.                                         *)
LateSpec == Init /\ [][Next \/ \E c \in Clients : Late(c)]_vars

(* A client inside CallWorker keeps running; so does a worker that has     *)
(* been asked (nothing in a worker's loop waits for its client).           *)
Fairness ==
    /\ \A c \in Clients :
        WF_vars(NoThread(c) \/ SetParam(c) \/ Signal(c) \/ Wake(c) \/ Answered(c))
    /\ \A w \in Workers : WF_vars(Worker(w))

FairSpec == Spec /\ Fairness

------------------------------------------------------------------------------
(* "done - this is the thread's return value" (wxutil.cpp:183): a call     *)
(* that is not refused returns the answer to its own request, never one    *)
(* that the worker gave to another call.                                   *)
AnswerIsOwn ==
    \A n \in Calls : outcome[n] \in {n, Failed, Pending}

(* Never two threads run ThreadProc of one CAMThread: the handle is        *)
(* dropped before the last Reply of the old thread, and still no new       *)
(* thread is created before that Reply is over.                            *)
OneWorker ==
    \A v, w \in Workers : wpc[v] # "none" /\ wpc[w] # "none" => v = w

(* The state of the handshake while no call times out: who may be where,   *)
(* which request the shared words hold, and which event is set when.       *)
Busy(w)  == wpc[w] \in {"exiting", "serving", "resetSend", "setComplete"}
Awake(w) == wpc[w] = "readParam" \/ Busy(w)

ClientWaits == accessLock \in Clients /\ cpc[accessLock] = "waiting"

ClientInv(c) ==
    /\ cpc[c] # "idle" <=> accessLock = c
    /\ cpc[c] \in {"idle", "entered", "paramSet", "waiting", "woken"}
    /\ cpc[c] # "idle" => call[c] = issued /\ issued > 0
    /\ cpc[c] \in {"paramSet", "waiting"} => dwParam = issued
    /\ cpc[c] = "woken" => dwReturnVal = issued
    /\ cpc[c] \in {"entered", "paramSet"} => issued \notin served

WorkerInv(w) ==
    /\ Awake(w) => ClientWaits /\ ~eventComplete /\ (eventSend <=> wpc[w] # "setComplete")
    /\ Busy(w) => taken[w] = issued /\ issued \in served
    /\ wpc[w] = "readParam" => issued \notin served
    /\ wpc[w] \in {"resetSend", "setComplete"} => dwReturnVal = issued
    /\ wpc[w] = "exiting" => IsExit(taken[w])
    /\ ~hThread => wpc[w] \in {"none", "serving", "resetSend", "setComplete"}
    /\ ~hThread /\ wpc[w] # "none" => IsExit(taken[w])

EventInv ==
    /\ eventSend => ClientWaits /\ ~eventComplete
    /\ eventSend => issued \notin served \/ \E w \in Workers : Busy(w)
    /\ eventComplete => ClientWaits /\ dwReturnVal = issued
    /\ served \subseteq 1 .. issued

Handshake ==
    /\ \A c \in Clients : ClientInv(c)
    /\ \A w \in Workers : WorkerInv(w)
    /\ EventInv
    /\ OneWorker
    /\ AnswerIsOwn

(* A worker that has taken a request up does not take it up again, though  *)
(* m_EventSend stays set until Reply and the worker may loop to GetRequest.*)
ServedOnce ==
    [][\A w \in Workers :
         wpc[w] = "readParam" /\ wpc'[w] # "readParam" => dwParam \notin served]_vars

(* "the client may Set it before we reset it and we'll then reset it (!)"  *)
(* (wxutil.cpp:218-220): the reset of m_EventSend in Reply never wipes out *)
(* a request that no worker has taken up.                                  *)
NoRequestWiped ==
    [][\A w \in Workers :
         wpc[w] = "resetSend" /\ wpc'[w] # "resetSend" /\ eventSend => dwParam \in served]_vars

(* Every call of CallWorker returns.                                       *)
CallReturns ==
    \A c \in Clients : cpc[c] = "entered" ~> cpc[c] = "idle"

(* The handshake keeps the promise of Rendezvous.                          *)
current == IF accessLock = Nobody THEN 0 ELSE call[accessLock]
R == INSTANCE Rendezvous WITH current <- current, outcome <- outcome
IsRendezvous == R!Spec
==============================================================================
