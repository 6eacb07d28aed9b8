------------------------- MODULE ThreadHelperProofs -------------------------
(***************************************************************************)
(* What ThreadHelper keeps for any number of threads and waits, with busy  *)
(* bodies and without.  The handle alone says too little: it may be NULL   *)
(* or stale while _Start is about to store it.  So the invariant names the *)
(* stages of the owner in which no thread runs, and says that the thread   *)
(* whose handle is about to be stored is then the only one.                *)
(***************************************************************************)
EXTENDS ThreadHelper, TLAPS

\* Only the thread just begun runs while _Start stores its handle.
AloneAtStart == opc = "store" => \A t \in Threads : Running(t) => t = started

\* Nobody runs once _Stop has seen the thread dead, nor when it has returned.
QuietWhenStopped ==
    (opc \in {"clear", "reset"} \/ stopReturned) => \A t \in Threads : ~Running(t)

Stages ==
    /\ stopReturned => opc = "idle"
    /\ opc = "wait" => tries < Times
    /\ opc = "store" => started \in Threads

IInv == TypeOK /\ HandleNamesRunner /\ AloneAtStart /\ QuietWhenStopped /\ Stages

\* The initial state satisfies the invariant: no thread has been started.
LEMMA Initially == Init => IInv
<1> SUFFICES ASSUME Init PROVE IInv
  OBVIOUS
<1> USE DEF Init
<1>1. m_stopevent \in BOOLEAN /\ stopReturned \in BOOLEAN
  OBVIOUS
<1>2. TypeOK
  BY <1>1, ThreadHelperAssumption DEF TypeOK
<1>3. \A t \in Threads : ~Running(t)
  BY DEF Running
<1>4. HandleNamesRunner /\ AloneAtStart /\ QuietWhenStopped
  BY <1>3 DEF HandleNamesRunner, AloneAtStart, QuietWhenStopped
<1>5. Stages
  BY DEF Stages
<1> QED BY <1>2, <1>4, <1>5 DEF IInv

\* The invariant leaves at most one thread before the clearing of the handle.
LEMMA OneRuns == ASSUME IInv, NEW t \in Threads, NEW u \in Threads, Running(t), Running(u) PROVE t = u
BY DEF IInv, HandleNamesRunner, AloneAtStart

\* A thread's own steps keep the invariant: only the running thread clears the handle.
LEMMA ThreadKeeps == ASSUME IInv, NEW t \in Threads, Thread(t) PROVE IInv'
<1> USE DEF IInv, Running, owner
<1>1. TypeOK'
  <2>1. CASE Body(t)
    BY <2>1 DEF TypeOK, Body
  <2>2. CASE ClearHandle(t)
    BY <2>2, ThreadHelperAssumption DEF TypeOK, ClearHandle
  <2>3. CASE ResetStopEvent(t)
    BY <2>3 DEF TypeOK, ResetStopEvent
  <2> QED BY <2>1, <2>2, <2>3 DEF Thread
<1>2. \A u \in Threads : Running(u)' => Running(u)
  BY DEF TypeOK, Thread, Body, ClearHandle, ResetStopEvent
<1>3. HandleNamesRunner'
  <2>1. CASE ClearHandle(t)
    <3>1. Running(t) /\ ~Running(t)'
      BY <2>1 DEF TypeOK, ClearHandle
    <3>2. \A u \in Threads : ~Running(u)'
      BY <1>2, <3>1, OneRuns
    <3> QED BY <3>2 DEF HandleNamesRunner
  <2>2. CASE Body(t) \/ ResetStopEvent(t)
    BY <1>2, <2>2 DEF HandleNamesRunner, Body, ResetStopEvent
  <2> QED BY <2>1, <2>2 DEF Thread
<1>4. AloneAtStart' /\ QuietWhenStopped' /\ Stages'
  BY <1>2 DEF AloneAtStart, QuietWhenStopped, Stages, Thread, Body, ClearHandle, ResetStopEvent
<1> QED BY <1>1, <1>3, <1>4

\* _Start begins a thread only when no other runs.
LEMMA StartKeeps == ASSUME IInv, Start PROVE IInv'
<1> USE ThreadHelperAssumption DEF IInv, Threads
<1>1. TypeOK'
  <2>1. stopReturned' \in BOOLEAN /\ m_stopevent' \in BOOLEAN
    BY Zenon DEF TypeOK, Start
  <2> QED BY <2>1 DEF TypeOK, Start
<1>2. \A t \in Threads : ~Running(t)
  BY DEF HandleNamesRunner, Start, MayStart, Is_alive, Lives, Running
<1>3. \A t \in Threads : Running(t)' => t = started'
  BY <1>2 DEF TypeOK, Start, Running
<1>4. HandleNamesRunner' /\ AloneAtStart' /\ QuietWhenStopped' /\ Stages'
  BY <1>3 DEF TypeOK, HandleNamesRunner, AloneAtStart, QuietWhenStopped, Stages, Start
<1> QED BY <1>1, <1>4

\* Storing the handle names the thread that was begun.
LEMMA StoreKeeps == ASSUME IInv, Store PROVE IInv'
<1> USE DEF IInv, Store
<1>1. TypeOK' /\ Stages'
  BY DEF TypeOK, Stages, Threads
<1>2. \A t \in Threads : Running(t)' => Running(t) /\ t = started
  BY DEF AloneAtStart, Running
<1>3. HandleNamesRunner' /\ AloneAtStart' /\ QuietWhenStopped'
  BY <1>2 DEF HandleNamesRunner, AloneAtStart, QuietWhenStopped, Stages
<1> QED BY <1>1, <1>3

\* _Stop and its steps: the handle is left alone until no thread runs.
LEMMA StopKeeps == ASSUME IInv, Stop \/ StopSteps PROVE IInv'
<1> USE ThreadHelperAssumption DEF IInv
<1>1. CASE Stop
  <2>1. ~Is_alive => \A t \in Threads : ~Running(t)
    BY <1>1 DEF Stop, HandleNamesRunner, Is_alive, Lives, Running, Threads
  <2>2. stopReturned' \in BOOLEAN /\ m_stopevent' \in BOOLEAN
    <3>1. Is_alive \in BOOLEAN
      BY DEF Is_alive, Lives
    <3> QED BY <1>1, <3>1 DEF Stop, TypeOK
  <2>3. TypeOK'
    BY <1>1, <2>2 DEF Stop, TypeOK
  <2>4. stopReturned' => opc' = "idle"
    BY <1>1 DEF Stop
  <2>5. Stages'
    <3>1. opc' = "wait" => tries' < Times
      BY <1>1 DEF Stop, TypeOK, Stages
    <3>2. opc' # "store"
      BY <1>1 DEF Stop
    <3> QED BY <2>4, <3>1, <3>2 DEF Stages
  <2>6. HandleNamesRunner' /\ AloneAtStart' /\ QuietWhenStopped'
    BY <1>1, <2>1 DEF Stop, HandleNamesRunner, AloneAtStart, QuietWhenStopped, Running
  <2> QED BY <2>3, <2>5, <2>6
<1>2. CASE Wait
  BY <1>2 DEF Wait, WaitAgain, TypeOK, Stages, HandleNamesRunner, AloneAtStart,
              QuietWhenStopped, Running
<1>3. CASE Check
  <2>1. ~Is_alive => \A t \in Threads : ~Running(t)
    BY <1>3 DEF Check, HandleNamesRunner, Is_alive, Lives, Running, Threads
  <2> QED
    BY <1>3, <2>1 DEF Check, TypeOK, Stages, HandleNamesRunner, AloneAtStart,
                      QuietWhenStopped, Running
<1>4. CASE Kill
  <2>1. \A t \in Threads : ~Running(t)'
    BY <1>4 DEF Kill, Terminate, HandleNamesRunner, Lives, Running, TypeOK, Threads
  <2>2. TypeOK' /\ Stages'
    BY <1>4 DEF Kill, Terminate, TypeOK, Stages
  <2> QED
    BY <1>4, <2>1, <2>2 DEF HandleNamesRunner, AloneAtStart, QuietWhenStopped
<1>5. CASE OwnerClears \/ OwnerResets
  <2>1. \A t \in Threads : ~Running(t)'
    BY <1>5 DEF OwnerClears, OwnerResets, QuietWhenStopped, Running
  <2>2. stopReturned' \in BOOLEAN /\ m_stopevent' \in BOOLEAN
    BY <1>5, Zenon DEF OwnerClears, OwnerResets, TypeOK
  <2>3. TypeOK' /\ Stages'
    BY <1>5, <2>2, ThreadHelperAssumption DEF OwnerClears, OwnerResets, TypeOK, Stages
  <2> QED
    BY <2>1, <2>3 DEF HandleNamesRunner, AloneAtStart, QuietWhenStopped
<1> QED BY <1>1, <1>2, <1>3, <1>4, <1>5 DEF StopSteps

\* The invariant is inductive.
LEMMA Inductive == IInv /\ [Next]_vars => IInv'
<1> SUFFICES ASSUME IInv, [Next]_vars PROVE IInv'
  OBVIOUS
<1>1. CASE UNCHANGED vars
  BY <1>1 DEF IInv, vars, owner, TypeOK, HandleNamesRunner, AloneAtStart, QuietWhenStopped,
              Stages, Running
<1>2. CASE Next
  BY <1>2, ThreadKeeps, StartKeeps, StoreKeeps, StopKeeps DEF Next
<1> QED BY <1>1, <1>2

\* The invariant holds in every state of the specification.
THEOREM Invariant == Spec => []IInv
BY Initially, Inductive, PTL DEF Spec

\* Every shared word, event and program counter keeps its type.
THEOREM Types == Spec => []TypeOK
<1>1. IInv => TypeOK
  BY DEF IInv
<1> QED BY <1>1, Invariant, PTL

\* A thread that has not cleared the handle is the one the handle names, or the
\* one _Start is about to store.
THEOREM HandleNames == Spec => []HandleNamesRunner
<1>1. IInv => HandleNamesRunner
  BY DEF IInv
<1> QED BY <1>1, Invariant, PTL

\* Two threads never run one controller's _Thread at the same time.
THEOREM OneAtATime == Spec => []OneBody
<1>1. IInv => OneBody
  BY OneRuns DEF OneBody, Running
<1> QED BY <1>1, Invariant, PTL

\* When _Stop has returned no thread runs _Thread.
THEOREM StopStopsBody == Spec => []BodyStopped
<1>1. IInv => BodyStopped
  BY DEF IInv, QuietWhenStopped, BodyStopped, Running
<1> QED BY <1>1, Invariant, PTL
==============================================================================
