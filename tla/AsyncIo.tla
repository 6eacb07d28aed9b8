------------------------------- MODULE AsyncIo -------------------------------
(***************************************************************************)
(* CAsyncIo (asyncio.cpp): the queue of read requests behind the file, UDP *)
(* and disc readers, and the thread that serves it, with its client, the   *)
(* pulling input pin CPullPin (pullpin.cpp).                               *)
(*   - the pulling thread queues reads two at a time, waits for them and   *)
(*     delivers them;                                                      *)
(*   - the reading thread takes a request off the work list, reads, and    *)
(*     puts it on the done list;                                           *)
(*   - the application's thread starts, pauses and stops the pulling       *)
(*     thread, and flushes the queue so that it does not block.            *)
(* A request is <<run, piece>>: the piece-th read of the run-th Process.   *)
(* The events m_evWork and m_evDone are reset by hand, m_evAllDone by the  *)
(* thread it wakes.  A critical section of m_csLists is one step.          *)
(* Left out: positions, alignment, synchronous reads (they touch neither   *)
(* list), m_evStop and the destructor, exhausted memory, and the ten       *)
(* seconds of CallWorker (CamThread).                                      *)
(***************************************************************************)
EXTENDS Naturals, Sequences

CONSTANTS
    MaxRuns,      \* bound on the Processes begun
    Pieces,       \* reads in one Process
    Depth         \* reads queued at once: 2, or 1 with a single buffer

ASSUME AsyncIoAssumption ==
    MaxRuns \in Nat /\ Pieces \in Nat /\ Depth \in Nat \ {0}

VARIABLES
    m_bFlushing, m_bWaiting,         \* between BeginFlush and EndFlush; a flush waits
    m_listWork, m_listDone,          \* requests; <<request, whether the read succeeded>>
    m_evWork, m_evDone, m_evAllDone,
    io,         \* the reading thread: "wait", "take" or the request it reads
    pull,       \* where the pulling thread is
    why,        \* why it calls WaitForNext
    run,        \* Processes begun
    queued, collected,  \* requests of this Process queued and delivered
    delivered,  \* the last request given to DeliverSample
    app,        \* where the application's thread is
    m_State,    \* the last command
    req         \* the command in CAMThread's hands

lists == <<m_bFlushing, m_bWaiting, m_listWork, m_listDone, m_evWork, m_evDone, m_evAllDone>>
puller == <<pull, why, run, queued, collected, delivered>>
caller == <<app, m_State>>
vars == <<lists, io, puller, caller, req>>

Requests == (1 .. MaxRuns) \X (1 .. Pieces)
Served == [r : Requests, ok : BOOLEAN]
InFlush == {"flushWait", "flushCheck"}

TypeOK ==
    /\ m_bFlushing \in BOOLEAN /\ m_bWaiting \in BOOLEAN
    /\ m_listWork \in Seq(Requests) /\ m_listDone \in Seq(Served)
    /\ m_evWork \in BOOLEAN /\ m_evDone \in BOOLEAN /\ m_evAllDone \in BOOLEAN
    /\ io \in {<<"wait">>, <<"take">>} \cup Requests
    /\ pull \in {"gone", "idle", "process", "wait", "take", "check", "flush", "endFlush"} \cup InFlush
    /\ why \in {"collect", "cancelled", "cleanup"}
    /\ run \in 0 .. MaxRuns /\ queued \in 0 .. Pieces /\ collected \in 0 .. queued
    /\ queued - collected <= Depth
    /\ delivered \in {<<0, 0>>} \cup Requests
    /\ app \in {"idle", "call", "answer", "endFlush"} \cup InFlush
    /\ m_State \in {"TM_Start", "TM_Pause", "TM_Exit"}
    /\ req \in {"none", "answered", "TM_Start", "TM_Pause", "TM_Exit"}

Init ==
    /\ m_bFlushing = FALSE /\ m_bWaiting = FALSE /\ m_listWork = <<>> /\ m_listDone = <<>>
    /\ m_evWork = FALSE /\ m_evDone = FALSE /\ m_evAllDone = FALSE
    /\ io = <<"wait">>
    /\ pull = "gone" /\ why = "cleanup" /\ run = 0 /\ queued = 0 /\ collected = 0
    /\ delivered = <<0, 0>>
    /\ app = "idle" /\ m_State = "TM_Exit" /\ req = "none"

Reading == io \notin {<<"wait">>, <<"take">>}
ItemsOut == IF Reading THEN 1 ELSE 0      \* m_cItemsOut: one thread reads

------------------------------------------------------------------------------
(* The lists: each operator is one critical section.                       *)

PutWorkItem(r) ==
    /\ m_listWork' = Append(m_listWork, r) /\ m_evWork' = TRUE
    /\ UNCHANGED <<m_bFlushing, m_bWaiting, m_listDone, m_evDone, m_evAllDone>>

ResetWhenEmpty == Len(m_listDone) <= 1 /\ (~m_bFlushing \/ m_bWaiting)

\* RemoveHead, of an empty list too.
GetDoneItem ==
    /\ m_listDone' = IF m_listDone = <<>> THEN <<>> ELSE Tail(m_listDone)
    /\ m_evDone' = (m_evDone /\ ~ResetWhenEmpty)
    /\ UNCHANGED <<m_bFlushing, m_bWaiting, m_listWork, m_evWork, m_evAllDone>>

CancelledAsRead == [i \in DOMAIN m_listWork |-> [r |-> m_listWork[i], ok |-> TRUE]]
Cancelled == [i \in DOMAIN m_listWork |-> [r |-> m_listWork[i], ok |-> FALSE]]

NeverOut == TRUE
AllDone == ItemsOut = 0

BeginFlush ==
    /\ m_bFlushing' = TRUE /\ m_bWaiting' = (m_bWaiting \/ ~AllDone)
    /\ m_listWork' = <<>> /\ m_evWork' = FALSE
    /\ m_listDone' = m_listDone \o Cancelled
    /\ m_evDone' = (m_evDone \/ m_listWork # <<>> \/ AllDone)
    /\ UNCHANGED m_evAllDone

\* m_evAllDone.Wait(), and then the check under the lock.
FlushWait == m_evAllDone /\ m_evAllDone' = FALSE
             /\ UNCHANGED <<m_bFlushing, m_bWaiting, m_listWork, m_listDone, m_evWork, m_evDone>>

FlushCheck ==
    /\ IF AllDone THEN m_bWaiting' = FALSE /\ m_evDone' = TRUE
                  ELSE UNCHANGED <<m_bWaiting, m_evDone>>
    /\ UNCHANGED <<m_bFlushing, m_listWork, m_listDone, m_evWork, m_evAllDone>>

AfterFlush(next) == IF AllDone THEN next ELSE "flushWait"

EndFlush ==
    /\ m_bFlushing' = FALSE /\ m_evDone' = (m_listDone # <<>>)
    /\ UNCHANGED <<m_bWaiting, m_listWork, m_listDone, m_evWork, m_evAllDone>>

------------------------------------------------------------------------------
(* The reading thread: ThreadProc and ProcessRequests.                     *)

Wake ==
    /\ io = <<"wait">> /\ m_evWork /\ io' = <<"take">>
    /\ UNCHANGED <<lists, puller, caller, req>>

WorkEventStays == TRUE
WorkLeft == Len(m_listWork) > 1

TakeWork ==
    /\ io = <<"take">> /\ m_evWork' = (m_evWork /\ WorkLeft)
    /\ IF m_listWork = <<>> THEN io' = <<"wait">> /\ UNCHANGED m_listWork
                            ELSE io' = Head(m_listWork) /\ m_listWork' = Tail(m_listWork)
    /\ UNCHANGED <<m_bFlushing, m_bWaiting, m_listDone, m_evDone, m_evAllDone, puller, caller, req>>

\* Complete, PutDoneItem and the count of the requests that are out.
LastOneOut == m_evAllDone \/ m_bWaiting

Finish ==
    /\ Reading /\ io' = <<"take">>
    /\ \E ok \in BOOLEAN : m_listDone' = Append(m_listDone, [r |-> io, ok |-> ok])
    /\ m_evDone' = TRUE /\ m_evAllDone' = LastOneOut
    /\ UNCHANGED <<m_bFlushing, m_bWaiting, m_listWork, m_evWork, puller, caller, req>>

ReadingThread == Wake \/ TakeWork \/ Finish

------------------------------------------------------------------------------
(* The pulling thread: CPullPin::ThreadProc, Process and what they call.   *)

\* GetRequest and Reply.  Every command but TM_Exit ends in a flush.
Command ==
    /\ pull = "idle" /\ req \in {"TM_Start", "TM_Pause", "TM_Exit"} /\ req' = "answered"
    /\ \/ req = "TM_Exit" /\ pull' = "gone" /\ UNCHANGED <<run, queued, collected>>
       \/ req = "TM_Pause" /\ pull' = "flush" /\ UNCHANGED <<run, queued, collected>>
       \/ /\ req = "TM_Start" /\ pull' = "process"
          /\ run' = run + 1 /\ queued' = 0 /\ collected' = 0
    /\ UNCHANGED <<lists, io, why, delivered, caller>>

\* CheckRequest, asked before the first request only.
Interrupted ==
    /\ pull = "process" /\ queued = 0 /\ req # "none" /\ req # "answered"
    /\ pull' = "flush"
    /\ UNCHANGED <<lists, io, why, run, queued, collected, delivered, caller, req>>

MayQueue == queued < Pieces /\ queued - collected < Depth
NeverRefused == FALSE
Refused == m_bFlushing

QueueSample ==
    /\ pull = "process" /\ MayQueue
    /\ IF Refused THEN /\ pull' = "wait" /\ why' = "cancelled"
                       /\ UNCHANGED <<lists, queued>>
                  ELSE /\ PutWorkItem(<<run, queued + 1>>) /\ queued' = queued + 1
                       /\ UNCHANGED <<pull, why>>
    /\ UNCHANGED <<io, run, collected, delivered, caller, req>>

Collect ==
    /\ pull = "process" /\ ~MayQueue
    /\ IF collected < queued THEN pull' = "wait" /\ why' = "collect"
                             ELSE pull' = "flush" /\ UNCHANGED why
    /\ UNCHANGED <<lists, io, run, queued, collected, delivered, caller, req>>

\* WaitForNext returns NULL: CollectAndDeliver fails and cleans up, a clean-up
\* is over.
Null ==
    /\ pull' = CASE why = "collect" -> "wait" [] why = "cancelled" -> "flush" [] why = "cleanup" -> "endFlush"
    /\ why' = IF why = "collect" THEN "cancelled" ELSE why

\* m_evDone.Wait: without a limit to collect, not at all to clean up.
WaitDone ==
    /\ pull = "wait"
    /\ \/ m_evDone /\ pull' = "take" /\ UNCHANGED why
       \/ ~m_evDone /\ why # "collect" /\ Null
    /\ UNCHANGED <<lists, io, run, queued, collected, delivered, caller, req>>

TakeNothing ==
    /\ pull = "take" /\ m_listDone = <<>> /\ GetDoneItem /\ pull' = "check"
    /\ UNCHANGED <<io, why, run, queued, collected, delivered, caller, req>>

\* The sample is released.
TakeCancelled ==
    /\ pull = "take" /\ m_listDone # <<>> /\ GetDoneItem /\ pull' = "wait"
    /\ \/ why # "collect" /\ UNCHANGED why
       \/ why = "collect" /\ ~Head(m_listDone).ok /\ why' = "cancelled"
    /\ UNCHANGED <<io, run, queued, collected, delivered, caller, req>>

\* DeliverSample: downstream accepts it, is not interested in more (S_FALSE),
\* or fails.
Deliver ==
    /\ pull = "take" /\ why = "collect" /\ m_listDone # <<>> /\ Head(m_listDone).ok
    /\ GetDoneItem /\ delivered' = Head(m_listDone).r /\ collected' = collected + 1
    /\ \/ pull' = "process" /\ UNCHANGED why
       \/ pull' = "flush" /\ UNCHANGED why
       \/ pull' = "wait" /\ why' = "cancelled"
    /\ UNCHANGED <<io, run, queued, caller, req>>

BlocksAnyway == FALSE
CannotBlock == m_bFlushing /\ ~m_bWaiting

Check ==
    /\ pull = "check"
    /\ IF CannotBlock THEN Null ELSE pull' = "wait" /\ UNCHANGED why
    /\ UNCHANGED <<lists, io, run, queued, collected, delivered, caller, req>>

PullerFlush ==
    /\ pull = "flush" /\ BeginFlush /\ pull' = AfterFlush("wait") /\ why' = "cleanup"
    /\ UNCHANGED <<io, run, queued, collected, delivered, caller, req>>

PullerFlushWait ==
    /\ pull = "flushWait" /\ FlushWait /\ pull' = "flushCheck"
    /\ UNCHANGED <<io, why, run, queued, collected, delivered, caller, req>>

PullerFlushCheck ==
    /\ pull = "flushCheck" /\ FlushCheck /\ pull' = AfterFlush("wait")
    /\ UNCHANGED <<io, why, run, queued, collected, delivered, caller, req>>

PullerEndFlush ==
    /\ pull = "endFlush" /\ EndFlush /\ pull' = "idle"
    /\ UNCHANGED <<io, why, run, queued, collected, delivered, caller, req>>

PullingThread ==
    \/ Command \/ Interrupted \/ QueueSample \/ Collect \/ WaitDone \/ TakeNothing
    \/ TakeCancelled \/ Deliver \/ Check
    \/ PullerFlush \/ PullerFlushWait \/ PullerFlushCheck \/ PullerEndFlush

------------------------------------------------------------------------------
(* The application's thread: StartThread, PauseThread and StopThread.      *)

\* Active starts a thread that does not run, Seek one that it has paused.
StartThread ==
    /\ app = "idle" /\ m_State # "TM_Start" /\ run < MaxRuns
    /\ m_State' = "TM_Start" /\ app' = "call"
    /\ pull' = IF pull = "gone" THEN "idle" ELSE pull
    /\ UNCHANGED <<lists, io, why, run, queued, collected, delivered, req>>

\* Seek pauses a started thread only, Inactive stops any.
AppFlush(cmd) ==
    /\ app = "idle" /\ pull # "gone"
    /\ cmd = "TM_Pause" => m_State = "TM_Start"
    /\ BeginFlush /\ app' = AfterFlush("call") /\ m_State' = cmd
    /\ UNCHANGED <<io, puller, req>>

AppFlushWait ==
    /\ app = "flushWait" /\ FlushWait /\ app' = "flushCheck"
    /\ UNCHANGED <<io, puller, m_State, req>>

AppFlushCheck ==
    /\ app = "flushCheck" /\ FlushCheck /\ app' = AfterFlush("call")
    /\ UNCHANGED <<io, puller, m_State, req>>

CallWorker ==
    /\ app = "call" /\ app' = "answer" /\ req' = m_State
    /\ UNCHANGED <<lists, io, puller, m_State>>

Answered ==
    /\ app = "answer" /\ req = "answered" /\ req' = "none"
    /\ app' = IF m_State = "TM_Start" THEN "idle" ELSE "endFlush"
    /\ UNCHANGED <<lists, io, puller, m_State>>

AppEndFlush ==
    /\ app = "endFlush" /\ EndFlush /\ app' = "idle"
    /\ UNCHANGED <<io, puller, m_State, req>>

Finishing == AppFlushWait \/ AppFlushCheck \/ CallWorker \/ Answered \/ AppEndFlush

Application ==
    StartThread \/ (\E cmd \in {"TM_Pause", "TM_Exit"} : AppFlush(cmd)) \/ Finishing

Next == ReadingThread \/ PullingThread \/ Application

\* The system schedules every thread; the application makes its calls when it
\* likes, and goes on with a call it has made.
Fairness == WF_vars(ReadingThread) /\ WF_vars(PullingThread) /\ WF_vars(Finishing)

Spec == Init /\ [][Next]_vars /\ Fairness

------------------------------------------------------------------------------
(* Properties.                                                             *)

\* The events never hide a request: m_evWork is set exactly when the work list
\* has one ("ensure that the (manual reset) event hevList is set when things
\* on the list but reset when the list is empty"), and m_evDone is set whenever
\* the done list has one, whatever flushes have begun and ended meanwhile.
EventsMatch ==
    /\ m_evWork <=> m_listWork # <<>>
    /\ m_listDone # <<>> => m_evDone

\* A flush that no longer waits is complete: "all outstanding requests are on
\* the done list and no more will be accepted".  It stays so until EndFlush,
\* whichever thread began it and whichever ends it.
FlushedIsQuiet ==
    m_bFlushing => /\ m_listWork = <<>>
                   /\ ~m_bWaiting => ~Reading

\* A pulling thread that waits for its next command has given back every
\* sample: no request of its Process is on a list or being read, however the
\* Process ended and whoever flushed the queue meanwhile.
NothingLeftOver ==
    pull \in {"idle", "gone"} => m_listWork = <<>> /\ m_listDone = <<>> /\ ~Reading

\* Downstream gets the reads of a Process in the order of the file, from the
\* first and without a hole; a sample left over from an earlier Process, or
\* one after a cancelled read, never reaches it.
DeliveredInOrder ==
    [][delivered' # delivered => delivered' = <<run, collected'>>]_vars

\* "Can be only one person waiting" (BeginFlush's own ASSERT).  It does not
\* always hold: a PauseThread while a read is out ends the Process, whose
\* thread then flushes and waits too.
OneWaits == ~(app \in InFlush /\ pull \in InFlush)

\* A call of StartThread, PauseThread or StopThread returns, and a Process comes
\* to its end, and the flush after it too: no read is lost and none waits on an
\* event that nobody sets, as long as no two flushes wait at once.
CallReturns ==
    []OneWaits => /\ app # "idle" ~> app = "idle"
                  /\ pull = "process" ~> pull \in {"idle", "gone"}

\* A call returns in every case: the flush waits "for any outstanding requests
\* to complete", and they do.
PauseReturns == app # "idle" ~> app = "idle"
=============================================================================
