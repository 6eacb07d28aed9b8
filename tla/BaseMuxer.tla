----------------------------- MODULE BaseMuxer -----------------------------
(***************************************************************************)
(* CBaseMuxerFilter (src/src/filters/muxer/basemuxer): the threads of the  *)
(* filters upstream push packets into one queue per input pin, the muxing  *)
(* thread takes the packet that starts first among the heads of all active *)
(* pins, and the application's thread pauses, runs and stops the filter.   *)
(*                                                                         *)
(* A pin's queue is guarded by its m_csQueue and its limit kept by a       *)
(* manual-reset event; the muxing thread looks at one pin after another.   *)
(* Times are 1 .. MaxTime, and 0 stands for _I64_MIN.                      *)
(* m_bFlushing is never set: the muxer passes seeks on only when stopped.  *)
(***************************************************************************)
EXTENDS Naturals, Sequences, FiniteSetsExt

CONSTANTS
    NumPins,          \* connected input pins
    MaxTime,          \* bound on the start times of samples
    MaxQueue,         \* MAXQUEUESIZE
    Graphs            \* the filter graphs that may be built around the filter

\* Of a graph: the samples each stream has in one run, and what they may be,
\* <<sync point?, start time>>; whether one thread upstream feeds every pin, or
\* one each; whether PushPacket may give up its 1000 waits; whether a write may
\* fail; the bound on the times the filter leaves the stopped state.
GraphType == [packets : [1 .. NumPins -> Nat \ {0}],
              samples : [1 .. NumPins -> SUBSET (BOOLEAN \X (0 .. MaxTime))],
              one : BOOLEAN, late : BOOLEAN, fails : BOOLEAN, runs : Nat \ {0}]

ASSUME BaseMuxerAssumption ==
    {NumPins, MaxTime, MaxQueue} \subseteq Nat \ {0} /\ Graphs \subseteq GraphType

VARIABLE graph        \* the one that is built

Samples(p) == graph.samples[p]
OneSource  == graph.one
MayTimeOut == graph.late
MayFail    == graph.fails
MaxRuns    == graph.runs

Pins   == 1 .. NumPins
Eos(p) == graph.packets[p] + 1

VARIABLES
    state,      \* m_State
    apc, apin,  \* the application's thread and the pin its loop has reached
    run,        \* times the filter has left the stopped state
    req,        \* the request pending at the muxing thread; "answered"
    wpc, wpin,  \* the muxing thread and the pin its loop has reached
    active,     \* m_pActivePins
    missing,    \* GetPacket's i: active pins not seen with a packet yet
    best,       \* GetPacket's pPinMin, 0 for NULL
    rtMin,      \* GetPacket's rtMin, MaxTime + 1 for _I64_MAX
    queue,      \* m_queue of each pin
    accept,     \* m_evAcceptPacket
    rtMaxStart, \* m_rtMaxStart
    upc, hand,  \* the upstream thread inside a pin, and its packet
    sent,       \* samples a pin was given in this run, the end of stream too
    lastOut,    \* number of the last packet of this run muxed from a pin
    lastSync,   \* start of the last sync point muxed in this run
    finished,   \* DeliverEndOfStream was called in this run
    spoilt      \* what went wrong in this run: a "write" failed, or the last run left
                \* an "eos" that ended a pin, or a "sample" that was muxed

avars == <<graph, state, apc, apin, run>>
scan  == <<missing, best, rtMin>>
wvars == <<wpc, wpin, active, scan, finished, spoilt>>
pins  == <<queue, accept>>
uvars == <<upc, hand, sent, rtMaxStart>>
out   == <<lastOut, lastSync>>
vars  == <<avars, req, wvars, pins, uvars, out>>

Kinds   == {"sync", "delta", "bogus", "eos"}   \* the flags GetPacket looks at
Packets == [run : 1 .. MaxRuns, n : Nat, rt : 0 .. MaxTime, kind : Kinds]

TypeOK ==
    /\ graph \in Graphs
    /\ state \in {"stopped", "paused", "running"}
    /\ apc \in {"idle", "start", "inactive", "setStopped", "exit"} /\ apin \in 1 .. NumPins + 1
    /\ run \in 0 .. MaxRuns /\ req \in {"none", "run", "exit", "answered"}
    /\ wpc \in {"none", "request", "loop", "scan", "pop", "signal", "finish"}
    /\ wpin \in 1 .. NumPins + 1 /\ active \in SUBSET Pins
    /\ missing \in 0 .. NumPins /\ best \in 0 .. NumPins /\ rtMin \in 1 .. MaxTime + 1
    /\ queue \in [Pins -> Seq(Packets)] /\ accept \in [Pins -> BOOLEAN]
    /\ rtMaxStart \in [Pins -> 0 .. MaxTime]
    /\ upc \in [Pins -> {"idle", "wait", "add"}] /\ hand \in [Pins -> Packets \cup {<<>>}]
    /\ sent \in [Pins -> Nat] /\ lastOut \in [Pins -> Nat]
    /\ spoilt \subseteq {"write", "eos", "sample"}
    /\ lastSync \in 0 .. MaxTime /\ finished \in BOOLEAN

Init ==
    /\ graph \in Graphs
    /\ state = "stopped" /\ apc = "idle" /\ apin = 1 /\ run = 0 /\ req = "none"
    /\ wpc = "none" /\ wpin = 1 /\ active = {} /\ missing = 0 /\ best = 0 /\ rtMin = MaxTime + 1
    /\ queue = [p \in Pins |-> <<>>] /\ accept = [p \in Pins |-> FALSE]
    /\ rtMaxStart = [p \in Pins |-> 0] /\ upc = [p \in Pins |-> "idle"]
    /\ hand = [p \in Pins |-> <<>>] /\ sent = [p \in Pins |-> 0]
    /\ lastOut = [p \in Pins |-> 0] /\ lastSync = 0
    /\ finished = FALSE /\ spoilt = {}

------------------------------------------------------------------------------
(* The upstream threads: Receive, EndOfStream and PushPacket.              *)

\* A source streams from the return of Pause, which reaches the muxer first,
\* and is stopped after it.
Feeding == IF apc = "idle" THEN state # "stopped" ELSE apc # "start"
Free(p) == upc[p] = "idle" /\ (OneSource => \A q \in Pins : upc[q] = "idle")

\* A sync point that starts before a packet of its pin is bogus, and so is one
\* without a time.
Kind(p, sync, rt) ==
    IF ~sync THEN "delta" ELSE IF rt = 0 \/ rt < rtMaxStart[p] THEN "bogus" ELSE "sync"

Push(p, rt, kind) ==
    /\ hand' = [hand EXCEPT ![p] = [run |-> run, n |-> sent[p] + 1, rt |-> rt, kind |-> kind]]
    /\ sent' = [sent EXCEPT ![p] = @ + 1]
    /\ upc' = [upc EXCEPT ![p] = "wait"]

Receive(p) ==
    /\ Feeding /\ Free(p) /\ sent[p] < Eos(p) - 1 /\ state # "stopped"
    /\ \E sample \in Samples(p) : LET rt == sample[2] IN
         /\ Push(p, rt, Kind(p, sample[1], rt))
         /\ rtMaxStart' = [rtMaxStart EXCEPT ![p] = IF rt > @ THEN rt ELSE @]
    /\ UNCHANGED <<avars, req, wvars, pins, out>>

EndOfStream(p) ==
    /\ Feeding /\ Free(p) /\ sent[p] = Eos(p) - 1
    /\ Push(p, 0, "eos")
    /\ UNCHANGED <<avars, req, wvars, pins, out, rtMaxStart>>

Leave(p, pc) == upc' = [upc EXCEPT ![p] = pc] /\ UNCHANGED <<sent, rtMaxStart>>

PushWait(p) ==
    /\ upc[p] = "wait"
    /\ \/ state = "stopped" /\ Leave(p, "idle") /\ hand' = [hand EXCEPT ![p] = <<>>]
       \/ state # "stopped" /\ accept[p] /\ Leave(p, "add") /\ UNCHANGED hand
    /\ UNCHANGED <<avars, req, wvars, pins, out>>

\* After a thousand waits the packet is added all the same.
WaitsOn(p)  == FALSE
WaitsOut(p) == MayTimeOut /\ ~accept[p]

GiveUp(p) ==
    /\ upc[p] = "wait" /\ state # "stopped" /\ WaitsOut(p)
    /\ Leave(p, "add")
    /\ UNCHANGED <<avars, req, wvars, pins, hand, out>>

Full(n) == n >= MaxQueue

ResetAccept(p, n) == accept' = [accept EXCEPT ![p] = @ /\ ~Full(n)]

AddHead(q, packet) == <<packet>> \o q
AddTail(q, packet) == Append(q, packet)

PushAdd(p) ==
    /\ upc[p] = "add" /\ Leave(p, "idle")
    /\ queue' = [queue EXCEPT ![p] = AddTail(@, hand[p])]
    /\ ResetAccept(p, Len(queue'[p]))
    /\ hand' = [hand EXCEPT ![p] = <<>>]
    /\ UNCHANGED <<avars, req, wvars, out>>

------------------------------------------------------------------------------
(* The muxing thread: ThreadProc and GetPacket.                            *)

\* CMD_RUN makes every connected pin active; CMD_EXIT ends the thread.
GetRequest ==
    /\ wpc = "request"
    /\ \/ req = "run" /\ wpc' = "loop" /\ active' = Pins
       \/ req = "exit" /\ wpc' = "none" /\ UNCHANGED active
    /\ req' = "answered"
    /\ UNCHANGED <<avars, wpin, scan, finished, spoilt, pins, uvars, out>>

Counted == Cardinality(active)

CheckRequest == req \in {"run", "exit"}

ScanFrom(pc, p) == wpc' = pc /\ wpin' = p
NoScan == wpin' = 1 /\ missing' = 0 /\ best' = 0 /\ rtMin' = MaxTime + 1

Loop ==
    /\ wpc = "loop"
    /\ \/ (CheckRequest \/ active = {}) /\ wpc' = "finish" /\ UNCHANGED <<wpin, scan>>
       \/ /\ ~CheckRequest /\ active # {} /\ state # "paused"
          /\ ScanFrom("scan", 1)
          /\ missing' = Counted /\ best' = 0 /\ rtMin' = MaxTime + 1
    /\ UNCHANGED <<avars, req, active, finished, spoilt, pins, uvars, out>>

\* A packet whose place in time is unknown goes out at once.
Untimed(packet) == packet.kind \in {"bogus", "eos"} \/ packet.rt = 0

Scan ==
    /\ wpc = "scan" /\ wpin \in Pins
    /\ IF wpin \notin active \/ queue[wpin] = <<>>
       THEN ScanFrom("scan", wpin + 1) /\ UNCHANGED scan
       ELSE LET head == Head(queue[wpin]) IN
            IF Untimed(head)
            THEN best' = wpin /\ missing' = 0 /\ wpc' = "pop" /\ UNCHANGED <<wpin, rtMin>>
            ELSE /\ ScanFrom("scan", wpin + 1) /\ missing' = missing - 1
                 /\ IF head.rt < rtMin THEN best' = wpin /\ rtMin' = head.rt
                                       ELSE UNCHANGED <<best, rtMin>>
    /\ UNCHANGED <<avars, req, active, finished, spoilt, pins, uvars, out>>

\* The packet to take is known only when every active pin has shown one.
ReadyWithOne == best # 0
Ready == best # 0 /\ missing = 0

Choose ==
    /\ wpc = "scan" /\ wpin \notin Pins
    /\ IF Ready THEN wpc' = "pop" /\ UNCHANGED <<wpin, scan>> ELSE wpc' = "signal" /\ NoScan
    /\ UNCHANGED <<avars, req, active, finished, spoilt, pins, uvars, out>>

NotSignalled(p) == UNCHANGED accept
SetAccept(p)    == accept' = [accept EXCEPT ![p] = TRUE]

\* Otherwise a pin whose queue is full must let its source go on, for the
\* source may be the one the empty pin waits for.
Signal ==
    /\ wpc = "signal"
    /\ IF wpin \notin Pins THEN ScanFrom("loop", 1) /\ UNCHANGED accept
       ELSE /\ ScanFrom("signal", wpin + 1)
            /\ IF wpin \in active THEN SetAccept(wpin) ELSE UNCHANGED accept
    /\ UNCHANGED <<avars, req, active, scan, finished, spoilt, queue, uvars, out>>

AllEnd(p) == {}
Rest(p) == active \ {p}

Mux(packet) ==
    /\ active' = IF packet.kind = "eos" THEN Rest(best) ELSE active
    /\ IF packet.run = run
       THEN /\ lastOut' = [lastOut EXCEPT ![best] = packet.n]
            /\ lastSync' = IF packet.kind = "sync" THEN packet.rt ELSE lastSync
       ELSE UNCHANGED out

\* A write that fails throws its way out of the loop.
Write ==
    \/ wpc' = "loop"
    \/ MayFail /\ queue[best] # <<>> /\ wpc' = "finish"

\* What a packet of the last run spoils.
Stale(packet) ==
    IF packet.run = run THEN {} ELSE {IF packet.kind = "eos" THEN "eos" ELSE "sample"}

\* PopPacket finds the queue empty when Inactive came in between.
Pop ==
    /\ wpc = "pop" /\ Write /\ NoScan
    /\ IF queue[best] = <<>> THEN UNCHANGED <<queue, active, spoilt, out>>
       ELSE /\ queue' = [queue EXCEPT ![best] = Tail(@)] /\ Mux(Head(queue[best]))
            /\ spoilt' = spoilt \cup Stale(Head(queue[best]))
                               \cup (IF wpc' = "finish" THEN {"write"} ELSE {})
    /\ accept' = [accept EXCEPT ![best] = @ \/ ~Full(Len(queue'[best]))]
    /\ UNCHANGED <<avars, req, finished, uvars>>

Finish ==
    /\ wpc = "finish" /\ wpc' = "request"
    /\ finished' = TRUE /\ active' = {}
    /\ UNCHANGED <<avars, req, wpin, scan, spoilt, pins, uvars, out>>

Worker == GetRequest \/ Loop \/ Scan \/ Choose \/ Signal \/ Pop \/ Finish

------------------------------------------------------------------------------
(* The application: it holds the filter's lock for a whole operation.      *)

Active == accept' = [p \in Pins |-> TRUE] /\ rtMaxStart' = [p \in Pins |-> 0]

\* The graph manager has stopped every source before it starts the graph anew.
Pause ==
    /\ apc = "idle" /\ state = "stopped" /\ run < MaxRuns
    /\ \A p \in Pins : upc[p] = "idle"
    /\ state' = "paused" /\ apc' = "start" /\ run' = run + 1
    /\ req' = "run" /\ wpc' = "request"
    /\ Active /\ sent' = [p \in Pins |-> 0] /\ lastOut' = [p \in Pins |-> 0]
    /\ lastSync' = 0 /\ finished' = FALSE /\ spoilt' = {}
    /\ UNCHANGED <<graph, apin, wpin, active, scan, queue, upc, hand>>

Switch ==
    /\ apc = "idle" /\ state # "stopped"
    /\ state' = IF state = "paused" THEN "running" ELSE "paused"
    /\ UNCHANGED <<graph, apc, apin, run, req, wvars, pins, uvars, out>>

Stop ==
    /\ apc = "idle" /\ state # "stopped" /\ apc' = "inactive" /\ apin' = 1
    /\ UNCHANGED <<graph, state, run, req, wvars, pins, uvars, out>>

Inactive ==
    /\ apc = "inactive"
    /\ IF apin \notin Pins THEN apc' = "setStopped" /\ UNCHANGED <<apin, queue>>
       ELSE apin' = apin + 1 /\ queue' = [queue EXCEPT ![apin] = <<>>] /\ UNCHANGED apc
    /\ UNCHANGED <<graph, state, run, req, wvars, accept, uvars, out>>

SetStopped ==
    /\ apc = "setStopped" /\ apc' = "exit" /\ state' = "stopped" /\ req' = "exit"
    /\ UNCHANGED <<graph, apin, run, wvars, pins, uvars, out>>

Returned ==
    /\ apc \in {"start", "exit"} /\ req = "answered"
    /\ apc' = "idle" /\ req' = "none"
    /\ UNCHANGED <<graph, state, apin, run, wvars, pins, uvars, out>>

App == Inactive \/ SetStopped \/ Returned

Source(p) == Receive(p) \/ EndOfStream(p) \/ PushWait(p) \/ PushAdd(p)

Next ==
    \/ Worker \/ App \/ Pause \/ Switch \/ Stop
    \/ \E p \in Pins : Source(p) \/ GiveUp(p)

Spec == Init /\ [][Next]_vars

\* Windows runs every ready thread; an operation once begun is carried on.  That
\* a source gives up is not assumed.
Fairness ==
    /\ WF_vars(Worker) /\ WF_vars(App)
    /\ \A p \in Pins : WF_vars(Source(p))

LiveSpec == Spec /\ Fairness

------------------------------------------------------------------------------
(* Properties *)

\* The file's sync points are in the order of their start times, whatever the
\* order in which the packets of the pins arrived (GetPacket, Receive's bogus),
\* until a Stop clears queues that GetPacket has looked at.  (A sample that
\* slipped into a queue while the last Stop was clearing them stands in for its
\* pin in GetPacket, and an earlier sync point may follow it.)
SyncInOrder ==
    [][run' = run /\ apc = "idle" /\ "sample" \notin spoilt => lastSync' >= lastSync]_vars

\* Of one run, no packet of a pin is lost, repeated or taken out of turn before
\* a Stop clears the queues (PushPacket waits, it does not drop).
Gapless ==
    [][\A p \in Pins : lastOut'[p] # lastOut[p] /\ run' = run /\ apc = "idle"
                         => lastOut'[p] = lastOut[p] + 1]_vars

\* Every pin is muxed to its end.
Whole == spoilt \subseteq {"sample"}

\* Unless the filter is being stopped or a write has failed, the end of stream
\* goes downstream only when every pin's last packet has been muxed.  (An end of
\* stream that slipped into a queue while Stop was clearing them ends its pin in
\* the next run at once.)
FinishedComplete ==
    finished /\ Whole /\ apc = "idle" /\ state # "stopped"
        => \A p \in Pins : lastOut[p] = Eos(p)

\* While the graph runs, the streams come to their end: full and empty queues
\* never leave the sources and the muxing thread waiting for one another.  (A
\* source that feeds a pin ended too early blocks.)
Finishes == [](state = "running" => <>(finished \/ state # "running" \/ ~Whole))

\* A source is not held in Receive for ever, not even by a writer that has failed
\* and left the loop with the pins full: PushPacket stops waiting some time.
ReceiveReturns ==
    (\A p \in Pins : WF_vars(GiveUp(p)))
        => \A p \in Pins : [](MayTimeOut /\ upc[p] = "wait" => <>(upc[p] # "wait"))
==============================================================================
