------------------------------ MODULE Splitter ------------------------------
(***************************************************************************)
(* CBaseSplitterFilter (src/src/filters/parser/basesplitter): one demuxing *)
(* thread fills a packet queue per output pin, one thread per pin delivers *)
(* its queue downstream, and the application thread, which holds the       *)
(* filter's lock for a whole operation, pauses, seeks and stops, flushing  *)
(* the pins around each request it makes to the demuxing thread.           *)
(*                                                                         *)
(* Every shared flag is written in a step of its own, in the order of the  *)
(* source.  A packet is <<round, n, pin>>: the n-th packet of its pin in   *)
(* the round of demuxing that follows the round-th DemuxSeek; the end of   *)
(* stream is packet number PacketsPerPin + 1.                              *)
(* A request to a thread is the handshake of module CamThread: pending     *)
(* while m_EventSend is set, answered when m_EventComplete is.             *)
(***************************************************************************)
EXTENDS Naturals, Sequences, FiniteSetsExt

CONSTANTS
    MinPackets,       \* MINPACKETS: a pin with fewer packets is drying
    MaxPackets,       \* MAXPACKETS: the queues together are not full below it
    HardCap,          \* MAXPACKETSIZE*100: a queue longer than this waits anyway
    Lead,             \* packets a renderer takes ahead of the other streams
    Graphs            \* the filter graphs that may be built around the filter

\* Of a graph: connected output pins; packets the file holds for each pin after
\* a seek; the pins of a discontinuous stream (text, subtitles); the packet
\* numbers that carry a new media type (pmt); whether a downstream filter may
\* fail a delivery; whether a CallWorker may give up after ten seconds; the
\* bound on the operations of the application.
GraphType == [pins : Nat \ {0}, packets : Nat \ {0}, texts : SUBSET Nat,
              formats : SUBSET Nat, fails : BOOLEAN, late : BOOLEAN, ops : Nat]

ASSUME SplitterAssumption ==
    {MinPackets, MaxPackets, HardCap, Lead} \subseteq Nat /\ HardCap > 0
    /\ Graphs \subseteq GraphType

VARIABLE graph        \* the one that is built

NumPins       == graph.pins
PacketsPerPin == graph.packets
FormatChanges == graph.formats
MayFail       == graph.fails
MayTimeOut    == graph.late
MaxOps        == graph.ops

Pins == 1 .. NumPins
AllPins == UNION {1 .. g.pins : g \in Graphs}
Eos  == PacketsPerPin + 1
None == <<>>

VARIABLES
    \* the application and the state it keeps in the filter
    apc,           \* where the application thread is; "idle": the lock is free
    aop,           \* its operation
    apin,          \* the pin its loop over m_pOutputs has reached
    ops,           \* operations started
    stopped,       \* m_State = State_Stopped
    rtNewStart,    \* m_rtNewStart, as the number of the seek
    \* the demuxing thread
    fpc, fThread,  \* where it is; CAMThread::m_hThread # NULL
    fReq, fDone,   \* its pending request; m_EventComplete
    fFlushing,     \* CBaseSplitterFilter::m_fFlushing
    fEndFlush,     \* CBaseSplitterFilter::m_eEndFlush, auto reset
    rtStart,       \* m_rtStart
    round,         \* calls of DemuxSeek so far
    active,        \* m_pActivePins
    fpin,          \* the pin a loop of the demuxing thread has reached
    nextPacket,    \* the file position of each pin
    \* the pins and their threads
    ppc, pThread,
    pReq, pDone,
    hrDeliver, pFlushing, pFlushed, pEndFlush, queue,
    hand, cnt, hr, \* locals of ThreadProcDelivery
    lateStart,     \* pins whose thread, when it started, overwrote the flags of a
                   \* flush or a result the demuxing thread may have acted upon
    \* the filter downstream of each pin
    dsFlushing,    \* it is between BeginFlush and EndFlush
    segment,       \* the last NewSegment it was told, 0 if none
    last,          \* the last packet it accepted
    stale          \* packets of an older seek it accepted since NewSegment

avars == <<apc, aop, apin, ops, stopped, rtNewStart>>
freq  == <<fReq, fDone>>
fvars == <<fpc, fThread, rtStart, round, active, fpin, nextPacket>>
preq  == <<pReq, pDone>>
pflags == <<hrDeliver, pFlushing, pFlushed, pEndFlush>>
plocal == <<hand, cnt, hr, lateStart>>
dvars == <<dsFlushing, segment, last, stale>>
vars  == <<graph, avars, freq, fvars, fFlushing, fEndFlush,
           ppc, pThread, preq, pflags, queue, plocal, dvars>>

Results == {"ok", "false", "error"}          \* S_OK, S_FALSE, a failure code
Packets == {None} \cup ((1 .. MaxOps) \X (1 .. Eos) \X Pins)

TypeOK ==
    /\ graph \in Graphs
    /\ apc \in {"idle", "filterFlushing", "resetEnd", "clearFlushed", "setFlushing",
                "setResult", "removeAll", "beginDown", "call", "wait", "endDown",
                "endResult", "endFlushing", "endFlushed", "endSet", "filterFlushed",
                "filterEndSet", "inactive", "inactiveWait"}
    /\ aop \in {"none", "seek", "stop"} /\ apin \in 1 .. NumPins + 1
    /\ ops \in 0 .. MaxOps /\ stopped \in BOOLEAN /\ rtNewStart \in 1 .. MaxOps + 1
    /\ fpc \in {"none", "start", "started", "initFailed", "seek", "reply", "waitFlush",
                "newSegment", "demux", "queue", "check", "add", "queued", "eos",
                "eosQueue", "eosCheck", "eosAdd", "getRequest", "exit"}
    /\ fThread \in BOOLEAN /\ fReq \in {"none", "seek", "exit"} /\ fDone \in BOOLEAN
    /\ fFlushing \in BOOLEAN /\ fEndFlush \in BOOLEAN
    /\ rtStart \in 1 .. MaxOps + 1 /\ round \in 0 .. MaxOps /\ active \in SUBSET Pins /\ fpin \in 1 .. NumPins + 1
    /\ nextPacket \in [Pins -> 1 .. Eos]
    /\ ppc \in [Pins -> {"none", "start", "startFlags", "startSet", "top", "take",
                         "check", "mark", "deliver", "waitFlush", "report", "store"}]
    /\ pThread \in [Pins -> BOOLEAN]
    /\ pReq \in [Pins -> BOOLEAN] /\ pDone \in [Pins -> BOOLEAN]
    /\ hrDeliver \in [Pins -> Results] /\ hr \in [Pins -> Results]
    /\ pFlushing \in [Pins -> BOOLEAN] /\ pFlushed \in [Pins -> BOOLEAN]
    /\ pEndFlush \in [Pins -> BOOLEAN]
    /\ queue \in [Pins -> Seq(Packets \ {None})]
    /\ lateStart \in SUBSET Pins /\ hand \in [Pins -> Packets] /\ cnt \in [Pins -> Nat]
    /\ dsFlushing \in [Pins -> BOOLEAN] /\ segment \in [Pins -> 0 .. MaxOps]
    /\ last \in [Pins -> Packets] /\ stale \in [Pins -> Nat]

Init ==
    /\ graph \in Graphs
    /\ apc = "idle" /\ aop = "none" /\ apin = 1 /\ ops = 0
    /\ stopped = TRUE /\ rtNewStart = 1
    /\ fpc = "none" /\ fThread = FALSE /\ fReq = "none" /\ fDone = FALSE
    /\ fFlushing = FALSE /\ fEndFlush = FALSE
    /\ rtStart = 1 /\ round = 0 /\ active = {} /\ fpin = 1 /\ nextPacket = [p \in Pins |-> 1]
    /\ ppc = [p \in Pins |-> "none"] /\ pThread = [p \in Pins |-> FALSE]
    /\ pReq = [p \in Pins |-> FALSE] /\ pDone = [p \in Pins |-> FALSE]
    /\ hrDeliver = [p \in Pins |-> "ok"] /\ hr = [p \in Pins |-> "ok"]
    /\ pFlushing = [p \in Pins |-> FALSE] /\ pFlushed = [p \in Pins |-> FALSE]
    /\ pEndFlush = [p \in Pins |-> FALSE] /\ queue = [p \in Pins |-> <<>>]
    /\ lateStart = {} /\ hand = [p \in Pins |-> None] /\ cnt = [p \in Pins |-> 0]
    /\ dsFlushing = [p \in Pins |-> FALSE] /\ segment = [p \in Pins |-> 0]
    /\ last = [p \in Pins |-> None] /\ stale = [p \in Pins |-> 0]

------------------------------------------------------------------------------
(* CPacketQueue and the events.  The variants forget to set an event.      *)
Add(p, packet) == queue' = [queue EXCEPT ![p] = Append(@, packet)]

RemoveAll(p) == queue' = [queue EXCEPT ![p] = <<>>]

PinEndFlushForgotten(p) == UNCHANGED pEndFlush
SetPinEndFlush(p) == pEndFlush' = [pEndFlush EXCEPT ![p] = TRUE]

EndFlushForgotten == UNCHANGED fEndFlush
SetEndFlush == fEndFlush' = TRUE

------------------------------------------------------------------------------
(* The application: Pause, SetPositionsInternal, Stop.                     *)

(* CBaseFilter::Pause activates the pins, each of which creates its        *)
(* thread; then the filter creates its own.  The threads do nothing to one *)
(* another before the demuxing thread runs, so the creations are one step. *)
Pause ==
    /\ apc = "idle" /\ ops < MaxOps /\ stopped
    /\ ops' = ops + 1
    /\ stopped' = FALSE
    /\ ppc' = [p \in Pins |-> IF pThread[p] THEN ppc[p] ELSE "start"]
    /\ pThread' = [p \in Pins |-> TRUE]
    /\ fThread' = TRUE
    /\ fpc' = IF fThread THEN fpc ELSE "start"
    /\ UNCHANGED <<graph, apc, aop, apin, rtNewStart, freq, rtStart, round, active, fpin,
                   nextPacket, fFlushing, fEndFlush, preq, pflags, queue, plocal, dvars>>

(* A seek to a new position; without a thread the position is only noted.  *)
Seek ==
    /\ apc = "idle" /\ ops < MaxOps
    /\ ops' = ops + 1
    /\ rtNewStart' = rtNewStart + 1
    /\ IF fThread
         THEN aop' = "seek" /\ apc' = "filterFlushing"
         ELSE UNCHANGED <<aop, apc>>
    /\ UNCHANGED <<graph, apin, stopped, freq, fvars, fFlushing, fEndFlush, ppc, pThread,
                   preq, pflags, queue, plocal, dvars>>

(* The filter graph stops a filter that is not stopped already.           *)
Stop ==
    /\ apc = "idle" /\ ops < MaxOps /\ ~stopped
    /\ ops' = ops + 1
    /\ aop' = "stop" /\ apc' = "filterFlushing"
    /\ UNCHANGED <<graph, apin, stopped, rtNewStart, freq, fvars, fFlushing, fEndFlush, ppc,
                   pThread, preq, pflags, queue, plocal, dvars>>

(* CBaseSplitterFilter::DeliverBeginFlush, and in its loop the steps of    *)
(* CBaseSplitterOutputPin::DeliverBeginFlush.                              *)
BeginFlushFilter ==
    /\ apc = "filterFlushing"
    /\ fFlushing' = TRUE
    /\ apc' = "resetEnd" /\ apin' = 1
    /\ UNCHANGED <<graph, aop, ops, stopped, rtNewStart, freq, fvars, fEndFlush, ppc, pThread,
                   preq, pflags, queue, plocal, dvars>>

BeginFlushPin(p) ==
    /\ apin = p
    /\ \/ /\ apc = "resetEnd" /\ apc' = "clearFlushed"
          /\ pEndFlush' = [pEndFlush EXCEPT ![p] = FALSE]
          /\ UNCHANGED <<apin, pFlushed, pFlushing, hrDeliver, queue, dsFlushing>>
       \/ /\ apc = "clearFlushed" /\ apc' = "setFlushing"
          /\ pFlushed' = [pFlushed EXCEPT ![p] = FALSE]
          /\ UNCHANGED <<apin, pEndFlush, pFlushing, hrDeliver, queue, dsFlushing>>
       \/ /\ apc = "setFlushing" /\ apc' = "setResult"
          /\ pFlushing' = [pFlushing EXCEPT ![p] = TRUE]
          /\ UNCHANGED <<apin, pEndFlush, pFlushed, hrDeliver, queue, dsFlushing>>
       \/ /\ apc = "setResult" /\ apc' = "removeAll"
          /\ hrDeliver' = [hrDeliver EXCEPT ![p] = "false"]
          /\ UNCHANGED <<apin, pEndFlush, pFlushed, pFlushing, queue, dsFlushing>>
       \/ /\ apc = "removeAll" /\ apc' = "beginDown"
          /\ RemoveAll(p)
          /\ UNCHANGED <<apin, pEndFlush, pFlushed, pFlushing, hrDeliver, dsFlushing>>
       \/ /\ apc = "beginDown"
          /\ \/ dsFlushing' = [dsFlushing EXCEPT ![p] = TRUE] /\ UNCHANGED pEndFlush
             \/ MayFail /\ SetPinEndFlush(p) /\ UNCHANGED dsFlushing
          /\ apin' = p + 1
          /\ apc' = IF p = NumPins THEN "call" ELSE "resetEnd"
          /\ UNCHANGED <<pFlushed, pFlushing, hrDeliver, queue>>
    /\ UNCHANGED <<graph, aop, ops, stopped, rtNewStart, freq, fvars, fFlushing, fEndFlush,
                   ppc, pThread, preq, plocal, segment, last, stale>>

(* CallWorker on the demuxing thread, under m_AccessLock.                  *)
CallWorker ==
    /\ apc = "call"
    /\ apin' = 1
    /\ IF fThread
         THEN /\ fReq' = IF aop = "seek" THEN "seek" ELSE "exit"
              /\ apc' = "wait"
         ELSE apc' = "endDown" /\ UNCHANGED fReq
    /\ UNCHANGED <<graph, aop, ops, stopped, rtNewStart, fDone, fvars, fFlushing, fEndFlush,
                   ppc, pThread, preq, pflags, queue, plocal, dvars>>

(* The wait for m_EventComplete, which may be given up; the variant does   *)
(* not wait at all.                                                        *)
NoWait == UNCHANGED fReq
EndWait ==
    \/ fDone /\ UNCHANGED fReq
    \/ MayTimeOut /\ ~fDone /\ fReq' = "none"

WorkerReplied ==
    /\ apc = "wait"
    /\ EndWait
    /\ fDone' = FALSE
    /\ apc' = "endDown"
    /\ UNCHANGED <<graph, aop, apin, ops, stopped, rtNewStart, fvars, fFlushing, fEndFlush,
                   ppc, pThread, preq, pflags, queue, plocal, dvars>>

(* CBaseSplitterFilter::DeliverEndFlush and, for each pin that has a       *)
(* thread, the steps of CBaseSplitterOutputPin::DeliverEndFlush.           *)
EndFlushPin(p) ==
    /\ apin = p
    /\ \/ /\ apc = "endDown" /\ ~pThread[p]
          /\ apin' = p + 1
          /\ apc' = IF p = NumPins THEN "filterFlushed" ELSE "endDown"
          /\ UNCHANGED <<pflags, dsFlushing>>
       \/ /\ apc = "endDown" /\ pThread[p] /\ apc' = "endResult"
          /\ dsFlushing' = [dsFlushing EXCEPT ![p] = FALSE]
          /\ UNCHANGED <<apin, pflags>>
       \/ /\ apc = "endResult" /\ apc' = "endFlushing"
          /\ hrDeliver' = [hrDeliver EXCEPT ![p] = "ok"]
          /\ UNCHANGED <<apin, pFlushing, pFlushed, pEndFlush, dsFlushing>>
       \/ /\ apc = "endFlushing" /\ apc' = "endFlushed"
          /\ pFlushing' = [pFlushing EXCEPT ![p] = FALSE]
          /\ UNCHANGED <<apin, hrDeliver, pFlushed, pEndFlush, dsFlushing>>
       \/ /\ apc = "endFlushed" /\ apc' = "endSet"
          /\ pFlushed' = [pFlushed EXCEPT ![p] = TRUE]
          /\ UNCHANGED <<apin, hrDeliver, pFlushing, pEndFlush, dsFlushing>>
       \/ /\ apc = "endSet"
          /\ SetPinEndFlush(p)
          /\ apin' = p + 1
          /\ apc' = IF p = NumPins THEN "filterFlushed" ELSE "endDown"
          /\ UNCHANGED <<hrDeliver, pFlushing, pFlushed, dsFlushing>>
    /\ UNCHANGED <<graph, aop, ops, stopped, rtNewStart, freq, fvars, fFlushing, fEndFlush,
                   ppc, pThread, preq, queue, plocal, segment, last, stale>>

EndFlushFilter ==
    /\ \/ /\ apc = "filterFlushed" /\ apc' = "filterEndSet"
          /\ fFlushing' = FALSE
          /\ UNCHANGED <<aop, apin, fEndFlush>>
       \/ /\ apc = "filterEndSet"
          /\ SetEndFlush
          /\ apin' = 1
          /\ IF aop = "stop"
               THEN apc' = "inactive" /\ UNCHANGED aop
               ELSE apc' = "idle" /\ aop' = "none"
          /\ UNCHANGED fFlushing
    /\ UNCHANGED <<graph, ops, stopped, rtNewStart, freq, fvars, ppc, pThread, preq, pflags,
                   queue, plocal, dvars>>

(* The same wait for the thread of a pin.  The variant never gives up.     *)
EndlessPinWait(p) == pDone[p] /\ pDone' = [pDone EXCEPT ![p] = FALSE] /\ UNCHANGED pReq
EndPinWait(p) ==
    \/ pDone[p] /\ pDone' = [pDone EXCEPT ![p] = FALSE] /\ UNCHANGED pReq
    \/ MayTimeOut /\ ~pDone[p] /\ pReq' = [pReq EXCEPT ![p] = FALSE] /\ UNCHANGED pDone

(* CBaseFilter::Stop makes the pins inactive one after the other: each     *)
(* asks its thread to exit.                                                *)
InactivePin(p) ==
    /\ apin = p
    /\ \/ /\ apc = "inactive" /\ pThread[p]
          /\ pReq' = [pReq EXCEPT ![p] = TRUE]
          /\ apc' = "inactiveWait"
          /\ UNCHANGED <<aop, apin, stopped, pDone>>
       \/ /\ \/ apc = "inactive" /\ ~pThread[p] /\ UNCHANGED preq
             \/ apc = "inactiveWait" /\ EndPinWait(p)
          /\ IF p = NumPins
               THEN apc' = "idle" /\ aop' = "none" /\ apin' = 1 /\ stopped' = TRUE
               ELSE apc' = "inactive" /\ apin' = p + 1 /\ UNCHANGED <<aop, stopped>>
    /\ UNCHANGED <<graph, ops, rtNewStart, freq, fvars, fFlushing, fEndFlush, ppc, pThread,
                   pflags, queue, plocal, dvars>>

AppStep ==
    \/ BeginFlushFilter \/ CallWorker \/ WorkerReplied \/ EndFlushFilter
    \/ \E p \in Pins : BeginFlushPin(p) \/ EndFlushPin(p) \/ InactivePin(p)

App == Pause \/ Seek \/ Stop \/ AppStep

------------------------------------------------------------------------------
(* The demuxing thread: CBaseSplitterFilter::ThreadProc, with the          *)
(* DemuxLoop of a derived filter, which reads on while the result is no    *)
(* failure and no request is pending.                                      *)

FilterUnchanged == UNCHANGED <<graph, avars, ppc, pThread, preq, plocal>>

Start ==
    /\ fpc = "start"
    /\ \/ fEndFlush' = TRUE /\ fpc' = "started"
       \/ fpc' = "initFailed" /\ UNCHANGED fEndFlush       \* DemuxInit returned false
    /\ UNCHANGED <<fThread, rtStart, round, active, fpin, nextPacket, freq, fFlushing, pflags,
                   queue, dvars>>
    /\ FilterUnchanged

Started ==
    /\ fpc = "started"
    /\ fFlushing' = FALSE
    /\ fpc' = "seek"
    /\ UNCHANGED <<fThread, rtStart, round, active, fpin, nextPacket, freq, fEndFlush, pflags,
                   queue, dvars>>
    /\ FilterUnchanged

Reply == fReq' = "none" /\ fDone' = TRUE

InitFailed ==
    /\ fpc = "initFailed" /\ fReq # "none"
    /\ IF fReq = "exit"
         THEN fThread' = FALSE /\ fpc' = "none"
         ELSE UNCHANGED <<fThread, fpc>>
    /\ Reply
    /\ UNCHANGED <<rtStart, round, active, fpin, nextPacket, fFlushing, fEndFlush, pflags,
                   queue, dvars>>
    /\ FilterUnchanged

(* m_rtStart = m_rtNewStart; DemuxSeek; the seek that starts a thread has  *)
(* no client to reply to.                                                  *)
DemuxSeek ==
    /\ fpc \in {"seek", "reply"}
    /\ rtStart' = rtNewStart
    /\ round' = round + 1
    /\ nextPacket' = [p \in Pins |-> 1]
    /\ IF fpc = "reply" THEN Reply ELSE UNCHANGED freq
    /\ fpc' = "waitFlush"
    /\ UNCHANGED <<fThread, active, fpin, fFlushing, fEndFlush, pflags, queue, dvars>>
    /\ FilterUnchanged

FlushNotAwaited == TRUE                  \* variant
EndFlushSignalled == fEndFlush

WaitEndFlush ==
    /\ fpc = "waitFlush" /\ EndFlushSignalled
    /\ fEndFlush' = FALSE
    /\ active' = {}
    /\ fpin' = 1
    /\ fpc' = "newSegment"
    /\ UNCHANGED <<fThread, rtStart, round, nextPacket, freq, fFlushing, pflags, queue, dvars>>
    /\ FilterUnchanged

(* One turn of the loop that fills m_pActivePins and tells each pin's      *)
(* downstream filter about the segment; a flushing pin is not told.        *)
NewSegment ==
    /\ fpc = "newSegment"
    /\ IF fpin \in Pins /\ ~fFlushing
         THEN /\ active' = active \cup {fpin}
              /\ fpin' = fpin + 1
              /\ IF ~pFlushing[fpin] /\ pThread[fpin]
                   THEN /\ segment' = [segment EXCEPT ![fpin] = round]
                        /\ stale' = [stale EXCEPT ![fpin] = 0]
                   ELSE UNCHANGED <<segment, stale>>
              /\ UNCHANGED fpc
         ELSE fpc' = "demux" /\ fpin' = 1 /\ UNCHANGED <<active, segment, stale>>
    /\ UNCHANGED <<fThread, rtStart, round, nextPacket, freq, fFlushing, fEndFlush, pflags,
                   queue, dsFlushing, last>>
    /\ FilterUnchanged

PacketsLeft(p) == nextPacket[p] < Eos

(* DemuxLoop: the next packet in the file is of any pin that has one left. *)
(* CBaseSplitterFilter::DeliverPacket drops it when its pin is not active, *)
(* QueuePacket when the pin has no thread.                                 *)
DemuxLoop ==
    /\ fpc = "demux"
    /\ \/ /\ fReq # "none" \/ \A p \in Pins : ~PacketsLeft(p)
          /\ fpc' = "eos" /\ fpin' = 1
          /\ UNCHANGED <<nextPacket, active>>
       \/ /\ fReq = "none"
          /\ \E p \in Pins :
               /\ PacketsLeft(p)
               /\ IF p \in active /\ pThread[p]
                    THEN fpc' = "queue" /\ fpin' = p /\ UNCHANGED <<nextPacket, active>>
                    ELSE /\ nextPacket' = [nextPacket EXCEPT ![p] = @ + 1]
                         /\ active' = active \ {p}
                         /\ UNCHANGED <<fpc, fpin>>
    /\ UNCHANGED <<fThread, rtStart, round, freq, fFlushing, fEndFlush, pflags, queue,
                   dvars>>
    /\ FilterUnchanged

TotalCount(S) == MapThenSumSet(LAMBDA p : Len(queue[p]), S)

(* A pin of a text or subtitle stream may be empty for minutes, so it is   *)
(* never drying, but its packets count in the total.                       *)
IsDiscontinuous(p) == p \in graph.texts

NoPinDrying == TotalCount(active) < MaxPackets     \* variant: only the total counts
IsAnyPinDrying ==
    \/ \E p \in active : ~IsDiscontinuous(p) /\ Len(queue[p]) < MinPackets
    \/ TotalCount(active) < MaxPackets

(* QueuePacket(pin fpin), of a packet or of the end of stream: wait for    *)
(* room unless m_hrDeliver is not S_OK, read it again, add.                *)
CanQueueUncapped == IsAnyPinDrying                 \* variant: no MAXPACKETSIZE limit
CanQueue == IsAnyPinDrying /\ Len(queue[fpin]) <= HardCap

Queued == IF fpc \in {"queue", "check", "add"} THEN nextPacket[fpin] ELSE Eos

QueuePacket ==
    /\ \/ /\ fpc \in {"queue", "eosQueue"}
          /\ hrDeliver[fpin] # "ok" \/ CanQueue
          /\ fpc' = IF fpc = "queue" THEN "check" ELSE "eosCheck"
          /\ UNCHANGED <<queue, fpin>>
       \/ /\ fpc \in {"check", "eosCheck"} /\ hrDeliver[fpin] = "ok"
          /\ fpc' = IF fpc = "check" THEN "add" ELSE "eosAdd"
          /\ UNCHANGED <<queue, fpin>>
       \/ /\ \/ fpc \in {"check", "eosCheck"} /\ hrDeliver[fpin] # "ok" /\ UNCHANGED queue
             \/ fpc \in {"add", "eosAdd"} /\ Add(fpin, <<round, Queued, fpin>>)
          /\ IF fpc \in {"check", "add"}
               THEN fpc' = "queued" /\ UNCHANGED fpin
               ELSE fpc' = "eos" /\ fpin' = fpin + 1
    /\ UNCHANGED <<fThread, rtStart, round, active, nextPacket, freq, fFlushing, fEndFlush,
                   pflags, dvars>>
    /\ FilterUnchanged

OtherPins == active \ {fpin}

LoopFailsEarly(pins) == hrDeliver[fpin] = "error"   \* variant: other pins are given up too
LoopFails(pins) == pins = {} /\ hrDeliver[fpin] = "error"

(* The rest of DeliverPacket: a pin whose queue did not take the packet is *)
(* no longer active, and the loop fails when it was the last one.          *)
DeliverPacket ==
    /\ fpc = "queued"
    /\ nextPacket' = [nextPacket EXCEPT ![fpin] = @ + 1]
    /\ active' = IF hrDeliver[fpin] = "ok" THEN active ELSE OtherPins
    /\ IF LoopFails(active')
         THEN fpc' = "eos" /\ fpin' = 1
         ELSE fpc' = "demux" /\ UNCHANGED fpin
    /\ UNCHANGED <<fThread, rtStart, round, freq, fFlushing, fEndFlush, pflags, queue, dvars>>
    /\ FilterUnchanged

(* QueueEndOfStream on each active pin while no request is pending.        *)
QueueEndOfStream ==
    /\ fpc = "eos"
    /\ IF fpin \notin Pins \/ fReq # "none"
         THEN fpc' = "getRequest" /\ UNCHANGED fpin
         ELSE IF fpin \in active /\ pThread[fpin]
           THEN fpc' = "eosQueue" /\ UNCHANGED fpin
           ELSE fpin' = fpin + 1 /\ UNCHANGED fpc
    /\ UNCHANGED <<fThread, rtStart, round, active, nextPacket, freq, fFlushing, fEndFlush,
                   pflags, queue, dvars>>
    /\ FilterUnchanged

GetRequest ==
    /\ fpc = "getRequest" /\ fReq # "none"
    /\ fpc' = IF fReq = "seek" THEN "reply" ELSE "exit"
    /\ UNCHANGED <<fThread, rtStart, round, active, fpin, nextPacket, freq, fFlushing, fEndFlush,
                   pflags, queue, dvars>>
    /\ FilterUnchanged

Exit ==
    /\ fpc = "exit"
    /\ fThread' = FALSE
    /\ Reply
    /\ fpc' = "none"
    /\ UNCHANGED <<rtStart, round, active, fpin, nextPacket, fFlushing, fEndFlush, pflags,
                   queue, dvars>>
    /\ FilterUnchanged

Filter ==
    \/ Start \/ Started \/ InitFailed \/ DemuxSeek \/ WaitEndFlush \/ NewSegment
    \/ DemuxLoop \/ QueuePacket \/ DeliverPacket \/ QueueEndOfStream
    \/ GetRequest \/ Exit

------------------------------------------------------------------------------
(* The thread of an output pin: CBaseSplitterOutputPin::ThreadProc.        *)

PinUnchanged == UNCHANGED <<graph, avars, freq, fvars, fFlushing, fEndFlush>>

To(p, label) == ppc' = [ppc EXCEPT ![p] = label]

PinStart(p) ==
    /\ \/ /\ ppc[p] = "start"
          /\ hrDeliver' = [hrDeliver EXCEPT ![p] = "ok"]
          /\ To(p, "startFlags")
          /\ UNCHANGED <<pFlushing, pFlushed, pEndFlush>>
       \/ /\ ppc[p] = "startFlags"
          /\ pFlushed' = [pFlushed EXCEPT ![p] = FALSE]
          /\ pFlushing' = [pFlushing EXCEPT ![p] = FALSE]
          /\ To(p, "startSet")
          /\ UNCHANGED <<hrDeliver, pEndFlush>>
       \/ /\ ppc[p] = "startSet"
          /\ pEndFlush' = [pEndFlush EXCEPT ![p] = TRUE]
          /\ To(p, "top")
          /\ UNCHANGED <<hrDeliver, pFlushing, pFlushed>>
    /\ lateStart' = IF apc = "idle" /\ hrDeliver[p] = "ok" THEN lateStart
                    ELSE lateStart \cup {p}
    /\ UNCHANGED <<pThread, preq, queue, hand, cnt, hr, dvars>>
    /\ PinUnchanged

PinTop(p) ==
    /\ ppc[p] = "top"
    /\ IF pReq[p]
         THEN /\ pThread' = [pThread EXCEPT ![p] = FALSE]
              /\ pReq' = [pReq EXCEPT ![p] = FALSE]
              /\ pDone' = [pDone EXCEPT ![p] = TRUE]
              /\ To(p, "none")
         ELSE To(p, "take") /\ UNCHANGED <<pThread, preq>>
    /\ UNCHANGED <<pflags, queue, plocal, dvars>>
    /\ PinUnchanged

PinTake(p) ==
    /\ ppc[p] = "take"
    /\ cnt' = [cnt EXCEPT ![p] = Len(queue[p])]
    /\ IF queue[p] = <<>>
         THEN To(p, "top") /\ UNCHANGED <<queue, hand>>
         ELSE /\ hand' = [hand EXCEPT ![p] = Head(queue[p])]
              /\ queue' = [queue EXCEPT ![p] = Tail(@)]
              /\ To(p, "check")
    /\ UNCHANGED <<pThread, preq, pflags, hr, lateStart, dvars>>
    /\ PinUnchanged

(* while(--cnt > 0) *)
AgainOrTop(p) ==
    /\ cnt' = [cnt EXCEPT ![p] = @ - 1]
    /\ To(p, IF cnt[p] > 1 THEN "take" ELSE "top")
    /\ hand' = [hand EXCEPT ![p] = None]

PinCheck(p) ==
    /\ ppc[p] = "check"
    /\ IF hrDeliver[p] = "ok"
         THEN To(p, "mark") /\ UNCHANGED <<hand, cnt>>
         ELSE AgainOrTop(p)
    /\ UNCHANGED <<pThread, preq, pflags, queue, hr, lateStart, dvars>>
    /\ PinUnchanged

PinMark(p) ==
    /\ ppc[p] = "mark"
    /\ pFlushed' = [pFlushed EXCEPT ![p] = FALSE]
    /\ To(p, "deliver")
    /\ UNCHANGED <<pThread, preq, hrDeliver, pFlushing, pEndFlush, queue, plocal, dvars>>
    /\ PinUnchanged

(* The renderers share a clock: one that is Lead packets ahead of another  *)
(* in the same round blocks the delivery until the other catches up.  One  *)
(* that has failed holds nobody back, and a subtitle pin stores what it    *)
(* receives: it neither waits for the others nor do they wait for it.      *)
RendererReady(p) ==
    \A q \in Pins \ {p} :
        \/ hrDeliver[q] = "error" \/ IsDiscontinuous(p) \/ IsDiscontinuous(q)
        \/ hand[p][2] <= Lead + (IF last[q] # None /\ last[q][1] = hand[p][1] THEN last[q][2] ELSE 0)

(* DeliverPacket or DeliverEndOfStream: a flushing downstream filter       *)
(* answers S_FALSE, another takes the packet or fails.  A packet with a    *)
(* new media type needs the filter's lock, which the application holds for *)
(* the whole of an operation.                                              *)
DeliveryEnds(p) ==
    /\ ppc[p] = "deliver" /\ To(p, "waitFlush")
    /\ hand[p][2] \in FormatChanges => apc = "idle"
    /\ UNCHANGED <<pThread, preq, pflags, queue, hand, cnt, lateStart, dsFlushing, segment>>
    /\ PinUnchanged

PinDeliver(p) ==
    /\ DeliveryEnds(p)
    /\ \/ /\ dsFlushing[p]
          /\ hr' = [hr EXCEPT ![p] = "false"]
          /\ UNCHANGED <<last, stale>>
       \/ /\ ~dsFlushing[p] /\ RendererReady(p)
          /\ hr' = [hr EXCEPT ![p] = "ok"]
          /\ last' = [last EXCEPT ![p] = hand[p]]
          /\ stale' = IF hand[p][1] < segment[p] THEN [stale EXCEPT ![p] = @ + 1]
                      ELSE stale

PinFail(p) ==
    /\ MayFail /\ DeliveryEnds(p) /\ ~dsFlushing[p]
    /\ hr' = [hr EXCEPT ![p] = "error"]
    /\ UNCHANGED <<last, stale>>

PinWaitEndFlush(p) ==
    /\ ppc[p] = "waitFlush" /\ pEndFlush[p]
    /\ To(p, "report")
    /\ UNCHANGED <<pThread, preq, pflags, queue, plocal, dvars>>
    /\ PinUnchanged

PinReport(p) ==
    /\ \/ /\ ppc[p] = "report"
          /\ IF hr[p] # "ok" /\ ~pFlushed[p]
               THEN To(p, "store") /\ UNCHANGED <<hand, cnt>>
               ELSE AgainOrTop(p)
          /\ UNCHANGED hrDeliver
       \/ /\ ppc[p] = "store"
          /\ hrDeliver' = [hrDeliver EXCEPT ![p] = hr[p]]
          /\ cnt' = [cnt EXCEPT ![p] = 0]
          /\ hand' = [hand EXCEPT ![p] = None]
          /\ To(p, "top")
    /\ UNCHANGED <<pThread, preq, pFlushing, pFlushed, pEndFlush, queue, hr, lateStart, dvars>>
    /\ PinUnchanged

Pin(p) ==
    \/ PinStart(p) \/ PinTop(p) \/ PinTake(p) \/ PinCheck(p) \/ PinMark(p)
    \/ PinDeliver(p) \/ PinWaitEndFlush(p) \/ PinReport(p)

Next == App \/ Filter \/ \E p \in Pins : Pin(p) \/ PinFail(p)

Spec == Init /\ [][Next]_vars

(* Every thread runs; that a renderer fails is not assumed.                *)
Fairness ==
    /\ WF_vars(AppStep)
    /\ WF_vars(Filter)
    /\ \A p \in AllPins : WF_vars(p \in Pins /\ Pin(p))

FairSpec == Spec /\ Fairness
------------------------------------------------------------------------------
(* Outside an operation no packet of the round being demuxed is lost       *)
(* between two that are delivered, the end-of-stream mark included, if the *)
(* pin's thread was running before the application flushed and no seek may *)
(* have been given up.                                                     *)
Gapless ==
    [][\A p \in Pins \ lateStart :
         /\ last'[p] # last[p] /\ last'[p][1] = round /\ last'[p][2] > 1
         /\ apc = "idle" /\ ~MayTimeOut
         /\ fpc \notin {"none", "start", "started", "initFailed", "seek"}
         => last[p] = <<round, last'[p][2] - 1, p>>]_vars

(* A flush lets at most two packets of an older round through after the    *)
(* new segment was announced: the one the pin's thread had taken out of    *)
(* the queue and the one the demuxing thread was about to add.  (After a   *)
(* CallWorker that was given up the late answer ends the next one at once, *)
(* and its seek comes when the flush is over.)                             *)
StaleBound == ~MayTimeOut => \A p \in Pins \ lateStart : stale[p] <= 2

(* A queue never grows past the cap by more than the packet that was being *)
(* added: the flush that ends the wait in QueuePacket without room has     *)
(* been through before m_hrDeliver can be S_OK for the second read.  A     *)
(* pin's thread that starts late stores S_OK between the two reads, and    *)
(* one packet more gets in; more only if a Stop was given up and the       *)
(* demuxing thread lives on from one run to the next.                      *)
QueueBound ==
    \A p \in Pins :
        \/ Len(queue[p]) <= HardCap + 1
        \/ p \in lateStart /\ (MayTimeOut \/ Len(queue[p]) <= HardCap + 2)

(* Both hold in whatever order the flags of a flush are written and read.  *)
Bounds == StaleBound /\ QueueBound

(* When an operation has returned, the demuxing thread reads from the      *)
(* position that was asked for last, unless CallWorker may have given up.  *)
SeekTakesEffect ==
    apc = "idle" /\ ~MayTimeOut /\ fpc \in {"demux", "queue", "check", "add", "queued", "eos", "eosQueue",
                             "eosCheck", "eosAdd"}
       => rtStart = rtNewStart

(* Pause, a seek and Stop return: the application, the demuxing thread and *)
(* the pins' threads never all wait for one another.                       *)
OpReturns == apc # "idle" ~> apc = "idle"

(* If the application leaves the filter alone from some time on, every pin *)
(* delivers the stream to its end, whatever becomes of the others, unless  *)
(* it has reported an error or its thread started during a flush.  (A seek *)
(* that was given up may leave every pin inactive until the next one.)     *)
Done(p) ==
    \/ hrDeliver[p] # "ok" \/ p \in lateStart
    \/ round > 0 /\ last[p] = <<round, Eos, p>>

EventuallyEos ==
    <>[](apc = "idle" /\ ~stopped /\ fpc # "initFailed" /\ ~MayTimeOut)
      => <>[](\A p \in Pins : Done(p))
==============================================================================
