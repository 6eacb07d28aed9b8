--------------------------- MODULE StreamSwitcher ---------------------------
(***************************************************************************)
(* CStreamSwitcherFilter (src/src/filters/switcher/audioswitcher): one     *)
(* input pin per audio stream, one output pin, and a pointer m_pInput to   *)
(* the pin that is let through.  The module composes it with what drives   *)
(* it: the splitters it is connected to (a demuxing thread each, a thread  *)
(* per pin, and the filter of SetPositionsInternal that drops the seeks    *)
(* the graph repeats for every renderer) and the renderer behind it.       *)
(*                                                                         *)
(* The application thread starts and stops the graph, seeks, and selects a *)
(* stream.  No lock covers m_pInput: the pins' threads test it in Receive, *)
(* the demuxing threads through CBaseSplitterOutputPin::IsActive.  The     *)
(* graph is paused only for the time of an operation.  How a splitter      *)
(* delivers one pin is module Splitter: here its queue is a cursor, packet *)
(* number PacketsPerPin + 1 the end of stream, behind the one packet that  *)
(* may be left of an older round; and its flush flags are three.           *)
(***************************************************************************)
EXTENDS Naturals, FiniteSets

CONSTANTS
    NumInputs,        \* connected input pins
    NumSplitters,     \* splitters upstream; the first one also has the video
    Layouts,          \* [of, block, ops, kinds, at]: the splitter of each pin; the pins
                      \* with m_fCanBlock; bound on the operations of the application,
                      \* those it is limited to after Start, and the positions it seeks
                      \* to or is at when it selects
    LastPosition,     \* the file is sought and read at positions 0 .. LastPosition
    PacketsPerPin     \* packets each stream has left wherever it is sought

Inputs    == 1 .. NumInputs
Splitters == 1 .. NumSplitters
Positions == 0 .. LastPosition
Nowhere   == LastPosition + 1      \* _I64_MIN in m_rtLastStart
Eos       == PacketsPerPin + 1
NoInput   == 0                     \* m_pInput = NULL; as a seeker, the video pin

ASSUME SwitcherAssumption ==
    /\ {NumInputs, NumSplitters, LastPosition, PacketsPerPin} \subseteq Nat
    /\ NumInputs > 0 /\ NumSplitters > 0
    /\ Layouts \subseteq [of : [Inputs -> Splitters], block : SUBSET Inputs, ops : Nat,
                       kinds : SUBSET {"seek", "select", "stop"}, at : SUBSET Positions]

VARIABLES
    layout,
    \* the application
    apc,           \* where it is; "idle" between two operations
    aop,           \* its operation
    ops,           \* operations started
    target,        \* the input being selected
    position,      \* what its SetPositions asks for
    resume,        \* the graph was running and is to be run again
    ak,            \* the seeker, input or splitter its loop has reached
    apin,          \* the pin its loop over m_pOutputs has reached
    \* the switcher
    mInput,        \* m_pInput
    started,       \* m_State # State_Stopped
    evBlock,       \* m_evBlock of each input pin is set
    bFlushing,     \* m_bFlushing of each input pin
    outType,       \* the input whose format the output has
    \* the renderer
    sink,          \* "stopped", "paused" or "running"
    sinkFlushing,
    from,          \* inputs it has a sample of since it was last flushed
    strays,        \* how many of them had no business there
    garbled,       \* one was made with another stream's format
    ended,         \* inputs whose end of stream it was told
    \* each splitter: SetPositionsInternal and the demuxing thread
    rtCurrent, rtLastStart, lastSeekers,
    fpc, fReq, fDone, fFlushing, fEndFlush, active, fpin,
    \* each splitter pin and its thread
    ppc, pReq, pDone, hrDeliver, pFlushed, pEndFlush,
    cursor,        \* the next packet of its queue
    behind,        \* the packet of an older round that is ahead of it, 0 if none
    fresh,         \* whether its thread holds a packet of the current round
    hr,
    \* history
    real,          \* seeks each splitter took over in this operation
    early,         \* splitters that found they were there already
    silent,        \* splitters whose last positioning sought nothing
    lost           \* "gaveUp": a CallWorker timed out; "late": a stray changed the format

app    == <<apc, aop, ops, target, position, resume, ak, apin>>
switch == <<mInput, started, evBlock, bFlushing, outType>>
render == <<sink, sinkFlushing, from, strays, garbled, ended>>
seekf  == <<rtCurrent, rtLastStart, lastSeekers>>
demux  == <<fpc, fReq, fDone, fFlushing, fEndFlush, active, fpin>>
preq   == <<ppc, pReq, pDone>>
pflags == <<hrDeliver, pFlushed, pEndFlush>>
plocal == <<cursor, behind, fresh, hr>>
ghost  == <<real, early, silent, lost>>
vars   == <<layout, app, switch, render, seekf, demux, preq, pflags, plocal, ghost>>

of(p) == layout.of[p]
PinsOf(s) == {p \in Inputs : of(p) = s}
IsActive(p) == mInput = p

Init ==
    /\ layout \in Layouts
    /\ apc = "idle" /\ aop = "none" /\ ops = 0 /\ target = 1 /\ position = 0
    /\ resume = FALSE /\ ak = 1 /\ apin = 1
    /\ mInput = 1 /\ started = FALSE /\ outType = 1
    /\ evBlock = [p \in Inputs |-> FALSE] /\ bFlushing = [p \in Inputs |-> FALSE]
    /\ sink = "stopped" /\ sinkFlushing = FALSE
    /\ from = {} /\ strays = [p \in Inputs |-> 0] /\ garbled = FALSE /\ ended = {}
    /\ rtCurrent = [s \in Splitters |-> 0] /\ rtLastStart = [s \in Splitters |-> Nowhere]
    /\ lastSeekers = [s \in Splitters |-> {}]
    /\ fpc = [s \in Splitters |-> "none"] /\ fReq = [s \in Splitters |-> "none"]
    /\ fDone = [s \in Splitters |-> FALSE] /\ fFlushing = [s \in Splitters |-> FALSE]
    /\ fEndFlush = [s \in Splitters |-> FALSE]
    /\ active = [s \in Splitters |-> {}] /\ fpin = [s \in Splitters |-> 1]
    /\ ppc = [p \in Inputs |-> "none"] /\ pReq = [p \in Inputs |-> FALSE]
    /\ pDone = [p \in Inputs |-> FALSE] /\ hrDeliver = [p \in Inputs |-> TRUE]
    /\ pFlushed = [p \in Inputs |-> FALSE] /\ pEndFlush = [p \in Inputs |-> FALSE]
    /\ cursor = [p \in Inputs |-> Eos + 1] /\ behind = [p \in Inputs |-> 0]
    /\ fresh = [p \in Inputs |-> FALSE] /\ hr = [p \in Inputs |-> TRUE]
    /\ real = [s \in Splitters |-> 0] /\ early = {} /\ silent = {} /\ lost = {}

------------------------------------------------------------------------------
(* The renderer, which is flushed by whoever holds the output pin.         *)
SinkForgets ==
    /\ from' = {} /\ strays' = [p \in Inputs |-> 0]
    /\ garbled' = FALSE /\ ended' = {}

DeliverBeginFlush == sinkFlushing' = TRUE /\ SinkForgets /\ UNCHANGED sink
DeliverEndFlush   == sinkFlushing' = FALSE /\ UNCHANGED <<sink, from, strays, garbled, ended>>

Block(p, fBlock) == evBlock' = [evBlock EXCEPT ![p] = ~fBlock]

------------------------------------------------------------------------------
(* The application.  Start is the graph's Pause from the stopped state:    *)
(* renderer, switcher, splitters.                                          *)
GatesAsSelected == evBlock' = [p \in Inputs |-> IsActive(p)]

Begin(op) ==
    /\ apc = "idle" /\ ops < layout.ops /\ op \in layout.kinds \cup {"start"} /\ "gaveUp" \notin lost
    /\ ops' = ops + 1 /\ aop' = op

Idle ==                            \* back from an operation, its locals forgotten
    /\ apc' = "idle" /\ aop' = "none" /\ target' = 1 /\ position' = 0 /\ resume' = FALSE
    /\ ak' = 1 /\ apin' = 1 /\ UNCHANGED ops

Start ==
    /\ Begin("start") /\ ~started
    /\ sink' = "paused" /\ started' = TRUE /\ GatesAsSelected
    /\ apc' = "startSplitter" /\ ak' = 1 /\ resume' = TRUE
    /\ UNCHANGED <<layout, target, position, apin, mInput, bFlushing, outType,
                   sinkFlushing, from, strays, garbled, ended, seekf, demux, preq, pflags, plocal,
                   ghost>>

FirstPin(s) == CHOOSE p \in PinsOf(s) : \A q \in PinsOf(s) : p <= q

(* CBaseSplitterFilter::Pause creates the pins' threads, then its own,     *)
(* which does its first DemuxSeek.                                         *)
StartSplitter ==
    /\ apc = "startSplitter"
    /\ IF PinsOf(ak) = {} THEN UNCHANGED <<fpc, fpin>>
       ELSE /\ fpc' = [fpc EXCEPT ![ak] = "segments"]
            /\ fpin' = [fpin EXCEPT ![ak] = FirstPin(ak)]
    /\ fFlushing' = [fFlushing EXCEPT ![ak] = FALSE]
    /\ fEndFlush' = [fEndFlush EXCEPT ![ak] = FALSE]
    /\ ppc' = [p \in Inputs |-> IF of(p) = ak THEN "top" ELSE ppc[p]]
    /\ hrDeliver' = [p \in Inputs |-> of(p) = ak \/ hrDeliver[p]]
    /\ pEndFlush' = [p \in Inputs |-> of(p) = ak \/ pEndFlush[p]]
    /\ cursor' = [p \in Inputs |-> IF of(p) = ak THEN 1 ELSE cursor[p]]
    /\ silent' = silent \ {ak}
    /\ IF ak = NumSplitters THEN apc' = "run" /\ UNCHANGED ak
       ELSE apc' = apc /\ ak' = ak + 1
    /\ UNCHANGED <<layout, aop, ops, target, position, resume, apin, switch, render, seekf,
                   fReq, fDone, active, pFlushed, pReq, pDone, behind, fresh, hr, real, early, lost>>

Run ==
    /\ apc = "run" /\ Idle
    /\ sink' = IF resume THEN "running" ELSE sink
    /\ UNCHANGED <<layout, switch, sinkFlushing, from, strays, garbled, ended, seekf, demux, preq,
                   pflags, plocal, ghost>>

(* PauseGraph: a running graph is paused for the time of the operation.    *)
PauseGraph ==
    /\ resume' = (sink = "running")
    /\ sink' = IF sink = "running" THEN "paused" ELSE sink
    /\ \E rtNow \in layout.at : position' = rtNow
    /\ UNCHANGED <<sinkFlushing, from, strays, garbled, ended>>

Seek ==
    /\ Begin("seek") /\ started /\ PauseGraph
    /\ apc' = "seeker" /\ ak' = NoInput
    /\ UNCHANGED <<layout, target, apin, switch, seekf, demux, preq, pflags, plocal, ghost>>

Enable(n) ==
    /\ Begin("select") /\ started /\ n # mInput /\ PauseGraph /\ target' = n
    /\ apc' = "deselect" /\ ak' = 1
    /\ UNCHANGED <<layout, apin, switch, seekf, demux, preq, pflags, plocal, ghost>>

(* Whether the thread is past the test of m_pInput and holds m_csReceive.  *)
Receiving(p) == ppc[p] \in {"check", "typeFlush", "buffer", "rebuffer", "eosDeliver"}

(* SelectInput, one assignment at a time.                                  *)
Selecting(at, then) ==
    /\ apc = at /\ apc' = then
    /\ UNCHANGED <<layout, aop, ops, target, position, resume, apin, started, bFlushing,
                   outType, seekf, demux, preq, pflags, plocal, ghost>>

Deselect ==
    /\ Selecting("deselect", "open") /\ mInput' = NoInput
    /\ UNCHANGED <<ak, evBlock, render>>

OpenFirst ==
    /\ Selecting("open", "gates") /\ Block(1, FALSE)
    /\ UNCHANGED <<ak, mInput, render>>

OpenNext ==                        \* Block(true), and Block(false) of the next pin
    /\ Selecting("gates", "gates") /\ ak < NumInputs /\ ak' = ak + 1
    /\ evBlock' = [evBlock EXCEPT ![ak] = FALSE, ![ak + 1] = TRUE]
    /\ UNCHANGED <<mInput, render>>

CloseLast ==
    /\ Selecting("gates", "flush") /\ ak = NumInputs /\ Block(ak, TRUE)
    /\ UNCHANGED <<ak, mInput, render>>

FlushNothing ==
    /\ Selecting("flush", "endFlush") /\ UNCHANGED <<ak, mInput, evBlock, render>>
FlushOutput ==
    /\ Selecting("flush", "endFlush") /\ DeliverBeginFlush
    /\ UNCHANGED <<ak, mInput, evBlock>>

EndFlushOutput ==
    /\ Selecting("endFlush", "setInput") /\ DeliverEndFlush
    /\ UNCHANGED <<ak, mInput, evBlock>>

SetInput ==
    /\ apc = "setInput" /\ apc' = "openNew" /\ mInput' = target
    /\ lost' = IF \E p \in Inputs \ {target} : Receiving(p) THEN lost \cup {"late"} ELSE lost
    /\ UNCHANGED <<layout, aop, ops, target, position, resume, ak, apin, started, evBlock,
                   bFlushing, outType, render, seekf, demux, preq, pflags, plocal, real,
                   early, silent>>

LeaveNewClosed ==
    Selecting("openNew", "seeker") /\ ak' = NoInput /\ UNCHANGED <<mInput, evBlock, render>>
OpenNew ==
    /\ Selecting("openNew", "seeker") /\ Block(target, FALSE) /\ ak' = NoInput
    /\ UNCHANGED <<mInput, render>>

------------------------------------------------------------------------------
(* ResumeGraph's SetPositions reaches a splitter once for the video and    *)
(* once for every input of the switcher (CallPeerSeekingAll).              *)
SplitterAt(k) == IF aop = "stop" THEN k ELSE IF k = NoInput THEN 1 ELSE of(k)
Current == SplitterAt(ak)

NextSeeker ==
    IF ak = NumInputs THEN apc' = "resume" /\ UNCHANGED ak
    ELSE apc' = "seeker" /\ ak' = ak + 1

LoopPins(at) ==                    \* the head of a loop over m_pOutputs
    /\ apc' = at
    /\ apin' = FirstPin(Current)

AfterPin(at, then) ==              \* its next turn, or what follows it
    LET later == {q \in PinsOf(Current) : q > apin}
    IN  IF later = {} THEN apc' = then /\ UNCHANGED apin
        ELSE apc' = at /\ apin' = CHOOSE p \in later : \A q \in later : p <= q

(* The filter of SetPositionsInternal.                                     *)
AlreadyThere(s)       == rtCurrent[s] = position
DuplicateUnnamed(s)   == rtLastStart[s] = position
Duplicate(s)          == rtLastStart[s] = position /\ ak \notin lastSeekers[s]

SkipSeek ==
    /\ apc = "seeker" /\ AlreadyThere(Current)
    /\ early' = early \cup {Current} /\ NextSeeker
    /\ UNCHANGED <<layout, aop, ops, target, position, resume, apin, switch, render, seekf,
                   demux, preq, pflags, plocal, real, silent, lost>>

DropSeek ==
    /\ apc = "seeker" /\ ~AlreadyThere(Current) /\ Duplicate(Current)
    /\ lastSeekers' = [lastSeekers EXCEPT ![Current] = @ \cup {ak}] /\ NextSeeker
    /\ UNCHANGED <<layout, aop, ops, target, position, resume, apin, switch, render, demux,
                   rtCurrent, rtLastStart, preq, pflags, plocal, ghost>>

TakeSeek ==
    /\ apc = "seeker" /\ ~AlreadyThere(Current) /\ ~Duplicate(Current)
    /\ rtLastStart' = [rtLastStart EXCEPT ![Current] = position]
    /\ lastSeekers' = [lastSeekers EXCEPT ![Current] = {ak}]
    /\ rtCurrent' = [rtCurrent EXCEPT ![Current] = position]
    /\ real' = [real EXCEPT ![Current] = @ + 1] /\ silent' = silent \ {Current}
    /\ IF fpc[Current] = "none" THEN NextSeeker /\ UNCHANGED <<apin, fFlushing>>
       ELSE /\ LoopPins("beginPin") /\ UNCHANGED ak
            /\ fFlushing' = [fFlushing EXCEPT ![Current] = TRUE]
    /\ UNCHANGED <<layout, aop, ops, target, position, resume, switch, render, fpc, fReq,
                   fDone, fEndFlush, active, fpin, preq, pflags, plocal, early, lost>>

ResumeGraph ==
    /\ apc = "resume" /\ Idle
    /\ sink' = IF resume THEN "running" ELSE sink
    /\ silent' = silent \cup {s \in Splitters : real[s] = 0}
    /\ real' = [s \in Splitters |-> 0] /\ early' = {}
    /\ UNCHANGED <<layout, switch, sinkFlushing, from, strays, garbled, ended, seekf, demux, preq,
                   pflags, plocal, lost>>

------------------------------------------------------------------------------
(* Flushing the pins of a splitter around a request to its thread.  The    *)
(* switcher's pin passes the flush on when it is the selected one; any     *)
(* other lets its blocked Receive return, and blocks again at the end.     *)
Flushing(at) ==
    /\ apc = at
    /\ UNCHANGED <<layout, aop, ops, target, position, resume, mInput, started, outType, seekf,
                   fpc, fReq, fDone, active, fpin, preq, fresh, hr, ghost>>

BeginFlush ==
    IF IsActive(apin) THEN DeliverBeginFlush /\ UNCHANGED evBlock
    ELSE Block(apin, FALSE) /\ UNCHANGED render

(* The demuxing thread may be past the test of m_hrDeliver in QueuePacket, *)
(* and then adds its packet behind RemoveAll: at the latest before it sees *)
(* the request, so that the queue may as well have it from now on.         *)
LatePackets(p) ==
    IF fpc[of(p)] = "demux" /\ p \in active[of(p)] THEN cursor[p] .. Eos ELSE {}

BeginFlushPin ==
    /\ Flushing("beginPin") /\ AfterPin("beginPin", "call")
    /\ hrDeliver' = [hrDeliver EXCEPT ![apin] = FALSE]
    /\ pFlushed' = [pFlushed EXCEPT ![apin] = FALSE]
    /\ pEndFlush' = [pEndFlush EXCEPT ![apin] = FALSE]
    /\ cursor' = [cursor EXCEPT ![apin] = Eos + 1]
    /\ \E n \in {0} \cup LatePackets(apin) : behind' = [behind EXCEPT ![apin] = n]
    /\ bFlushing' = [bFlushing EXCEPT ![apin] = TRUE]
    /\ BeginFlush
    /\ UNCHANGED <<ak, fFlushing, fEndFlush>>

EndFlush ==
    IF IsActive(apin) THEN DeliverEndFlush /\ UNCHANGED evBlock
    ELSE Block(apin, TRUE) /\ UNCHANGED render

EndFlushPin ==
    /\ Flushing("endPin") /\ AfterPin("endPin", "endFilter")
    /\ EndFlush
    /\ bFlushing' = [bFlushing EXCEPT ![apin] = FALSE]
    /\ hrDeliver' = [hrDeliver EXCEPT ![apin] = TRUE]
    /\ pFlushed' = [pFlushed EXCEPT ![apin] = ppc[apin] \notin {"none", "top", "test", "eosTest"}]
    /\ pEndFlush' = [pEndFlush EXCEPT ![apin] = TRUE]
    /\ UNCHANGED <<ak, cursor, behind, fFlushing, fEndFlush>>

EndFlushFilter ==
    /\ Flushing("endFilter")
    /\ fFlushing' = [fFlushing EXCEPT ![Current] = FALSE]
    /\ fEndFlush' = [fEndFlush EXCEPT ![Current] = TRUE]
    /\ IF aop = "stop" THEN LoopPins("inactive") /\ UNCHANGED ak
       ELSE NextSeeker /\ UNCHANGED apin
    /\ UNCHANGED <<bFlushing, evBlock, render, pflags, cursor, behind>>

(* CallWorker gives up after ten seconds: the demuxing thread is then held *)
(* up in NewSegment, the pin's thread at the gate of the switcher.         *)
Calling(at, then) ==
    /\ apc = at /\ apc' = then
    /\ UNCHANGED <<layout, aop, ops, target, position, resume, ak, switch, render, seekf, fpc,
                   fFlushing, fEndFlush, active, fpin, ppc, pflags, plocal, real, early, silent>>

CallWorker ==
    /\ Calling("call", "wait")
    /\ fReq' = [fReq EXCEPT ![Current] = IF aop = "stop" THEN "exit" ELSE "seek"]
    /\ fDone' = [fDone EXCEPT ![Current] = FALSE]
    /\ UNCHANGED <<apin, pReq, pDone, lost>>

CallReturns ==
    /\ apc = "wait" /\ fDone[Current] /\ LoopPins("endPin")
    /\ fDone' = [fDone EXCEPT ![Current] = FALSE]
    /\ UNCHANGED <<layout, aop, ops, target, position, resume, ak, switch, render, seekf,
                   fpc, fReq, fFlushing, fEndFlush, active, fpin, preq, pflags, plocal, ghost>>

CallTimesOut ==
    /\ apc = "wait" /\ ~fDone[Current] /\ LoopPins("endPin")
    /\ fpc[Current] = "newSegment" /\ Receiving(fpin[Current])
    /\ lost' = lost \cup {"gaveUp"}
    /\ UNCHANGED <<layout, aop, ops, target, position, resume, ak, switch, render, seekf,
                   demux, preq, pflags, plocal, real, early, silent>>

(* Stop: the renderer, the switcher (Inactive of every input), and each    *)
(* splitter: flush, CMD_EXIT to its thread, Inactive of every pin.         *)
Stop ==
    /\ Begin("stop") /\ started /\ started' = FALSE
    /\ sink' = "stopped" /\ SinkForgets
    /\ evBlock' = [p \in Inputs |-> TRUE] /\ bFlushing' = [p \in Inputs |-> FALSE]
    /\ apc' = "stopSplitter" /\ ak' = 1
    /\ UNCHANGED <<layout, target, position, resume, apin, mInput, outType, sinkFlushing,
                   seekf, demux, preq, pflags, plocal, ghost>>

StopSplitter ==
    /\ apc = "stopSplitter" /\ ak <= NumSplitters
    /\ IF PinsOf(ak) = {} THEN ak' = ak + 1 /\ UNCHANGED <<apc, apin, fFlushing>>
       ELSE /\ fFlushing' = [fFlushing EXCEPT ![ak] = TRUE] /\ LoopPins("beginPin")
            /\ UNCHANGED ak
    /\ UNCHANGED <<layout, aop, ops, target, position, resume, switch, render, seekf, fpc,
                   fReq, fDone, fEndFlush, active, fpin, preq, pflags, plocal, ghost>>

Stopped ==
    /\ apc = "stopSplitter" /\ ak > NumSplitters /\ Idle
    /\ UNCHANGED <<layout, switch, render, seekf, demux, preq, pflags, plocal, ghost>>

Inactive ==
    /\ Calling("inactive", "inactiveWait")
    /\ pReq' = [pReq EXCEPT ![apin] = TRUE] /\ pDone' = [pDone EXCEPT ![apin] = FALSE]
    /\ UNCHANGED <<apin, fReq, fDone, lost>>

NextInactive ==
    AfterPin("inactive", "stopSplitter") /\ ak' = IF apc' = "inactive" THEN ak ELSE ak + 1

InactiveReturns ==
    /\ apc = "inactiveWait" /\ pDone[apin] /\ NextInactive
    /\ pDone' = [pDone EXCEPT ![apin] = FALSE]
    /\ UNCHANGED <<layout, aop, ops, target, position, resume, switch, render, seekf, demux,
                   ppc, pReq, pflags, plocal, ghost>>

AtClosedGate(p) == ppc[p] = "gate" /\ p \in layout.block /\ ~evBlock[p]

InactiveTimesOut ==
    /\ apc = "inactiveWait" /\ ~pDone[apin] /\ AtClosedGate(apin) /\ NextInactive
    /\ lost' = lost \cup {"gaveUp"}
    /\ UNCHANGED <<layout, aop, ops, target, position, resume, switch, render, seekf, demux,
                   preq, pflags, plocal, real, early, silent>>

------------------------------------------------------------------------------
(* The demuxing thread of splitter s.                                      *)
Demuxing(s, at, then) ==
    /\ fpc[s] = at /\ fpc' = [fpc EXCEPT ![s] = then]
    /\ UNCHANGED <<layout, app, switch, render, rtLastStart, lastSeekers,
                   fFlushing, preq, pflags, behind, hr, real, early, silent>>

(* A request: the thread leaves, or it seeks and answers.                  *)
GetRequest(s) ==
    /\ Demuxing(s, "demux", IF fReq[s] = "exit" THEN "none" ELSE "waitFlush")
    /\ fReq[s] # "none" /\ fReq' = [fReq EXCEPT ![s] = "none"]
    /\ fDone' = [fDone EXCEPT ![s] = TRUE] /\ active' = [active EXCEPT ![s] = {}]
    /\ IF fReq[s] = "exit" THEN UNCHANGED <<cursor, fresh>>
       ELSE /\ cursor' = [p \in Inputs |-> IF of(p) = s THEN 1 ELSE cursor[p]]
            /\ fresh' = [p \in Inputs |-> of(p) # s /\ fresh[p]]
    /\ UNCHANGED <<rtCurrent, fEndFlush, fpin, lost>>

WaitEndFlush(s) ==
    /\ Demuxing(s, "waitFlush", "segments")
    /\ fEndFlush[s] /\ fEndFlush' = [fEndFlush EXCEPT ![s] = FALSE]
    /\ fpin' = [fpin EXCEPT ![s] = FirstPin(s)]
    /\ UNCHANGED <<rtCurrent, cursor, fresh, fReq, fDone, active, lost>>

(* The pins that are in use: for those of the switcher, the selected one.  *)
NextPin(s) == fpin' = [fpin EXCEPT ![s] =
    CHOOSE n \in 1 .. NumInputs + 1 :
        /\ n > fpin[s] /\ (n > NumInputs \/ of(n) = s)
        /\ \A q \in PinsOf(s) : q > fpin[s] => n <= q]

SkipPin(s) ==
    /\ Demuxing(s, "segments", "segments")
    /\ ~fFlushing[s] /\ fpin[s] <= NumInputs /\ ~IsActive(fpin[s]) /\ NextPin(s)
    /\ UNCHANGED <<rtCurrent, cursor, fresh, fReq, fDone, fEndFlush, active, lost>>

UsePin(s) ==                       \* NewSegment waits for m_csReceive
    /\ Demuxing(s, "segments", "newSegment")
    /\ ~fFlushing[s] /\ fpin[s] <= NumInputs /\ IsActive(fpin[s])
    /\ active' = [active EXCEPT ![s] = @ \cup {fpin[s]}]
    /\ UNCHANGED <<rtCurrent, cursor, fresh, fReq, fDone, fEndFlush, fpin, lost>>

NewSegment(s) ==                   \* not delivered while the pin is flushed
    /\ Demuxing(s, "newSegment", "segments")
    /\ pEndFlush[fpin[s]] => ~Receiving(fpin[s])
    /\ NextPin(s)
    /\ UNCHANGED <<rtCurrent, cursor, fresh, fReq, fDone, fEndFlush, active, lost>>

StartDemux(s) ==
    /\ Demuxing(s, "segments", "demux")
    /\ fFlushing[s] \/ fpin[s] > NumInputs
    /\ fpin' = [fpin EXCEPT ![s] = 1]
    /\ UNCHANGED <<rtCurrent, cursor, fresh, fReq, fDone, fEndFlush, active, lost>>

(* DeliverPacket notes the time of each packet that goes to a pin in use.  *)
ReadOn(s) ==
    /\ Demuxing(s, "demux", "demux")
    /\ s = 1 \/ active[s] # {}
    /\ rtCurrent[s] < LastPosition /\ rtCurrent' = [rtCurrent EXCEPT ![s] = @ + 1]
    /\ UNCHANGED <<cursor, fresh, fReq, fDone, fEndFlush, active, fpin, lost>>

------------------------------------------------------------------------------
(* The thread of the splitter pin connected to input p: its loop, and the  *)
(* calls of the switcher's pin it makes.                                   *)
Delivering(p) ==
    UNCHANGED <<layout, app, mInput, started, evBlock, bFlushing, sink, seekf, demux,
                pEndFlush, ghost>>
sinks == <<sinkFlushing, from, strays, garbled, ended>>

Step(p, at, then) ==               \* within a call
    /\ ppc[p] = at /\ ppc' = [ppc EXCEPT ![p] = then] /\ Delivering(p)
    /\ UNCHANGED <<hrDeliver, pFlushed, pReq, pDone, plocal>>

(* The call returns to ThreadProcDelivery, which waits for a flush to end  *)
(* and keeps a bad result unless the pin was flushed.                      *)
Keep(p, ok) == hrDeliver' = [hrDeliver EXCEPT ![p] = @ /\ (ok \/ pFlushed[p])]

Return(p, at, ok) ==
    /\ ppc[p] = at /\ Delivering(p)
    /\ IF pEndFlush[p]
       THEN /\ ppc' = [ppc EXCEPT ![p] = "top"] /\ Keep(p, ok)
            /\ hr' = [hr EXCEPT ![p] = TRUE] /\ fresh' = [fresh EXCEPT ![p] = FALSE]
            /\ pFlushed' = [pFlushed EXCEPT ![p] = FALSE]
       ELSE /\ ppc' = [ppc EXCEPT ![p] = "endWait"] /\ hr' = [hr EXCEPT ![p] = ok]
            /\ UNCHANGED <<hrDeliver, fresh, pFlushed>>
    /\ UNCHANGED <<pReq, pDone, cursor, behind>>

AwaitEndFlush(p) ==
    /\ pEndFlush[p] /\ Return(p, "endWait", hr[p])
    /\ UNCHANGED <<outType, sinks>>

Exit(p) ==
    /\ pReq[p] /\ ppc[p] = "top" /\ ppc' = [ppc EXCEPT ![p] = "none"] /\ Delivering(p)
    /\ pReq' = [pReq EXCEPT ![p] = FALSE] /\ pDone' = [pDone EXCEPT ![p] = TRUE]
    /\ UNCHANGED <<outType, sinks, hrDeliver, pFlushed, plocal>>

(* ThreadProcDelivery removes a packet; a packet of an older round goes    *)
(* first, whatever m_hrDeliver is and even when the thread is to leave.    *)
Remove(p, n) ==
    /\ ppc[p] = "top" /\ Delivering(p)
    /\ ppc' = [ppc EXCEPT ![p] = IF n = Eos THEN "eosTest" ELSE "test"]
    /\ UNCHANGED <<outType, sinks, hrDeliver, pFlushed, pReq, pDone, hr>>

TakeLate(p) ==
    /\ behind[p] # 0 /\ Remove(p, behind[p])
    /\ behind' = [behind EXCEPT ![p] = 0]
    /\ UNCHANGED <<cursor, fresh>>

Take(p) ==
    /\ behind[p] = 0 /\ Remove(p, cursor[p])
    /\ ~pReq[p] /\ hrDeliver[p]
    /\ fpc[of(p)] = "demux" /\ p \in active[of(p)]
    /\ cursor[p] <= Eos /\ cursor' = [cursor EXCEPT ![p] = @ + 1]
    /\ fresh' = [fresh EXCEPT ![p] = TRUE]
    /\ UNCHANGED behind

(* Then it tests m_hrDeliver and forgets that the pin was flushed.         *)
TestResult(p) ==
    /\ ppc[p] \in {"test", "eosTest"} /\ Delivering(p)
    /\ IF hrDeliver[p]
         THEN /\ ppc' = [ppc EXCEPT ![p] = IF @ = "eosTest" THEN "eos"
                                           ELSE IF p \in layout.block THEN "gate" ELSE "active"]
              /\ UNCHANGED fresh
         ELSE ppc' = [ppc EXCEPT ![p] = "top"] /\ fresh' = [fresh EXCEPT ![p] = FALSE]
    /\ UNCHANGED <<outType, sinks, hrDeliver, pFlushed, pReq, pDone, cursor, behind, hr>>

(* Receive: the gate, the test of m_pInput, the lock, CheckStreaming.      *)
PassGate(p) ==
    /\ ~AtClosedGate(p) /\ Step(p, "gate", "active") /\ UNCHANGED <<outType, sinks>>

EnterActive(p) ==
    /\ IsActive(p) /\ Step(p, "active", "check") /\ UNCHANGED <<outType, sinks>>

RefuseInactive(p) ==
    /\ ~IsActive(p) /\ Return(p, "active", FALSE) /\ UNCHANGED <<outType, sinks>>

CanReceive(p) == started /\ ~bFlushing[p]         \* CheckStreaming

NotStreaming(p) ==
    /\ ~CanReceive(p) /\ Return(p, "check", FALSE) /\ UNCHANGED <<outType, sinks>>

(* Another format than the output's, or a sample too large for its buffers,*)
(* sets the output's type anew; too small buffers make it flush first.     *)
KeepType(p) ==                     \* the old stream's type is kept with its buffers
    /\ CanReceive(p) /\ Step(p, "check", "buffer") /\ UNCHANGED <<outType, sinks>>
KeepBuffers(p) ==
    /\ CanReceive(p) /\ Step(p, "check", IF outType = p THEN "buffer" ELSE "rebuffer")
    /\ UNCHANGED <<outType, sinks>>

GrowBuffers(p) ==
    /\ CanReceive(p) /\ Step(p, "check", "typeFlush")
    /\ DeliverBeginFlush /\ UNCHANGED outType

EndGrowBuffers(p) ==
    /\ Step(p, "typeFlush", "rebuffer") /\ DeliverEndFlush /\ UNCHANGED outType

(* GetDeliveryBuffer: a paused renderer that has its sample keeps us.      *)
(* Then the new type is set, and CAudioSwitcherFilter::Transform reads the *)
(* formats of m_pInput and of the output, whatever pin the sample came by. *)
HasRoom == sink # "paused" \/ sinkFlushing \/ from = {}
Accepts == sink # "stopped" /\ ~sinkFlushing
Stray(p) == ~(IsActive(p) /\ fresh[p])
OwnFormat(p) == mInput \in {p, NoInput} /\ outType' = p

SendSample(p) ==
    \E at \in {"buffer", "rebuffer"} :
        /\ HasRoom /\ Return(p, at, Accepts)
        /\ outType' = IF at = "rebuffer" /\ sink # "stopped" THEN p ELSE outType
        /\ IF ~Accepts THEN UNCHANGED sinks
           ELSE /\ from' = from \cup {p} /\ garbled' = (garbled \/ ~OwnFormat(p))
                /\ strays' = [strays EXCEPT ![p] = IF Stray(p) THEN @ + 1 ELSE @]
                /\ UNCHANGED <<sinkFlushing, ended>>

(* EndOfStream tests m_pInput with the lock held.                          *)
EndUntested(p) ==
    Step(p, "eos", "eosDeliver") /\ UNCHANGED <<outType, sinks>>
EnterEnd(p) ==
    /\ IsActive(p) /\ Step(p, "eos", "eosDeliver") /\ UNCHANGED <<outType, sinks>>

InactiveEnd(p) ==
    /\ ~IsActive(p) /\ Return(p, "eos", TRUE) /\ UNCHANGED <<outType, sinks>>

SendEnd(p) ==
    /\ Return(p, "eosDeliver", Accepts) /\ UNCHANGED outType
    /\ IF ~Accepts THEN UNCHANGED sinks
       ELSE /\ ended' = IF Stray(p) THEN ended ELSE ended \cup {p}
            /\ strays' = [strays EXCEPT ![p] = IF Stray(p) THEN @ + 1 ELSE @]
            /\ UNCHANGED <<sinkFlushing, from, garbled>>

------------------------------------------------------------------------------
App == \/ Start \/ StartSplitter \/ Run \/ Seek \/ \E n \in Inputs : Enable(n)
       \/ Deselect \/ OpenFirst \/ OpenNext \/ CloseLast \/ FlushOutput \/ EndFlushOutput
       \/ SetInput \/ OpenNew
       \/ SkipSeek \/ DropSeek \/ TakeSeek \/ ResumeGraph
       \/ BeginFlushPin \/ CallWorker \/ CallReturns \/ CallTimesOut
       \/ EndFlushPin \/ EndFlushFilter
       \/ Stop \/ StopSplitter \/ Stopped \/ Inactive \/ InactiveReturns \/ InactiveTimesOut

Demuxer(s) == \/ WaitEndFlush(s) \/ SkipPin(s) \/ UsePin(s)
              \/ NewSegment(s) \/ StartDemux(s) \/ GetRequest(s)

PinThread(p) == \/ AwaitEndFlush(p) \/ Exit(p) \/ TakeLate(p) \/ Take(p) \/ TestResult(p)
                \/ PassGate(p) \/ EnterActive(p) \/ RefuseInactive(p) \/ NotStreaming(p)
                \/ KeepBuffers(p) \/ GrowBuffers(p) \/ EndGrowBuffers(p) \/ SendSample(p)
                \/ EnterEnd(p) \/ InactiveEnd(p) \/ SendEnd(p)

Next == \/ App
        \/ \E s \in Splitters : Demuxer(s) \/ ReadOn(s)
        \/ \E p \in Inputs : PinThread(p)

(* An operation under way and the threads go on; nobody has to start one,  *)
(* and the demuxing threads need not read ahead of the pins.               *)
Spec == /\ Init /\ [][Next]_vars
        /\ WF_vars(App /\ apc # "idle")
        /\ \A s \in Splitters : WF_vars(Demuxer(s))
        /\ \A p \in Inputs : WF_vars(PinThread(p))

------------------------------------------------------------------------------
(* Each variable has values of its kind.                                   *)
TypeOK ==
    /\ apc \in {"idle", "startSplitter", "run", "deselect", "open", "gates", "flush",
               "endFlush", "setInput", "openNew", "seeker", "resume", "beginPin", "call",
               "wait", "endPin", "endFilter", "stopSplitter", "inactive", "inactiveWait"}
    /\ mInput \in Inputs \cup {NoInput} /\ target \in Inputs /\ outType \in Inputs
    /\ sink \in {"stopped", "paused", "running"}
    /\ from \subseteq Inputs /\ ended \subseteq Inputs
    /\ silent \subseteq Splitters /\ lost \subseteq {"gaveUp", "late"}

(* SetPositions asks every splitter once for each stream of it that is     *)
(* rendered; whatever the order of the requests and the seeks of earlier   *)
(* operations, a splitter acts on one of them and drops the rest, unless   *)
(* it was at the position when it was asked.                               *)
SoughtOnce ==
    apc = "resume" => \A s \in {of(p) : p \in Inputs} :
        real[s] = 1 \/ (real[s] = 0 /\ s \in early)

(* A sample is converted with the format of the stream it is a sample of   *)
(* and from the format its pin set on the output, unless a Receive of      *)
(* another pin was under way when SelectInput set m_pInput.                *)
FormatsAgree == garbled => "late" \in lost

(* Outside the window in which SelectInput opens the gates, the renderer   *)
(* has at most one sample of a stream that is not selected, the one whose  *)
(* Receive had passed the test of m_pInput, and of the selected one at     *)
(* most two of before the seek: the one its thread held when the pin was   *)
(* flushed, and the one QueuePacket added behind RemoveAll.                *)
StrayBound ==
    apc \notin {"open", "gates", "flush"} =>
        \A p \in Inputs : strays[p] <= IF IsActive(p) THEN 2 ELSE 1

(* Once a stream is selected, the renderer has samples of that stream,     *)
(* and of others only such strays.                                         *)
OnlySelected ==
    apc \in {"idle", "seeker"} => \A p \in from : IsActive(p) \/ strays[p] > 0

(* Both: what the renderer is given is what was selected.                  *)
SelectionHeard == StrayBound /\ OnlySelected

(* In a graph that is left running the selected stream reaches the         *)
(* renderer to its end: no thread of it waits for ever at a gate, at the   *)
(* paused renderer or for a flush to end.  Excluded are a splitter that    *)
(* took the positioning of the last selection for a repetition, whose      *)
(* packets for the new stream are behind, and an operation that timed out. *)
Undisturbed == lost = {} /\ mInput # NoInput /\ of(mInput) \notin silent
SelectedPlays ==
    <>[](apc = "idle" /\ sink = "running" /\ Undisturbed) => <>[](mInput \in ended)
==============================================================================
