--------------------------- MODULE SplitterProofs ---------------------------
(***************************************************************************)
(* The splitter for every graph, capacity and number of operations.  The   *)
(* invariant has four layers, each resting on the ones before it:          *)
(*   - types and threads: which thread is where;                           *)
(*   - control: the handshake of the application with the demuxing thread, *)
(*     and where the demuxing thread is when a flush ends.  A CallWorker   *)
(*     that is given up breaks it, so it is conditional on ~MayTimeOut;    *)
(*   - the queues: from RemoveAll to the reset of m_hrDeliver a queue      *)
(*     holds at most the one packet that was being added;                  *)
(*   - the rounds: a queue holds packets of one older round at most, and   *)
(*     the packets of this round that a pin has delivered, holds and has   *)
(*     queued have consecutive numbers, up to the file position.           *)
(* The proof that a step keeps it has a lemma per layer and a step per     *)
(* action under it.  The counters of the model are unbounded here: the     *)
(* bound on operations plays no part.                                      *)
(***************************************************************************)
EXTENDS Splitter, SequenceTheorems, TLAPS

------------------------------------------------------------------------------
(* Where the threads are.                                                  *)

BeginPhases == {"resetEnd", "clearFlushed", "setFlushing", "setResult", "removeAll", "beginDown"}
EndPhases   == {"endDown", "endResult", "endFlushing", "endFlushed", "endSet"}
PinPhases   == BeginPhases \cup EndPhases \cup {"inactive", "inactiveWait"}
AppPhases   == PinPhases \cup {"idle", "filterFlushing", "call", "wait", "filterFlushed",
                               "filterEndSet"}

PacketPlaces == {"queue", "check", "add", "queued"}
EosPlaces    == {"eos", "eosQueue", "eosCheck", "eosAdd"}
EosPinPlaces == {"eosQueue", "eosCheck", "eosAdd"}
LoopPlaces   == {"newSegment", "demux", "getRequest"} \cup PacketPlaces \cup EosPlaces
SeekPlaces   == {"none", "start", "started", "initFailed", "seek", "reply", "waitFlush", "exit"}

PinPlaces == {"none", "start", "startFlags", "startSet", "top", "take", "check", "mark",
              "deliver", "waitFlush", "report", "store"}
HandPlaces == {"check", "mark", "deliver", "waitFlush", "report", "store"}

\* A packet: round, number, pin.
Some == Nat \X Nat \X Nat

------------------------------------------------------------------------------
(* Types, threads and file positions.                                      *)

\* The types of the application's variables, of the demuxing thread's, of the
\* pins' and of what packets go through; the counters are any naturals.
AppTypes ==
    /\ graph \in GraphType
    /\ apc \in AppPhases /\ aop \in {"none", "seek", "stop"} /\ apin \in Nat
    /\ apc \in PinPhases \cup {"wait"} => apin \in Pins
    /\ rtNewStart \in Nat

FilterTypes ==
    /\ rtStart \in Nat /\ round \in Nat
    /\ fpc \in LoopPlaces \cup SeekPlaces
    /\ fReq \in {"none", "seek", "exit"} /\ fThread \in BOOLEAN /\ fDone \in BOOLEAN
    /\ fEndFlush \in BOOLEAN /\ fFlushing \in BOOLEAN
    /\ active \in SUBSET Pins /\ fpin \in Nat
    /\ fpc \in PacketPlaces \cup EosPinPlaces => fpin \in active
    /\ nextPacket \in [Pins -> Nat]

PinTypes ==
    /\ ppc \in [Pins -> PinPlaces]
    /\ pThread \in [Pins -> BOOLEAN] /\ pReq \in [Pins -> BOOLEAN]
    /\ pDone \in [Pins -> BOOLEAN]
    /\ hrDeliver \in [Pins -> Results] /\ hr \in [Pins -> Results]
    /\ pFlushed \in [Pins -> BOOLEAN] /\ pFlushing \in [Pins -> BOOLEAN]
    /\ lateStart \in SUBSET Pins

PacketTypes ==
    /\ queue \in [Pins -> Seq(Some)]
    /\ hand \in [Pins -> Some \cup {None}] /\ last \in [Pins -> Some \cup {None}]
    /\ \A p \in Pins : ppc[p] \in HandPlaces => hand[p] \in Some
    /\ segment \in [Pins -> Nat] /\ stale \in [Pins -> Nat]

Types == AppTypes /\ FilterTypes /\ PinTypes /\ PacketTypes

\* m_hThread of the filter and of a pin is set exactly while the thread runs.
Threads ==
    /\ fThread <=> fpc # "none"
    /\ \A p \in Pins : pThread[p] <=> ppc[p] # "none"

\* No file position is past the end, and the demuxing thread queues a packet only
\* of a pin that has one left.
PacketsRemain ==
    /\ \A p \in Pins : nextPacket[p] <= Eos /\ nextPacket[p] > 0
    /\ fpc \in PacketPlaces => nextPacket[fpin] < Eos

------------------------------------------------------------------------------
(* Control.                                                                *)

\* The demuxing thread has not answered the application's request yet.
Unanswered == apc \in BeginPhases \cup {"filterFlushing", "call"} \/ (apc = "wait" /\ ~fDone)

\* It has answered, and the application has not returned.
Answered == (apc = "wait" /\ fDone) \/ apc \in EndPhases \cup {"filterFlushed", "filterEndSet"}

\* A request is pending exactly while the application waits for it and is the one
\* of its operation; once it is answered the demuxing thread waits for m_eEndFlush
\* (after a seek) or is gone (after a stop); while the demuxing thread runs, so do
\* the pins' threads, and only Inactive, which ends them, has requests for them.
Control ==
    /\ aop = "none" <=> apc = "idle"
    /\ apc \in {"inactive", "inactiveWait"} => aop = "stop" /\ fpc = "none"
    /\ fReq # "none" <=> apc = "wait" /\ ~fDone
    /\ fReq = "seek" => aop = "seek"
    /\ fReq = "exit" => aop = "stop"
    /\ fDone => apc = "wait"
    /\ fpc = "reply" => fReq = "seek"
    /\ fpc = "exit" => fReq = "exit"
    /\ Answered => IF aop = "stop" THEN fpc = "none"
                   ELSE fpc \in {"none", "initFailed"} \/ (fpc = "waitFlush" /\ ~fEndFlush)
    /\ fpc \in LoopPlaces \cup {"reply"} => ~fEndFlush
    /\ stopped => fpc = "none"
    /\ fpc # "none" => \A p \in Pins : pThread[p]
    /\ \A p \in Pins : pReq[p] \/ pDone[p] =>
          apc = "inactiveWait" /\ apin = p /\ ~(pReq[p] /\ pDone[p])

\* A position that was asked for and is not being read from is one the application
\* is still about to request: SeekTakesEffect in every phase of an operation.
SeekInv ==
    fpc \in LoopPlaces \cup {"waitFlush"} /\ rtStart # rtNewStart
        => aop = "seek" /\ Unanswered

------------------------------------------------------------------------------
(* The queue of a pin.                                                     *)

\* The demuxing thread is at this step of QueuePacket, for pin p, with a packet or
\* with the end of the stream.
At(p, place, eosPlace) == fpc \in {place, eosPlace} /\ fpin = p

\* The queue holds at most cap + 1 packets, and the packet that is about to be
\* added, or whose second look at m_hrDeliver would let it be, is the last of them.
Fits(p, cap) ==
    /\ Len(queue[p]) <= cap + 1
    /\ At(p, "add", "eosAdd") => Len(queue[p]) <= cap
    /\ At(p, "check", "eosCheck") => hrDeliver[p] # "ok" \/ Len(queue[p]) <= cap

\* RemoveAll has been called in this flush, and m_hrDeliver has not been reset.
Emptied(p) ==
    \/ apc \in BeginPhases /\ p < apin
    \/ apc = "beginDown" /\ p = apin
    \/ apc \in {"call", "wait"}
    \/ apc \in EndPhases /\ apin < p
    \/ apc \in {"endDown", "endResult"} /\ apin = p

\* Nothing has been added since then either: the demuxing thread waits or is gone.
EmptiedBefore ==
    apc \in EndPhases \cup {"filterFlushed", "filterEndSet", "inactive", "inactiveWait"}

\* The pin's own thread has not overwritten m_hrDeliver.
Untouched(p) == p \notin lateStart \/ ppc[p] = "start"

\* A queue fits its cap, and one more for a pin that started late; from RemoveAll on
\* the result is S_FALSE, so that what the flush finds on its way in is all there is.
QueueInv(p) ==
    /\ p \notin lateStart => Fits(p, HardCap)
    /\ p \in lateStart /\ ~MayTimeOut => Fits(p, HardCap + 1)
    /\ p \in lateStart /\ ~MayTimeOut /\ (Emptied(p) \/ EmptiedBefore \/ ppc[p] \in {"none", "start"})
         => Fits(p, HardCap)
    /\ Untouched(p) /\ (Emptied(p) \/ (apc = "removeAll" /\ apin = p)) => hrDeliver[p] # "ok"
    /\ Untouched(p) /\ Emptied(p) =>
         /\ Len(queue[p]) <= 1
         /\ At(p, "add", "eosAdd") => Len(queue[p]) = 0
    /\ ppc[p] = "store" => hr[p] # "ok"

------------------------------------------------------------------------------
(* The rounds: what is of which seek.                                      *)

\* A packet of round r; of an earlier one; the pin's thread has one that it has not
\* delivered; how many of an earlier round than the segment are still to come.
Of(packet, r) == packet # None /\ packet[1] = r
Held(p) == ppc[p] \in {"check", "mark", "deliver"}
OlderThan(packet, r) == packet # None /\ packet[1] < r

Older(p) == (IF queue[p] # <<>> /\ OlderThan(queue[p][1], segment[p]) THEN 1 ELSE 0)
            + (IF Held(p) /\ OlderThan(hand[p], segment[p]) THEN 1 ELSE 0)

\* A queue holds at most one packet of an older round, at its head; from the
\* request of the demuxing thread to the new segment it holds no other.
Short(p) == fpc \in SeekPlaces \cup {"newSegment"} => Len(queue[p]) <= 1

\* Packets are of the pin, none is of a round that has not begun, and only the head
\* of the queue may be of an older one than this.
Sound(p) ==
    /\ segment[p] <= round
    /\ \A i \in 1 .. Len(queue[p]) :
          /\ queue[p][i][1] <= round /\ queue[p][i][3] = p
          /\ i > 1 => queue[p][i][1] = round
    /\ last[p] # None => last[p][1] <= round /\ last[p][3] = p
    /\ ppc[p] \in HandPlaces => hand[p][1] <= round /\ hand[p][3] = p

\* StaleBound, with the stale packets that are still to come.
FewStale(p) == stale[p] + Older(p) <= 2

\* Packets arrive in the order of their rounds.
InOrder(p) ==
    /\ queue[p] # <<>> /\ ~Of(queue[p][1], round) =>
          ~Of(last[p], round) /\ (Held(p) => ~Of(hand[p], round))
    /\ Held(p) /\ ~Of(hand[p], round) => ~Of(last[p], round)

\* Before a round begins there is nothing of it.
Fresh(p) ==
    fpc \in {"waitFlush", "newSegment"} =>
        /\ ~Of(last[p], round) /\ (ppc[p] \in HandPlaces => ~Of(hand[p], round))
        /\ queue[p] # <<>> => ~Of(queue[p][1], round)
        /\ nextPacket[p] = 1

RoundInv(p) == Short(p) /\ Sound(p) /\ FewStale(p) /\ InOrder(p) /\ Fresh(p)

------------------------------------------------------------------------------
(* The chain: what is numbered how within this round.                      *)

\* What has been lost of the round is lost for good: the pin's result is not S_OK
\* or will not be when its thread has stored what it holds.
Broken(p) ==
    \/ hrDeliver[p] # "ok"
    \/ ppc[p] \in {"waitFlush", "report", "store"} /\ Of(hand[p], round) /\ hr[p] # "ok"

\* The numbers, in this round: of the last packet delivered, of the last one taken
\* out of the queue, of those the demuxing thread has dealt with.
LastOf(p)  == IF Of(last[p], round) THEN last[p][2] ELSE 0
Begun(p)   == LastOf(p) + (IF Held(p) /\ Of(hand[p], round) THEN 1 ELSE 0)
Skipped(p) == IF queue[p] # <<>> /\ ~Of(queue[p][1], round) THEN 1 ELSE 0
Handled(p) ==
    IF fpc = "queued" /\ fpin = p THEN nextPacket[p]
    ELSE IF fpc \in EosPlaces /\ p < fpin THEN Eos ELSE nextPacket[p] - 1

\* The packet in hand is the next one after the last delivered, and those in the
\* queue follow it without a gap.
Numbered(p) ==
    /\ Held(p) /\ Of(hand[p], round) => hand[p][2] = LastOf(p) + 1
    /\ \A i \in 1 .. Len(queue[p]) :
          i > Skipped(p) => queue[p][i][2] = Begun(p) + i - Skipped(p)

\* The newest packet of an active pin is the last one the demuxing thread dealt
\* with: none was dropped on the way to the queue.
Counted(p) ==
    p \in active =>
       /\ fpc # "getRequest" => Begun(p) + Len(queue[p]) - Skipped(p) = Handled(p)
       /\ fpc \in EosPlaces => nextPacket[p] = Eos

\* A packet of this round that has passed the test of m_hrDeliver has passed it
\* rightly, and m_fFlushed is clear when its result is looked at, so that a bad
\* result is stored.
NotPassed(p) == hrDeliver[p] # "ok" => ~(ppc[p] \in {"mark", "deliver"} /\ Of(hand[p], round))
NotCleared(p) ==
    ppc[p] \in {"deliver", "waitFlush", "report"} /\ Of(hand[p], round) => ~pFlushed[p]

\* Outside an operation, with the demuxing thread in its loop.
Demuxing == apc = "idle" /\ fpc \in {"demux", "getRequest"} \cup PacketPlaces \cup EosPlaces

\* While nothing is lost for good, nothing is lost.
ChainInv(p) ==
    Demuxing => /\ NotPassed(p) /\ NotCleared(p)
                /\ ~Broken(p) => Numbered(p) /\ Counted(p)

------------------------------------------------------------------------------
(* The whole.                                                              *)

\* A CallWorker that is given up spoils control and rounds, not the types and
\* the queues; a pin whose thread started late, the rounds of that pin.
CInv == ~MayTimeOut => Control /\ SeekInv
QInv == \A p \in Pins : QueueInv(p)
RInv == ~MayTimeOut => \A p \in Pins \ lateStart : RoundInv(p) /\ ChainInv(p)

IInv == Types /\ Threads /\ PacketsRemain /\ CInv /\ QInv /\ RInv
------------------------------------------------------------------------------

\* A graph has a pin and a packet, so the end of the stream is numbered 2 or more.
LEMMA Graph ==
  ASSUME AppTypes
  PROVE  /\ NumPins \in Nat /\ NumPins > 0 /\ Eos \in Nat /\ Eos > 1
         /\ MayTimeOut \in BOOLEAN /\ MayFail \in BOOLEAN
         /\ Pins = 1 .. NumPins
  BY DEF AppTypes, GraphType, NumPins, Eos, PacketsPerPin, MayTimeOut, MayFail, Pins

\* Nothing the code does changes the graph that was built.
LEMMA SameGraph ==
  ASSUME [Next]_vars
  PROVE  /\ graph' = graph /\ NumPins' = NumPins /\ Pins' = Pins /\ Eos' = Eos
         /\ MayTimeOut' = MayTimeOut /\ MayFail' = MayFail
<1>1. graph' = graph
  BY Zenon DEF Next, vars, App, AppStep, Filter, Pin, Pause, Seek, Stop, BeginFlushFilter,
    BeginFlushPin, CallWorker, WorkerReplied, EndFlushPin, EndFlushFilter, InactivePin,
    Start, Started, InitFailed, DemuxSeek, WaitEndFlush, NewSegment, DemuxLoop, QueuePacket,
    DeliverPacket, QueueEndOfStream, GetRequest, Exit, FilterUnchanged, PinUnchanged,
    PinStart, PinTop, PinTake, PinCheck, PinMark, PinDeliver, DeliveryEnds, PinFail,
    PinWaitEndFlush, PinReport
<1> QED
  BY <1>1 DEF NumPins, Pins, Eos, PacketsPerPin, MayTimeOut, MayFail

\* Every step keeps the types of the application's variables.
LEMMA AppTypesStep ==
  ASSUME AppTypes, [Next]_vars
  PROVE  AppTypes'
<1> USE DEF AppTypes, AppPhases, PinPhases, BeginPhases, EndPhases,
            avars, freq, fvars, preq, pflags, plocal, dvars, FilterUnchanged, PinUnchanged, To
<1>0. /\ graph' = graph /\ NumPins' = NumPins /\ Pins' = Pins /\ Eos' = Eos
      /\ MayTimeOut' = MayTimeOut /\ MayFail' = MayFail
  BY SameGraph
<1>1. NumPins \in Nat /\ NumPins > 0 /\ Eos \in Nat /\ Eos > 1 /\ Pins = 1 .. NumPins
  BY Graph
<1>2. CASE Pause
  BY <1>0, <1>1, <1>2 DEF Pause
<1>3. CASE Seek
  BY <1>0, <1>1, <1>3 DEF Seek
<1>4. CASE Stop
  BY <1>0, <1>1, <1>4 DEF Stop
<1>5. CASE BeginFlushFilter
  BY <1>0, <1>1, <1>5 DEF BeginFlushFilter
<1>6. ASSUME NEW p \in Pins, BeginFlushPin(p) PROVE AppTypes'
  BY <1>0, <1>1, <1>6 DEF BeginFlushPin, SetPinEndFlush, RemoveAll
<1>7. CASE CallWorker
  BY <1>0, <1>1, <1>7 DEF CallWorker
<1>8. CASE WorkerReplied
  BY <1>0, <1>1, <1>8 DEF WorkerReplied
<1>9. ASSUME NEW p \in Pins, EndFlushPin(p) PROVE AppTypes'
  BY <1>0, <1>1, <1>9 DEF EndFlushPin, SetPinEndFlush
<1>10. CASE EndFlushFilter
  BY <1>0, <1>1, <1>10 DEF EndFlushFilter, SetEndFlush
<1>11. ASSUME NEW p \in Pins, InactivePin(p) PROVE AppTypes'
  BY <1>0, <1>1, <1>11 DEF InactivePin, EndPinWait
<1>12. CASE Start
  BY <1>0, <1>1, <1>12 DEF Start
<1>13. CASE Started
  BY <1>0, <1>1, <1>13 DEF Started
<1>14. CASE InitFailed
  BY <1>0, <1>1, <1>14 DEF InitFailed, Reply
<1>15. CASE DemuxSeek
  BY <1>0, <1>1, <1>15 DEF DemuxSeek, Reply
<1>16. CASE WaitEndFlush
  BY <1>0, <1>1, <1>16 DEF WaitEndFlush
<1>17. CASE NewSegment
  BY <1>0, <1>1, <1>17 DEF NewSegment
<1>18. CASE DemuxLoop
  BY <1>0, <1>1, <1>18 DEF DemuxLoop
<1>19. CASE QueuePacket
  BY <1>0, <1>1, <1>19 DEF QueuePacket, Add
<1>20. CASE DeliverPacket
  BY <1>0, <1>1, <1>20 DEF DeliverPacket, OtherPins
<1>21. CASE QueueEndOfStream
  BY <1>0, <1>1, <1>21 DEF QueueEndOfStream
<1>22. CASE GetRequest
  BY <1>0, <1>1, <1>22 DEF GetRequest
<1>23. CASE Exit
  BY <1>0, <1>1, <1>23 DEF Exit, Reply
<1>24. ASSUME NEW p \in Pins, PinStart(p) PROVE AppTypes'
  BY <1>0, <1>1, <1>24 DEF PinStart
<1>25. ASSUME NEW p \in Pins, PinTop(p) PROVE AppTypes'
  BY <1>0, <1>1, <1>25 DEF PinTop
<1>26. ASSUME NEW p \in Pins, PinTake(p) PROVE AppTypes'
  BY <1>0, <1>1, <1>26 DEF PinTake
<1>27. ASSUME NEW p \in Pins, PinCheck(p) PROVE AppTypes'
  BY <1>0, <1>1, <1>27 DEF PinCheck, AgainOrTop
<1>28. ASSUME NEW p \in Pins, PinMark(p) PROVE AppTypes'
  BY <1>0, <1>1, <1>28 DEF PinMark
<1>29. ASSUME NEW p \in Pins, PinDeliver(p) PROVE AppTypes'
  BY <1>0, <1>1, <1>29 DEF PinDeliver, DeliveryEnds
<1>30. ASSUME NEW p \in Pins, PinFail(p) PROVE AppTypes'
  BY <1>0, <1>1, <1>30 DEF PinFail, DeliveryEnds
<1>31. ASSUME NEW p \in Pins, PinWaitEndFlush(p) PROVE AppTypes'
  BY <1>0, <1>1, <1>31 DEF PinWaitEndFlush
<1>32. ASSUME NEW p \in Pins, PinReport(p) PROVE AppTypes'
  BY <1>0, <1>1, <1>32 DEF PinReport, AgainOrTop
<1>33. CASE UNCHANGED vars
  BY <1>0, <1>1, <1>33 DEF vars
<1> QED
  BY <1>2, <1>3, <1>4, <1>5, <1>6, <1>7, <1>8, <1>9, <1>10, <1>11, <1>12, <1>13, <1>14, <1>15, <1>16,
     <1>17, <1>18, <1>19, <1>20, <1>21, <1>22, <1>23, <1>24, <1>25, <1>26, <1>27, <1>28, <1>29, <1>30, <1>31,
     <1>32, <1>33 DEF Next, App, AppStep, Filter, Pin

\* Every step keeps the types of the demuxing thread's variables, and the pin it
\* queues a packet for is an active one.
LEMMA FilterTypesStep ==
  ASSUME AppTypes, FilterTypes, [Next]_vars
  PROVE  FilterTypes'
<1> USE DEF FilterTypes, PacketPlaces, EosPlaces, EosPinPlaces, LoopPlaces, SeekPlaces,
            avars, freq, fvars, preq, pflags, plocal, dvars, FilterUnchanged, PinUnchanged, To
<1>0. /\ graph' = graph /\ NumPins' = NumPins /\ Pins' = Pins /\ Eos' = Eos
      /\ MayTimeOut' = MayTimeOut /\ MayFail' = MayFail
  BY SameGraph
<1>1. NumPins \in Nat /\ NumPins > 0 /\ Eos \in Nat /\ Eos > 1 /\ Pins = 1 .. NumPins
  BY Graph
<1>2. CASE Pause
  BY <1>0, <1>1, <1>2 DEF Pause
<1>3. CASE Seek
  BY <1>0, <1>1, <1>3 DEF Seek
<1>4. CASE Stop
  BY <1>0, <1>1, <1>4 DEF Stop
<1>5. CASE BeginFlushFilter
  BY <1>0, <1>1, <1>5 DEF BeginFlushFilter
<1>6. ASSUME NEW p \in Pins, BeginFlushPin(p) PROVE FilterTypes'
  BY <1>0, <1>1, <1>6 DEF BeginFlushPin, SetPinEndFlush, RemoveAll
<1>7. CASE CallWorker
  BY <1>0, <1>1, <1>7 DEF CallWorker
<1>8. CASE WorkerReplied
  BY <1>0, <1>1, <1>8 DEF WorkerReplied, EndWait
<1>9. ASSUME NEW p \in Pins, EndFlushPin(p) PROVE FilterTypes'
  BY <1>0, <1>1, <1>9 DEF EndFlushPin, SetPinEndFlush
<1>10. CASE EndFlushFilter
  <2>1. fFlushing' \in BOOLEAN /\ fEndFlush' \in BOOLEAN
    BY <1>10 DEF EndFlushFilter, SetEndFlush
  <2>2. UNCHANGED <<freq, fvars>>
    BY <1>10 DEF EndFlushFilter
  <2> QED
    BY <1>0, <2>1, <2>2
<1>11. ASSUME NEW p \in Pins, InactivePin(p) PROVE FilterTypes'
  BY <1>0, <1>1, <1>11 DEF InactivePin, EndPinWait
<1>12. CASE Start
  BY <1>0, <1>1, <1>12 DEF Start
<1>13. CASE Started
  BY <1>0, <1>1, <1>13 DEF Started
<1>14. CASE InitFailed
  BY <1>0, <1>1, <1>14 DEF InitFailed, Reply
<1>15. CASE DemuxSeek
  <2>1. rtNewStart \in Nat
    BY DEF AppTypes
  <2>2. nextPacket' \in [Pins' -> Nat]
    BY <1>0, <1>15 DEF DemuxSeek
  <2>3. /\ rtStart' = rtNewStart /\ round' = round + 1 /\ fpc' = "waitFlush"
        /\ UNCHANGED <<fThread, active, fpin, fFlushing, fEndFlush>>
    BY <1>15 DEF DemuxSeek
  <2>4. (fReq' = "none" /\ fDone' = TRUE) \/ UNCHANGED <<fReq, fDone>>
    BY <1>15 DEF DemuxSeek, Reply
  <2>5. fReq' \in {"none", "seek", "exit"} /\ fDone' \in BOOLEAN
    BY <2>4
  <2> QED
    BY <2>1, <2>2, <2>3, <2>5, <1>0
<1>16. CASE WaitEndFlush
  BY <1>0, <1>1, <1>16 DEF WaitEndFlush
<1>17. CASE NewSegment
  <2>1. /\ UNCHANGED <<rtStart, round, fReq, fThread, fDone, fEndFlush, fFlushing, nextPacket>>
        /\ fpc = "newSegment"
        /\ \/ fpin \in Pins /\ active' = active \cup {fpin} /\ fpin' = fpin + 1 /\ fpc' = fpc
           \/ fpc' = "demux" /\ fpin' = 1 /\ active' = active
    <3> HIDE DEF FilterTypes, FilterUnchanged, LoopPlaces, SeekPlaces
    <3> QED
      BY <1>17 DEF NewSegment
  <2> QED
    BY <2>1, <1>0
<1>18. CASE DemuxLoop
  <2>1. /\ UNCHANGED <<rtStart, round, fReq, fThread, fDone, fEndFlush, fFlushing>>
        /\ \/ /\ fpc' = "eos" /\ fpin' = 1 /\ UNCHANGED <<nextPacket, active>>
           \/ \E p \in active : fpc' = "queue" /\ fpin' = p /\ UNCHANGED <<nextPacket, active>>
           \/ \E p \in Pins : /\ nextPacket' = [nextPacket EXCEPT ![p] = @ + 1]
                             /\ active' = active \ {p} /\ fpc' = "demux" /\ UNCHANGED fpin
    <3> HIDE DEF FilterTypes, FilterUnchanged, LoopPlaces, SeekPlaces
    <3> QED
      BY <1>18 DEF DemuxLoop
  <2>2. nextPacket' \in [Pins -> Nat] /\ active' \in SUBSET Pins
    BY <2>1
  <2>3. fpin' \in Nat /\ fpc' \in {"demux", "eos", "queue"} /\ (fpc' = "queue" => fpin' \in active')
    BY <2>1, <1>1
  <2> QED
    BY <2>1, <2>2, <2>3, <1>0
<1>19. CASE QueuePacket
  BY <1>0, <1>1, <1>19 DEF QueuePacket, Add
<1>20. CASE DeliverPacket
  BY <1>0, <1>1, <1>20 DEF DeliverPacket, OtherPins
<1>21. CASE QueueEndOfStream
  BY <1>0, <1>1, <1>21 DEF QueueEndOfStream
<1>22. CASE GetRequest
  BY <1>0, <1>1, <1>22 DEF GetRequest
<1>23. CASE Exit
  BY <1>0, <1>1, <1>23 DEF Exit, Reply
<1>24. ASSUME NEW p \in Pins, PinStart(p) PROVE FilterTypes'
  BY <1>0, <1>1, <1>24 DEF PinStart
<1>25. ASSUME NEW p \in Pins, PinTop(p) PROVE FilterTypes'
  BY <1>0, <1>1, <1>25 DEF PinTop
<1>26. ASSUME NEW p \in Pins, PinTake(p) PROVE FilterTypes'
  BY <1>0, <1>1, <1>26 DEF PinTake
<1>27. ASSUME NEW p \in Pins, PinCheck(p) PROVE FilterTypes'
  BY <1>0, <1>1, <1>27 DEF PinCheck, AgainOrTop
<1>28. ASSUME NEW p \in Pins, PinMark(p) PROVE FilterTypes'
  BY <1>0, <1>1, <1>28 DEF PinMark
<1>29. ASSUME NEW p \in Pins, PinDeliver(p) PROVE FilterTypes'
  BY <1>0, <1>1, <1>29 DEF PinDeliver, DeliveryEnds
<1>30. ASSUME NEW p \in Pins, PinFail(p) PROVE FilterTypes'
  BY <1>0, <1>1, <1>30 DEF PinFail, DeliveryEnds
<1>31. ASSUME NEW p \in Pins, PinWaitEndFlush(p) PROVE FilterTypes'
  BY <1>0, <1>1, <1>31 DEF PinWaitEndFlush
<1>32. ASSUME NEW p \in Pins, PinReport(p) PROVE FilterTypes'
  BY <1>0, <1>1, <1>32 DEF PinReport, AgainOrTop
<1>33. CASE UNCHANGED vars
  BY <1>0, <1>1, <1>33 DEF vars
<1> QED
  BY <1>2, <1>3, <1>4, <1>5, <1>6, <1>7, <1>8, <1>9, <1>10, <1>11, <1>12, <1>13, <1>14, <1>15, <1>16,
     <1>17, <1>18, <1>19, <1>20, <1>21, <1>22, <1>23, <1>24, <1>25, <1>26, <1>27, <1>28, <1>29, <1>30, <1>31,
     <1>32, <1>33 DEF Next, App, AppStep, Filter, Pin

\* Every step keeps the types of the pins' flags and results.
LEMMA PinTypesStep ==
  ASSUME PinTypes, [Next]_vars
  PROVE  PinTypes'
<1> USE DEF PinTypes, PinPlaces, Results,
            avars, freq, fvars, preq, pflags, plocal, dvars, FilterUnchanged, PinUnchanged, To
<1>0. /\ graph' = graph /\ NumPins' = NumPins /\ Pins' = Pins /\ Eos' = Eos
      /\ MayTimeOut' = MayTimeOut /\ MayFail' = MayFail
  BY SameGraph
<1>2. CASE Pause
  BY <1>0, <1>2 DEF Pause
<1>3. CASE Seek
  BY <1>0, <1>3 DEF Seek
<1>4. CASE Stop
  BY <1>0, <1>4 DEF Stop
<1>5. CASE BeginFlushFilter
  BY <1>0, <1>5 DEF BeginFlushFilter
<1>6. ASSUME NEW p \in Pins, BeginFlushPin(p) PROVE PinTypes'
  BY <1>0, <1>6 DEF BeginFlushPin, SetPinEndFlush, RemoveAll
<1>7. CASE CallWorker
  BY <1>0, <1>7 DEF CallWorker
<1>8. CASE WorkerReplied
  BY <1>0, <1>8 DEF WorkerReplied, EndWait
<1>9. ASSUME NEW p \in Pins, EndFlushPin(p) PROVE PinTypes'
  BY <1>0, <1>9 DEF EndFlushPin, SetPinEndFlush
<1>10. CASE EndFlushFilter
  BY <1>0, <1>10 DEF EndFlushFilter, SetEndFlush
<1>11. ASSUME NEW p \in Pins, InactivePin(p) PROVE PinTypes'
  <2>1. /\ UNCHANGED <<ppc, pThread, hrDeliver, hr, pFlushed, pFlushing, lateStart>>
        /\ \E b \in BOOLEAN : pReq' = pReq \/ pReq' = [pReq EXCEPT ![p] = b]
        /\ pDone' = pDone \/ pDone' = [pDone EXCEPT ![p] = FALSE]
    <3> HIDE DEF PinTypes
    <3> QED
      BY <1>11 DEF InactivePin, EndPinWait
  <2> QED
    BY <2>1, <1>0
<1>12. CASE Start
  BY <1>0, <1>12 DEF Start
<1>13. CASE Started
  BY <1>0, <1>13 DEF Started
<1>14. CASE InitFailed
  BY <1>0, <1>14 DEF InitFailed, Reply
<1>15. CASE DemuxSeek
  BY <1>0, <1>15 DEF DemuxSeek
<1>16. CASE WaitEndFlush
  BY <1>0, <1>16 DEF WaitEndFlush
<1>17. CASE NewSegment
  BY <1>0, <1>17 DEF NewSegment
<1>18. CASE DemuxLoop
  BY <1>0, <1>18 DEF DemuxLoop
<1>19. CASE QueuePacket
  BY <1>0, <1>19 DEF QueuePacket, Add
<1>20. CASE DeliverPacket
  BY <1>0, <1>20 DEF DeliverPacket, OtherPins
<1>21. CASE QueueEndOfStream
  BY <1>0, <1>21 DEF QueueEndOfStream
<1>22. CASE GetRequest
  BY <1>0, <1>22 DEF GetRequest
<1>23. CASE Exit
  BY <1>0, <1>23 DEF Exit, Reply
<1>24. ASSUME NEW p \in Pins, PinStart(p) PROVE PinTypes'
  BY <1>0, <1>24 DEF PinStart
<1>25. ASSUME NEW p \in Pins, PinTop(p) PROVE PinTypes'
  BY <1>0, <1>25 DEF PinTop
<1>26. ASSUME NEW p \in Pins, PinTake(p) PROVE PinTypes'
  BY <1>0, <1>26 DEF PinTake
<1>27. ASSUME NEW p \in Pins, PinCheck(p) PROVE PinTypes'
  BY <1>0, <1>27 DEF PinCheck, AgainOrTop
<1>28. ASSUME NEW p \in Pins, PinMark(p) PROVE PinTypes'
  BY <1>0, <1>28 DEF PinMark
<1>29. ASSUME NEW p \in Pins, PinDeliver(p) PROVE PinTypes'
  BY <1>0, <1>29 DEF PinDeliver, DeliveryEnds
<1>30. ASSUME NEW p \in Pins, PinFail(p) PROVE PinTypes'
  BY <1>0, <1>30 DEF PinFail, DeliveryEnds
<1>31. ASSUME NEW p \in Pins, PinWaitEndFlush(p) PROVE PinTypes'
  BY <1>0, <1>31 DEF PinWaitEndFlush
<1>32. ASSUME NEW p \in Pins, PinReport(p) PROVE PinTypes'
  BY <1>0, <1>32 DEF PinReport, AgainOrTop
<1>33. CASE UNCHANGED vars
  BY <1>0, <1>33 DEF vars
<1> QED
  BY <1>2, <1>3, <1>4, <1>5, <1>6, <1>7, <1>8, <1>9, <1>10, <1>11, <1>12, <1>13, <1>14, <1>15, <1>16,
     <1>17, <1>18, <1>19, <1>20, <1>21, <1>22, <1>23, <1>24, <1>25, <1>26, <1>27, <1>28, <1>29, <1>30, <1>31,
     <1>32, <1>33 DEF Next, App, AppStep, Filter, Pin

\* What QueuePacket queues has a number.
LEMMA QueuedIsNat ==
  ASSUME AppTypes, FilterTypes, fpin \in Pins
  PROVE  Queued \in Nat
  BY Graph DEF FilterTypes, Queued

\* Every step keeps the types of queues and packets, and a pin's thread that is
\* between taking a packet and dropping it has one.
LEMMA PacketTypesStep ==
  ASSUME AppTypes, FilterTypes, PinTypes, PacketTypes, [Next]_vars
  PROVE  PacketTypes'
<1> USE DEF PacketTypes, HandPlaces, None,
            avars, freq, fvars, preq, pflags, plocal, dvars, FilterUnchanged, PinUnchanged, To
<1>0. /\ graph' = graph /\ NumPins' = NumPins /\ Pins' = Pins /\ Eos' = Eos
      /\ MayTimeOut' = MayTimeOut /\ MayFail' = MayFail
  BY SameGraph
<1>1. ppc \in [Pins -> PinPlaces]
  BY DEF PinTypes
<1>2. CASE Pause
  BY <1>0, <1>1, <1>2 DEF Pause
<1>3. CASE Seek
  BY <1>0, <1>1, <1>3 DEF Seek
<1>4. CASE Stop
  BY <1>0, <1>1, <1>4 DEF Stop
<1>5. CASE BeginFlushFilter
  BY <1>0, <1>1, <1>5 DEF BeginFlushFilter
<1>6. ASSUME NEW p \in Pins, BeginFlushPin(p) PROVE PacketTypes'
  <2>1. <<>> \in Seq(Some)
    BY EmptySeq
  <2> QED
    BY <2>1, <1>0, <1>1, <1>6 DEF BeginFlushPin, RemoveAll
<1>7. CASE CallWorker
  BY <1>0, <1>1, <1>7 DEF CallWorker
<1>8. CASE WorkerReplied
  BY <1>0, <1>1, <1>8 DEF WorkerReplied, EndWait
<1>9. ASSUME NEW p \in Pins, EndFlushPin(p) PROVE PacketTypes'
  BY <1>0, <1>1, <1>9 DEF EndFlushPin, SetPinEndFlush
<1>10. CASE EndFlushFilter
  BY <1>0, <1>1, <1>10 DEF EndFlushFilter, SetEndFlush
<1>11. ASSUME NEW p \in Pins, InactivePin(p) PROVE PacketTypes'
  BY <1>0, <1>1, <1>11 DEF InactivePin, EndPinWait
<1>12. CASE Start
  BY <1>0, <1>1, <1>12 DEF Start
<1>13. CASE Started
  BY <1>0, <1>1, <1>13 DEF Started
<1>14. CASE InitFailed
  BY <1>0, <1>1, <1>14 DEF InitFailed, Reply
<1>15. CASE DemuxSeek
  BY <1>0, <1>1, <1>15 DEF DemuxSeek, Reply
<1>16. CASE WaitEndFlush
  BY <1>0, <1>1, <1>16 DEF WaitEndFlush
<1>17. CASE NewSegment
  <2>1. /\ UNCHANGED <<queue, hand, last, ppc>>
        /\ segment' = segment \/ segment' = [segment EXCEPT ![fpin] = round]
        /\ stale' = stale \/ stale' = [stale EXCEPT ![fpin] = 0]
    <3> HIDE DEF PacketTypes
    <3> QED
      BY <1>17 DEF NewSegment
  <2>2. round \in Nat
    BY DEF FilterTypes
  <2>3. segment' \in [Pins -> Nat]
    BY <2>1, <2>2
  <2>4. stale' \in [Pins -> Nat]
    <3>1. CASE stale' = stale
      BY <3>1
    <3>2. CASE stale' = [stale EXCEPT ![fpin] = 0]
      BY <3>2
    <3> QED
      BY <2>1, <3>1, <3>2
  <2> QED
    BY <2>1, <2>3, <2>4, <1>0, <1>1
<1>18. CASE DemuxLoop
  BY <1>0, <1>1, <1>18 DEF DemuxLoop
<1>19. CASE QueuePacket
  <2>1. fpin \in Pins
    BY <1>19 DEF QueuePacket, FilterTypes, PacketPlaces, EosPinPlaces
  <2> DEFINE packet == <<round, Queued, fpin>>
  <2>2. packet \in Some
    BY <2>1, QueuedIsNat, Graph DEF Some, FilterTypes
  <2>3. Append(queue[fpin], packet) \in Seq(Some)
    BY <2>1, <2>2, AppendProperties
  <2> HIDE DEF packet
  <2>4. queue' = queue \/ queue' = [queue EXCEPT ![fpin] = Append(queue[fpin], packet)]
    BY <1>19 DEF QueuePacket, Add, packet
  <2> QED
    BY <2>3, <2>4, <1>0, <1>1, <1>19 DEF QueuePacket
<1>20. CASE DeliverPacket
  BY <1>0, <1>1, <1>20 DEF DeliverPacket, OtherPins
<1>21. CASE QueueEndOfStream
  BY <1>0, <1>1, <1>21 DEF QueueEndOfStream
<1>22. CASE GetRequest
  BY <1>0, <1>1, <1>22 DEF GetRequest
<1>23. CASE Exit
  BY <1>0, <1>1, <1>23 DEF Exit, Reply
<1>24. ASSUME NEW p \in Pins, PinStart(p) PROVE PacketTypes'
  BY <1>0, <1>1, <1>24 DEF PinStart
<1>25. ASSUME NEW p \in Pins, PinTop(p) PROVE PacketTypes'
  BY <1>0, <1>1, <1>25 DEF PinTop
<1>26. ASSUME NEW p \in Pins, PinTake(p) PROVE PacketTypes'
  <2>1. CASE queue[p] = <<>>
    BY <2>1, <1>0, <1>1, <1>26 DEF PinTake
  <2>2. CASE queue[p] # <<>>
    <3>1. Head(queue[p]) \in Some /\ Tail(queue[p]) \in Seq(Some)
      BY <2>2, HeadTailProperties
    <3>2. /\ UNCHANGED <<last, segment, stale>> /\ ppc' = [ppc EXCEPT ![p] = "check"]
          /\ hand' = [hand EXCEPT ![p] = Head(queue[p])]
          /\ queue' = [queue EXCEPT ![p] = Tail(queue[p])]
      <4> HIDE DEF PinUnchanged, HandPlaces
      <4> QED
        BY <1>26, <2>2 DEF PinTake
    <3> QED
      BY <3>1, <3>2, <1>0, <1>1
  <2> QED
    BY <2>1, <2>2
<1>27. ASSUME NEW p \in Pins, PinCheck(p) PROVE PacketTypes'
  <2>1. /\ UNCHANGED <<queue, last, segment, stale>>
        /\ \/ hand' = hand /\ ppc[p] = "check" /\ ppc' = [ppc EXCEPT ![p] = "mark"]
           \/ /\ hand' = [hand EXCEPT ![p] = None]
              /\ \E l \in {"take", "top"} : ppc' = [ppc EXCEPT ![p] = l]
    <3> HIDE DEF PinUnchanged, HandPlaces
    <3> QED
      BY <1>27 DEF PinCheck, AgainOrTop
  <2> QED
    BY <2>1, <1>0, <1>1
<1>28. ASSUME NEW p \in Pins, PinMark(p) PROVE PacketTypes'
  BY <1>0, <1>1, <1>28 DEF PinMark
<1>29. ASSUME NEW p \in Pins, PinDeliver(p) PROVE PacketTypes'
  <2>1. /\ UNCHANGED <<queue, hand, segment>>
        /\ ppc[p] = "deliver" /\ ppc' = [ppc EXCEPT ![p] = "waitFlush"]
        /\ last' = last \/ last' = [last EXCEPT ![p] = hand[p]]
        /\ stale' = stale \/ stale' = [stale EXCEPT ![p] = stale[p] + 1]
    <3> HIDE DEF PinUnchanged, HandPlaces
    <3> QED
      BY <1>29 DEF PinDeliver, DeliveryEnds
  <2>2. hand[p] \in Some /\ stale[p] + 1 \in Nat
    BY <2>1
  <2>3. last' \in [Pins -> Some \cup {None}] /\ stale' \in [Pins -> Nat]
    BY <2>1, <2>2
  <2>4. \A q \in Pins : ppc'[q] \in HandPlaces => hand'[q] \in Some
    BY <2>1, <2>2, <1>0, <1>1
  <2> QED
    BY <2>1, <2>3, <2>4, <1>0, <1>1
<1>30. ASSUME NEW p \in Pins, PinFail(p) PROVE PacketTypes'
  BY <1>0, <1>1, <1>30 DEF PinFail, DeliveryEnds
<1>31. ASSUME NEW p \in Pins, PinWaitEndFlush(p) PROVE PacketTypes'
  BY <1>0, <1>1, <1>31 DEF PinWaitEndFlush
<1>32. ASSUME NEW p \in Pins, PinReport(p) PROVE PacketTypes'
  <2>1. /\ UNCHANGED <<queue, last, segment, stale>>
        /\ \/ hand' = hand /\ ppc[p] = "report" /\ ppc' = [ppc EXCEPT ![p] = "store"]
           \/ /\ hand' = [hand EXCEPT ![p] = None]
              /\ \E l \in {"take", "top"} : ppc' = [ppc EXCEPT ![p] = l]
    <3> HIDE DEF PinUnchanged, HandPlaces
    <3> QED
      BY <1>32 DEF PinReport, AgainOrTop
  <2> QED
    BY <2>1, <1>0, <1>1
<1>33. CASE UNCHANGED vars
  BY <1>0, <1>1, <1>33 DEF vars
<1> QED
  BY <1>2, <1>3, <1>4, <1>5, <1>6, <1>7, <1>8, <1>9, <1>10, <1>11, <1>12, <1>13, <1>14, <1>15, <1>16,
     <1>17, <1>18, <1>19, <1>20, <1>21, <1>22, <1>23, <1>24, <1>25, <1>26, <1>27, <1>28, <1>29, <1>30, <1>31,
     <1>32, <1>33 DEF Next, App, AppStep, Filter, Pin

------------------------------------------------------------------------------
(* The step lemmas, one per layer.                                         *)

\* A thread's handle is set when it is created and cleared as it ends.
LEMMA ThreadsStep ==
  ASSUME Types, Threads, [Next]_vars
  PROVE  Threads'
<1> USE DEF Threads,
            avars, freq, fvars, preq, pflags, plocal, dvars, FilterUnchanged, PinUnchanged, To
<1>0. /\ graph' = graph /\ NumPins' = NumPins /\ Pins' = Pins /\ Eos' = Eos
      /\ MayTimeOut' = MayTimeOut /\ MayFail' = MayFail
  BY SameGraph
<1>1. /\ fThread \in BOOLEAN /\ fDone \in BOOLEAN /\ fEndFlush \in BOOLEAN
      /\ ppc \in [Pins -> PinPlaces] /\ pThread \in [Pins -> BOOLEAN]
      /\ pReq \in [Pins -> BOOLEAN] /\ pDone \in [Pins -> BOOLEAN]
      /\ fReq \in {"none", "seek", "exit"} /\ aop \in {"none", "seek", "stop"}
  BY DEF Types, AppTypes, FilterTypes, PinTypes
<1>2. CASE Pause
  BY <1>0, <1>1, <1>2 DEF Pause
<1>3. CASE Seek
  BY <1>0, <1>1, <1>3 DEF Seek
<1>4. CASE Stop
  BY <1>0, <1>1, <1>4 DEF Stop
<1>5. CASE BeginFlushFilter
  BY <1>0, <1>1, <1>5 DEF BeginFlushFilter
<1>6. ASSUME NEW p \in Pins, BeginFlushPin(p) PROVE Threads'
  BY <1>0, <1>1, <1>6 DEF BeginFlushPin, SetPinEndFlush, RemoveAll
<1>7. CASE CallWorker
  BY <1>0, <1>1, <1>7 DEF CallWorker
<1>8. CASE WorkerReplied
  BY <1>0, <1>1, <1>8 DEF WorkerReplied, EndWait
<1>9. ASSUME NEW p \in Pins, EndFlushPin(p) PROVE Threads'
  BY <1>0, <1>1, <1>9 DEF EndFlushPin, SetPinEndFlush
<1>10. CASE EndFlushFilter
  BY <1>0, <1>1, <1>10 DEF EndFlushFilter, SetEndFlush
<1>11. ASSUME NEW p \in Pins, InactivePin(p) PROVE Threads'
  BY <1>0, <1>1, <1>11 DEF InactivePin, EndPinWait
<1>12. CASE Start
  BY <1>0, <1>1, <1>12 DEF Start
<1>13. CASE Started
  BY <1>0, <1>1, <1>13 DEF Started
<1>14. CASE InitFailed
  BY <1>0, <1>1, <1>14 DEF InitFailed, Reply
<1>15. CASE DemuxSeek
  BY <1>0, <1>1, <1>15 DEF DemuxSeek, Reply
<1>16. CASE WaitEndFlush
  BY <1>0, <1>1, <1>16 DEF WaitEndFlush
<1>17. CASE NewSegment
  BY <1>0, <1>1, <1>17 DEF NewSegment
<1>18. CASE DemuxLoop
  BY <1>0, <1>1, <1>18 DEF DemuxLoop
<1>19. CASE QueuePacket
  BY <1>0, <1>1, <1>19 DEF QueuePacket, Add
<1>20. CASE DeliverPacket
  BY <1>0, <1>1, <1>20 DEF DeliverPacket, OtherPins
<1>21. CASE QueueEndOfStream
  BY <1>0, <1>1, <1>21 DEF QueueEndOfStream
<1>22. CASE GetRequest
  BY <1>0, <1>1, <1>22 DEF GetRequest
<1>23. CASE Exit
  BY <1>0, <1>1, <1>23 DEF Exit, Reply
<1>24. ASSUME NEW p \in Pins, PinStart(p) PROVE Threads'
  BY <1>0, <1>1, <1>24 DEF PinStart
<1>25. ASSUME NEW p \in Pins, PinTop(p) PROVE Threads'
  BY <1>0, <1>1, <1>25 DEF PinTop
<1>26. ASSUME NEW p \in Pins, PinTake(p) PROVE Threads'
  BY <1>0, <1>1, <1>26 DEF PinTake
<1>27. ASSUME NEW p \in Pins, PinCheck(p) PROVE Threads'
  BY <1>0, <1>1, <1>27 DEF PinCheck, AgainOrTop
<1>28. ASSUME NEW p \in Pins, PinMark(p) PROVE Threads'
  BY <1>0, <1>1, <1>28 DEF PinMark
<1>29. ASSUME NEW p \in Pins, PinDeliver(p) PROVE Threads'
  BY <1>0, <1>1, <1>29 DEF PinDeliver, DeliveryEnds
<1>30. ASSUME NEW p \in Pins, PinFail(p) PROVE Threads'
  BY <1>0, <1>1, <1>30 DEF PinFail, DeliveryEnds
<1>31. ASSUME NEW p \in Pins, PinWaitEndFlush(p) PROVE Threads'
  BY <1>0, <1>1, <1>31 DEF PinWaitEndFlush
<1>32. ASSUME NEW p \in Pins, PinReport(p) PROVE Threads'
  BY <1>0, <1>1, <1>32 DEF PinReport, AgainOrTop
<1>33. CASE UNCHANGED vars
  BY <1>0, <1>1, <1>33 DEF vars
<1> QED
  BY <1>2, <1>3, <1>4, <1>5, <1>6, <1>7, <1>8, <1>9, <1>10, <1>11, <1>12, <1>13, <1>14, <1>15, <1>16,
     <1>17, <1>18, <1>19, <1>20, <1>21, <1>22, <1>23, <1>24, <1>25, <1>26, <1>27, <1>28, <1>29, <1>30, <1>31,
     <1>32, <1>33 DEF Next, App, AppStep, Filter, Pin

\* No step reads past the end of the file.
LEMMA PacketsRemainStep ==
  ASSUME Types, PacketsRemain, [Next]_vars
  PROVE  PacketsRemain'
<1> USE DEF PacketsRemain, PacketPlaces, PacketsLeft,
            avars, freq, fvars, preq, pflags, plocal, dvars, FilterUnchanged, PinUnchanged, To
<1>0. /\ graph' = graph /\ NumPins' = NumPins /\ Pins' = Pins /\ Eos' = Eos
      /\ MayTimeOut' = MayTimeOut /\ MayFail' = MayFail
  BY SameGraph
<1>1. nextPacket \in [Pins -> Nat] /\ Eos \in Nat /\ Eos > 1
  BY Graph DEF Types, FilterTypes
<1>2. CASE Pause
  BY <1>0, <1>1, <1>2 DEF Pause
<1>3. CASE Seek
  BY <1>0, <1>1, <1>3 DEF Seek
<1>4. CASE Stop
  BY <1>0, <1>1, <1>4 DEF Stop
<1>5. CASE BeginFlushFilter
  BY <1>0, <1>1, <1>5 DEF BeginFlushFilter
<1>6. ASSUME NEW p \in Pins, BeginFlushPin(p) PROVE PacketsRemain'
  BY <1>0, <1>1, <1>6 DEF BeginFlushPin, SetPinEndFlush, RemoveAll
<1>7. CASE CallWorker
  BY <1>0, <1>1, <1>7 DEF CallWorker
<1>8. CASE WorkerReplied
  BY <1>0, <1>1, <1>8 DEF WorkerReplied, EndWait
<1>9. ASSUME NEW p \in Pins, EndFlushPin(p) PROVE PacketsRemain'
  BY <1>0, <1>1, <1>9 DEF EndFlushPin, SetPinEndFlush
<1>10. CASE EndFlushFilter
  BY <1>0, <1>1, <1>10 DEF EndFlushFilter, SetEndFlush
<1>11. ASSUME NEW p \in Pins, InactivePin(p) PROVE PacketsRemain'
  BY <1>0, <1>1, <1>11 DEF InactivePin, EndPinWait
<1>12. CASE Start
  BY <1>0, <1>1, <1>12 DEF Start
<1>13. CASE Started
  BY <1>0, <1>1, <1>13 DEF Started
<1>14. CASE InitFailed
  BY <1>0, <1>1, <1>14 DEF InitFailed, Reply
<1>15. CASE DemuxSeek
  BY <1>0, <1>1, <1>15 DEF DemuxSeek, Reply
<1>16. CASE WaitEndFlush
  BY <1>0, <1>1, <1>16 DEF WaitEndFlush
<1>17. CASE NewSegment
  BY <1>0, <1>1, <1>17 DEF NewSegment
<1>18. CASE DemuxLoop
  BY <1>0, <1>1, <1>18 DEF DemuxLoop
<1>19. CASE QueuePacket
  BY <1>0, <1>1, <1>19 DEF QueuePacket, Add
<1>20. CASE DeliverPacket
  BY <1>0, <1>1, <1>20 DEF DeliverPacket, OtherPins
<1>21. CASE QueueEndOfStream
  BY <1>0, <1>1, <1>21 DEF QueueEndOfStream
<1>22. CASE GetRequest
  BY <1>0, <1>1, <1>22 DEF GetRequest
<1>23. CASE Exit
  BY <1>0, <1>1, <1>23 DEF Exit, Reply
<1>24. ASSUME NEW p \in Pins, PinStart(p) PROVE PacketsRemain'
  BY <1>0, <1>1, <1>24 DEF PinStart
<1>25. ASSUME NEW p \in Pins, PinTop(p) PROVE PacketsRemain'
  BY <1>0, <1>1, <1>25 DEF PinTop
<1>26. ASSUME NEW p \in Pins, PinTake(p) PROVE PacketsRemain'
  BY <1>0, <1>1, <1>26 DEF PinTake
<1>27. ASSUME NEW p \in Pins, PinCheck(p) PROVE PacketsRemain'
  BY <1>0, <1>1, <1>27 DEF PinCheck, AgainOrTop
<1>28. ASSUME NEW p \in Pins, PinMark(p) PROVE PacketsRemain'
  BY <1>0, <1>1, <1>28 DEF PinMark
<1>29. ASSUME NEW p \in Pins, PinDeliver(p) PROVE PacketsRemain'
  BY <1>0, <1>1, <1>29 DEF PinDeliver, DeliveryEnds
<1>30. ASSUME NEW p \in Pins, PinFail(p) PROVE PacketsRemain'
  BY <1>0, <1>1, <1>30 DEF PinFail, DeliveryEnds
<1>31. ASSUME NEW p \in Pins, PinWaitEndFlush(p) PROVE PacketsRemain'
  BY <1>0, <1>1, <1>31 DEF PinWaitEndFlush
<1>32. ASSUME NEW p \in Pins, PinReport(p) PROVE PacketsRemain'
  BY <1>0, <1>1, <1>32 DEF PinReport, AgainOrTop
<1>33. CASE UNCHANGED vars
  BY <1>0, <1>1, <1>33 DEF vars
<1> QED
  BY <1>2, <1>3, <1>4, <1>5, <1>6, <1>7, <1>8, <1>9, <1>10, <1>11, <1>12, <1>13, <1>14, <1>15, <1>16,
     <1>17, <1>18, <1>19, <1>20, <1>21, <1>22, <1>23, <1>24, <1>25, <1>26, <1>27, <1>28, <1>29, <1>30, <1>31,
     <1>32, <1>33 DEF Next, App, AppStep, Filter, Pin

\* Every step keeps the control invariant when no CallWorker is given up.
LEMMA ControlStep ==
  ASSUME ~MayTimeOut, Types, Threads, Control, SeekInv, [Next]_vars
  PROVE  Control'
<1> USE DEF Control, Threads, Answered, BeginPhases, EndPhases, LoopPlaces, PacketPlaces, EosPlaces,
            avars, freq, fvars, preq, pflags, plocal, dvars, FilterUnchanged, PinUnchanged, To
<1>0. /\ graph' = graph /\ NumPins' = NumPins /\ Pins' = Pins /\ Eos' = Eos
      /\ MayTimeOut' = MayTimeOut /\ MayFail' = MayFail
  BY SameGraph
<1>1. /\ fThread \in BOOLEAN /\ fDone \in BOOLEAN /\ fEndFlush \in BOOLEAN
      /\ ppc \in [Pins -> PinPlaces] /\ pThread \in [Pins -> BOOLEAN]
      /\ pReq \in [Pins -> BOOLEAN] /\ pDone \in [Pins -> BOOLEAN]
      /\ fReq \in {"none", "seek", "exit"} /\ aop \in {"none", "seek", "stop"}
  BY DEF Types, AppTypes, FilterTypes, PinTypes
<1>2. CASE Pause
  BY <1>0, <1>1, <1>2 DEF Pause
<1>3. CASE Seek
  BY <1>0, <1>1, <1>3 DEF Seek
<1>4. CASE Stop
  BY <1>0, <1>1, <1>4 DEF Stop
<1>5. CASE BeginFlushFilter
  BY <1>0, <1>1, <1>5 DEF BeginFlushFilter
<1>6. ASSUME NEW p \in Pins, BeginFlushPin(p) PROVE Control'
  BY <1>0, <1>1, <1>6 DEF BeginFlushPin, SetPinEndFlush, RemoveAll
<1>7. CASE CallWorker
  <2>1. /\ apc = "call" /\ apin' = 1
        /\ UNCHANGED <<aop, stopped, fDone, fpc, fThread, fEndFlush, pThread, pReq, pDone>>
        /\ \/ fThread /\ apc' = "wait" /\ fReq' \in {"seek", "exit"} /\ (fReq' = "seek" <=> aop = "seek")
           \/ ~fThread /\ apc' = "endDown" /\ fReq' = fReq
    <3> HIDE DEF Control, SeekInv, Threads
    <3> QED
      BY <1>7 DEF CallWorker
  <2> QED
    BY <2>1, <1>0, <1>1
<1>8. CASE WorkerReplied
  BY <1>0, <1>1, <1>8 DEF WorkerReplied, EndWait
<1>9. ASSUME NEW p \in Pins, EndFlushPin(p) PROVE Control'
  BY <1>0, <1>1, <1>9 DEF EndFlushPin, SetPinEndFlush
<1>10. CASE EndFlushFilter
  BY <1>0, <1>1, <1>10 DEF EndFlushFilter, SetEndFlush
<1>11. ASSUME NEW p \in Pins, InactivePin(p) PROVE Control'
  <2>1. /\ apin = p /\ apc \in {"inactive", "inactiveWait"}
        /\ UNCHANGED <<fReq, fDone, fpc, fThread, fEndFlush, pThread>>
        /\ \/ apc' = "inactiveWait" /\ apin' = apin /\ aop' = aop /\ stopped' = stopped
           \/ apc' = "idle" /\ aop' = "none" /\ stopped' = TRUE
           \/ apc' = "inactive" /\ aop' = aop /\ stopped' = stopped
        /\ \/ apc = "inactive" /\ apc' = "inactiveWait" /\ pReq' = [pReq EXCEPT ![p] = TRUE] /\ pDone' = pDone
           \/ apc = "inactive" /\ apc' # "inactiveWait" /\ UNCHANGED <<pReq, pDone>>
           \/ /\ apc = "inactiveWait" /\ apc' # "inactiveWait"
              /\ pDone[p] /\ pDone' = [pDone EXCEPT ![p] = FALSE] /\ pReq' = pReq
    <3> HIDE DEF Control, SeekInv, Threads
    <3> QED
      BY <1>11 DEF InactivePin, EndPinWait
  <2>2. \A q \in Pins : pReq'[q] \/ pDone'[q] =>
           apc' = "inactiveWait" /\ apin' = q /\ ~(pReq'[q] /\ pDone'[q])
    <3>1. \A q \in Pins : pReq[q] \/ pDone[q] =>
           apc = "inactiveWait" /\ apin = q /\ ~(pReq[q] /\ pDone[q])
      OBVIOUS
    <3> HIDE DEF Control
    <3>2. CASE apc' = "inactiveWait"
      BY <3>1, <3>2, <2>1, <1>1
    <3>3. CASE apc' # "inactiveWait"
      BY <3>1, <3>3, <2>1, <1>1
    <3> QED
      BY <3>2, <3>3
  <2> QED
    BY <2>1, <2>2, <1>0
<1>12. CASE Start
  BY <1>0, <1>1, <1>12 DEF Start
<1>13. CASE Started
  BY <1>0, <1>1, <1>13 DEF Started
<1>14. CASE InitFailed
  <2>1. /\ fpc = "initFailed" /\ fReq # "none" /\ fReq' = "none" /\ fDone' = TRUE
        /\ UNCHANGED <<apc, apin, aop, stopped, fEndFlush, pThread, pReq, pDone>>
        /\ \/ fReq = "exit" /\ fpc' = "none" /\ fThread' = FALSE
           \/ fReq # "exit" /\ UNCHANGED <<fpc, fThread>>
    <3> HIDE DEF Control, SeekInv, Threads
    <3> QED
      BY <1>14 DEF InitFailed, Reply
  <2> QED
    BY <2>1, <1>0, <1>1
<1>15. CASE DemuxSeek
  BY <1>0, <1>1, <1>15 DEF DemuxSeek, Reply
<1>16. CASE WaitEndFlush
  <2>1. /\ fpc = "waitFlush" /\ fEndFlush /\ fpc' = "newSegment" /\ fEndFlush' = FALSE
        /\ UNCHANGED <<apc, apin, aop, stopped, fReq, fDone, fThread, pThread, pReq, pDone>>
    <3> HIDE DEF Control, SeekInv, Threads
    <3> QED
      BY <1>16 DEF WaitEndFlush, EndFlushSignalled
  <2> QED
    BY <2>1, <1>0, <1>1
<1>17. CASE NewSegment
  BY <1>0, <1>1, <1>17 DEF NewSegment
<1>18. CASE DemuxLoop
  BY <1>0, <1>1, <1>18 DEF DemuxLoop
<1>19. CASE QueuePacket
  BY <1>0, <1>1, <1>19 DEF QueuePacket, Add
<1>20. CASE DeliverPacket
  BY <1>0, <1>1, <1>20 DEF DeliverPacket, OtherPins
<1>21. CASE QueueEndOfStream
  BY <1>0, <1>1, <1>21 DEF QueueEndOfStream
<1>22. CASE GetRequest
  <2>1. /\ fpc = "getRequest" /\ fReq # "none" /\ fpc' \in {"reply", "exit"}
        /\ fpc' = "reply" <=> fReq = "seek"
        /\ UNCHANGED <<apc, apin, aop, stopped, fReq, fDone, fThread, fEndFlush, pThread, pReq, pDone>>
    <3> HIDE DEF Control, SeekInv, Threads
    <3> QED
      BY <1>22 DEF GetRequest
  <2> QED
    BY <2>1, <1>0, <1>1
<1>23. CASE Exit
  BY <1>0, <1>1, <1>23 DEF Exit, Reply
<1>24. ASSUME NEW p \in Pins, PinStart(p) PROVE Control'
  BY <1>0, <1>1, <1>24 DEF PinStart
<1>25. ASSUME NEW p \in Pins, PinTop(p) PROVE Control'
  <2>1. /\ UNCHANGED <<apc, apin, aop, stopped, fReq, fDone, fpc, fThread, fEndFlush>>
        /\ \/ /\ pReq[p] /\ pThread' = [pThread EXCEPT ![p] = FALSE]
              /\ pReq' = [pReq EXCEPT ![p] = FALSE] /\ pDone' = [pDone EXCEPT ![p] = TRUE]
           \/ UNCHANGED <<pThread, pReq, pDone>>
    <3> HIDE DEF Control, SeekInv, Threads
    <3> QED
      BY <1>25 DEF PinTop
  <2> QED
    BY <2>1, <1>0, <1>1
<1>26. ASSUME NEW p \in Pins, PinTake(p) PROVE Control'
  BY <1>0, <1>1, <1>26 DEF PinTake
<1>27. ASSUME NEW p \in Pins, PinCheck(p) PROVE Control'
  BY <1>0, <1>1, <1>27 DEF PinCheck, AgainOrTop
<1>28. ASSUME NEW p \in Pins, PinMark(p) PROVE Control'
  BY <1>0, <1>1, <1>28 DEF PinMark
<1>29. ASSUME NEW p \in Pins, PinDeliver(p) PROVE Control'
  BY <1>0, <1>1, <1>29 DEF PinDeliver, DeliveryEnds
<1>30. ASSUME NEW p \in Pins, PinFail(p) PROVE Control'
  BY <1>0, <1>1, <1>30 DEF PinFail, DeliveryEnds
<1>31. ASSUME NEW p \in Pins, PinWaitEndFlush(p) PROVE Control'
  BY <1>0, <1>1, <1>31 DEF PinWaitEndFlush
<1>32. ASSUME NEW p \in Pins, PinReport(p) PROVE Control'
  BY <1>0, <1>1, <1>32 DEF PinReport, AgainOrTop
<1>33. CASE UNCHANGED vars
  BY <1>0, <1>1, <1>33 DEF vars
<1> QED
  BY <1>2, <1>3, <1>4, <1>5, <1>6, <1>7, <1>8, <1>9, <1>10, <1>11, <1>12, <1>13, <1>14, <1>15, <1>16,
     <1>17, <1>18, <1>19, <1>20, <1>21, <1>22, <1>23, <1>24, <1>25, <1>26, <1>27, <1>28, <1>29, <1>30, <1>31,
     <1>32, <1>33 DEF Next, App, AppStep, Filter, Pin

\* Every step keeps the position that is read from the one asked for last, or the
\* application in the operation that asks for it.
LEMMA SeekStep ==
  ASSUME ~MayTimeOut, Types, Threads, Control, SeekInv, [Next]_vars
  PROVE  SeekInv'
<1> USE DEF Threads, Control, SeekInv, Unanswered, BeginPhases, EndPhases, LoopPlaces, PacketPlaces, EosPlaces,
            avars, freq, fvars, preq, pflags, plocal, dvars, FilterUnchanged, PinUnchanged, To
<1>0. /\ graph' = graph /\ NumPins' = NumPins /\ Pins' = Pins /\ Eos' = Eos
      /\ MayTimeOut' = MayTimeOut /\ MayFail' = MayFail
  BY SameGraph
<1>1. /\ fThread \in BOOLEAN /\ fDone \in BOOLEAN /\ fEndFlush \in BOOLEAN
      /\ ppc \in [Pins -> PinPlaces] /\ pThread \in [Pins -> BOOLEAN]
      /\ pReq \in [Pins -> BOOLEAN] /\ pDone \in [Pins -> BOOLEAN]
      /\ fReq \in {"none", "seek", "exit"} /\ aop \in {"none", "seek", "stop"}
  BY DEF Types, AppTypes, FilterTypes, PinTypes
<1>2. CASE Pause
  BY <1>0, <1>1, <1>2 DEF Pause
<1>3. CASE Seek
  <2>1. /\ apc = "idle" /\ UNCHANGED <<rtStart, fpc>>
        /\ \/ fThread /\ aop' = "seek" /\ apc' = "filterFlushing"
           \/ ~fThread /\ UNCHANGED <<aop, apc>>
    <3> HIDE DEF Control, SeekInv, Threads
    <3> QED
      BY <1>3 DEF Seek
  <2> QED
    BY <2>1, <1>0, <1>1
<1>4. CASE Stop
  BY <1>0, <1>1, <1>4 DEF Stop
<1>5. CASE BeginFlushFilter
  BY <1>0, <1>1, <1>5 DEF BeginFlushFilter
<1>6. ASSUME NEW p \in Pins, BeginFlushPin(p) PROVE SeekInv'
  BY <1>0, <1>1, <1>6 DEF BeginFlushPin, SetPinEndFlush, RemoveAll
<1>7. CASE CallWorker
  <2>1. /\ apc = "call" /\ UNCHANGED <<aop, fDone, fpc, rtStart, rtNewStart>>
        /\ \/ fThread /\ apc' = "wait"
           \/ ~fThread
    <3> HIDE DEF Control, SeekInv, Threads
    <3> QED
      BY <1>7 DEF CallWorker
  <2> QED
    BY <2>1, <1>0, <1>1
<1>8. CASE WorkerReplied
  BY <1>0, <1>1, <1>8 DEF WorkerReplied, EndWait
<1>9. ASSUME NEW p \in Pins, EndFlushPin(p) PROVE SeekInv'
  BY <1>0, <1>1, <1>9 DEF EndFlushPin, SetPinEndFlush
<1>10. CASE EndFlushFilter
  BY <1>0, <1>1, <1>10 DEF EndFlushFilter, SetEndFlush
<1>11. ASSUME NEW p \in Pins, InactivePin(p) PROVE SeekInv'
  BY <1>0, <1>1, <1>11 DEF InactivePin, EndPinWait
<1>12. CASE Start
  BY <1>0, <1>1, <1>12 DEF Start
<1>13. CASE Started
  BY <1>0, <1>1, <1>13 DEF Started
<1>14. CASE InitFailed
  BY <1>0, <1>1, <1>14 DEF InitFailed, Reply
<1>15. CASE DemuxSeek
  BY <1>0, <1>1, <1>15 DEF DemuxSeek, Reply
<1>16. CASE WaitEndFlush
  BY <1>0, <1>1, <1>16 DEF WaitEndFlush
<1>17. CASE NewSegment
  BY <1>0, <1>1, <1>17 DEF NewSegment
<1>18. CASE DemuxLoop
  BY <1>0, <1>1, <1>18 DEF DemuxLoop
<1>19. CASE QueuePacket
  BY <1>0, <1>1, <1>19 DEF QueuePacket, Add
<1>20. CASE DeliverPacket
  BY <1>0, <1>1, <1>20 DEF DeliverPacket, OtherPins
<1>21. CASE QueueEndOfStream
  BY <1>0, <1>1, <1>21 DEF QueueEndOfStream
<1>22. CASE GetRequest
  BY <1>0, <1>1, <1>22 DEF GetRequest
<1>23. CASE Exit
  BY <1>0, <1>1, <1>23 DEF Exit, Reply
<1>24. ASSUME NEW p \in Pins, PinStart(p) PROVE SeekInv'
  BY <1>0, <1>1, <1>24 DEF PinStart
<1>25. ASSUME NEW p \in Pins, PinTop(p) PROVE SeekInv'
  BY <1>0, <1>1, <1>25 DEF PinTop
<1>26. ASSUME NEW p \in Pins, PinTake(p) PROVE SeekInv'
  BY <1>0, <1>1, <1>26 DEF PinTake
<1>27. ASSUME NEW p \in Pins, PinCheck(p) PROVE SeekInv'
  BY <1>0, <1>1, <1>27 DEF PinCheck, AgainOrTop
<1>28. ASSUME NEW p \in Pins, PinMark(p) PROVE SeekInv'
  BY <1>0, <1>1, <1>28 DEF PinMark
<1>29. ASSUME NEW p \in Pins, PinDeliver(p) PROVE SeekInv'
  BY <1>0, <1>1, <1>29 DEF PinDeliver, DeliveryEnds
<1>30. ASSUME NEW p \in Pins, PinFail(p) PROVE SeekInv'
  BY <1>0, <1>1, <1>30 DEF PinFail, DeliveryEnds
<1>31. ASSUME NEW p \in Pins, PinWaitEndFlush(p) PROVE SeekInv'
  BY <1>0, <1>1, <1>31 DEF PinWaitEndFlush
<1>32. ASSUME NEW p \in Pins, PinReport(p) PROVE SeekInv'
  BY <1>0, <1>1, <1>32 DEF PinReport, AgainOrTop
<1>33. CASE UNCHANGED vars
  BY <1>0, <1>1, <1>33 DEF vars
<1> QED
  BY <1>2, <1>3, <1>4, <1>5, <1>6, <1>7, <1>8, <1>9, <1>10, <1>11, <1>12, <1>13, <1>14, <1>15, <1>16,
     <1>17, <1>18, <1>19, <1>20, <1>21, <1>22, <1>23, <1>24, <1>25, <1>26, <1>27, <1>28, <1>29, <1>30, <1>31,
     <1>32, <1>33 DEF Next, App, AppStep, Filter, Pin

\* Every step keeps a pin's queue within its cap, in whatever order the flags of a
\* flush are written and read, and whether or not a CallWorker is given up.
LEMMA QueueStep ==
  ASSUME NEW p \in Pins, Types, Threads, CInv, QueueInv(p), [Next]_vars
  PROVE  QueueInv(p)'
<1> USE DEF QueueInv, Fits, At, Emptied, EmptiedBefore, Untouched, BeginPhases, EndPhases,
            avars, freq, fvars, preq, pflags, plocal, dvars, FilterUnchanged, PinUnchanged, To
<1>0. /\ graph' = graph /\ NumPins' = NumPins /\ Pins' = Pins /\ Eos' = Eos
      /\ MayTimeOut' = MayTimeOut /\ MayFail' = MayFail
  BY SameGraph
<1>1. /\ p \in Nat /\ p > 0 /\ NumPins \in Nat /\ p <= NumPins /\ HardCap \in Nat /\ HardCap > 0
      /\ apin \in Nat /\ Len(queue[p]) \in Nat
      /\ apc \in PinPhases \cup {"wait"} => apin \in Pins
      /\ ppc \in [Pins -> PinPlaces] /\ hrDeliver \in [Pins -> Results] /\ hr \in [Pins -> Results]
      /\ queue \in [Pins -> Seq(Some)] /\ fpin \in Nat /\ fDone \in BOOLEAN
      /\ lateStart \in SUBSET Pins /\ pThread \in [Pins -> BOOLEAN] /\ pReq \in [Pins -> BOOLEAN]
      /\ MayTimeOut \in BOOLEAN
  BY Graph, SplitterAssumption DEF Types, AppTypes, FilterTypes, PinTypes, PacketTypes
<1>2. CASE Pause
  <2>1. apc = "idle" /\ apc' = "idle" /\ UNCHANGED <<queue, lateStart, fpin, hrDeliver, hr>>
    BY <1>2 DEF Pause
  <2>2. ppc'[p] = ppc[p] \/ (ppc[p] = "none" /\ ppc'[p] = "start")
    BY <1>2, <1>1 DEF Pause, Threads
  <2>3. fpc' = fpc \/ fpc' = "start"
    BY <1>2 DEF Pause
  <2> QED
    BY <2>1, <2>2, <2>3, <1>0, <1>1
<1>3. CASE Seek
  BY <1>0, <1>1, <1>3 DEF Seek
<1>4. CASE Stop
  BY <1>0, <1>1, <1>4 DEF Stop
<1>5. CASE BeginFlushFilter
  <2>1. /\ apc = "filterFlushing" /\ apc' = "resetEnd" /\ apin' = 1
        /\ UNCHANGED <<queue, lateStart, fpc, fpin, ppc, hr, hrDeliver>>
    BY <1>5 DEF BeginFlushFilter
  <2> QED
    BY <2>1, <1>0, <1>1
<1>6. ASSUME NEW q \in Pins, BeginFlushPin(q) PROVE QueueInv(p)'
  BY <1>0, <1>1, <1>6 DEF BeginFlushPin, SetPinEndFlush, RemoveAll
<1>7. CASE CallWorker
  BY <1>0, <1>1, <1>7 DEF CallWorker
<1>8. CASE WorkerReplied
  BY <1>0, <1>1, <1>8 DEF WorkerReplied, EndWait
<1>9. ASSUME NEW q \in Pins, EndFlushPin(q) PROVE QueueInv(p)'
  <2>1. UNCHANGED <<queue, lateStart, fpc, fpin, ppc, hr>> /\ q = apin
    BY <1>9 DEF EndFlushPin
  <2>2. \/ apc = "endDown" /\ apin' = q + 1 /\ apc' \in {"filterFlushed", "endDown"} /\ hrDeliver' = hrDeliver
        \/ apc = "endDown" /\ apin' = q /\ apc' = "endResult" /\ hrDeliver' = hrDeliver
        \/ /\ apc = "endResult" /\ apc' = "endFlushing" /\ apin' = q
           /\ hrDeliver' = [hrDeliver EXCEPT ![q] = "ok"]
        \/ /\ apc \in {"endFlushing", "endFlushed"} /\ apc' \in {"endFlushed", "endSet"}
           /\ apin' = q /\ hrDeliver' = hrDeliver
        \/ apc = "endSet" /\ apin' = q + 1 /\ apc' \in {"filterFlushed", "endDown"} /\ hrDeliver' = hrDeliver
    BY <1>9 DEF EndFlushPin
  <2>3. ~MayTimeOut => ~At(p, "check", "eosCheck") /\ ~At(p, "add", "eosAdd")
    BY <1>9 DEF EndFlushPin, CInv, Control, Answered
  <2>4. CASE apc = "endResult" /\ q = p
    <3> QED
      BY <2>1, <2>2, <2>3, <2>4, <1>0, <1>1
  <2>5. CASE ~(apc = "endResult" /\ q = p)
    <3>1. hrDeliver'[p] = hrDeliver[p]
      BY <2>2, <2>5, <1>1
    <3> QED
      BY <2>1, <2>2, <2>3, <3>1, <1>0, <1>1
  <2> QED
    BY <2>4, <2>5
<1>10. CASE EndFlushFilter
  BY <1>0, <1>1, <1>10 DEF EndFlushFilter, SetEndFlush
<1>11. ASSUME NEW q \in Pins, InactivePin(q) PROVE QueueInv(p)'
  BY <1>0, <1>1, <1>11 DEF InactivePin, EndPinWait
<1>12. CASE Start
  BY <1>0, <1>1, <1>12 DEF Start
<1>13. CASE Started
  BY <1>0, <1>1, <1>13 DEF Started
<1>14. CASE InitFailed
  BY <1>0, <1>1, <1>14 DEF InitFailed, Reply
<1>15. CASE DemuxSeek
  BY <1>0, <1>1, <1>15 DEF DemuxSeek, Reply
<1>16. CASE WaitEndFlush
  BY <1>0, <1>1, <1>16 DEF WaitEndFlush
<1>17. CASE NewSegment
  BY <1>0, <1>1, <1>17 DEF NewSegment
<1>18. CASE DemuxLoop
  BY <1>0, <1>1, <1>18 DEF DemuxLoop
<1>19. CASE QueuePacket
  <2>1. UNCHANGED <<apc, apin, hr, hrDeliver, lateStart, ppc>> /\ fpin \in Pins
    BY <1>19 DEF QueuePacket, Types, FilterTypes, PacketPlaces, EosPinPlaces
  <2>2. CASE fpc \in {"queue", "eosQueue"}
    <3>1. UNCHANGED <<queue, fpin>> /\ fpc' \in {"check", "eosCheck"}
      BY <2>2, <1>19 DEF QueuePacket
    <3>2. hrDeliver[fpin] # "ok" \/ Len(queue[fpin]) <= HardCap
      BY <2>2, <1>19 DEF QueuePacket, CanQueue
    <3> QED
      BY <3>1, <3>2, <2>1, <2>2, <1>0, <1>1
  <2>3. CASE fpc \in {"check", "eosCheck"}
    <3>1. /\ UNCHANGED queue
          /\ \/ hrDeliver[fpin] = "ok" /\ UNCHANGED fpin /\ fpc' \in {"add", "eosAdd"}
             \/ fpc' \in {"queued", "eos"}
      BY <2>3, <1>19 DEF QueuePacket
    <3> QED
      BY <3>1, <2>1, <2>3, <1>0, <1>1
  <2>4. CASE fpc \in {"add", "eosAdd"}
    <3>1. fpc' \in {"queued", "eos"}
      BY <2>4, <1>19 DEF QueuePacket
    <3>2. queue' = [queue EXCEPT ![fpin] = Append(queue[fpin], <<round, Queued, fpin>>)]
      BY <2>4, <1>19 DEF QueuePacket, Add
    <3>3. <<round, Queued, fpin>> \in Some
      BY <2>1, Graph, QueuedIsNat DEF Some, Types, FilterTypes
    <3>4. Len(Append(queue[fpin], <<round, Queued, fpin>>)) = Len(queue[fpin]) + 1
      BY <3>3, <1>1, <2>1, AppendProperties
    <3>5. Len(queue'[p]) = IF p = fpin THEN Len(queue[p]) + 1 ELSE Len(queue[p])
      BY <3>2, <3>4, <1>1
    <3> QED
      BY <3>1, <3>5, <2>1, <2>4, <1>0, <1>1
  <2> QED
    BY <2>2, <2>3, <2>4, <1>19 DEF QueuePacket
<1>20. CASE DeliverPacket
  BY <1>0, <1>1, <1>20 DEF DeliverPacket, OtherPins
<1>21. CASE QueueEndOfStream
  BY <1>0, <1>1, <1>21 DEF QueueEndOfStream
<1>22. CASE GetRequest
  BY <1>0, <1>1, <1>22 DEF GetRequest
<1>23. CASE Exit
  BY <1>0, <1>1, <1>23 DEF Exit, Reply
<1>24. ASSUME NEW q \in Pins, PinStart(q) PROVE QueueInv(p)'
  <2>1. UNCHANGED <<queue, apc, apin, fpc, fpin, hr>>
    BY <1>24 DEF PinStart
  <2>2. lateStart' = IF apc = "idle" /\ hrDeliver[q] = "ok" THEN lateStart ELSE lateStart \cup {q}
    BY <1>24 DEF PinStart
  <2>3. \/ /\ ppc[q] = "start" /\ ppc' = [ppc EXCEPT ![q] = "startFlags"]
           /\ hrDeliver' = [hrDeliver EXCEPT ![q] = "ok"]
        \/ /\ ppc[q] \in {"startFlags", "startSet"} /\ hrDeliver' = hrDeliver
           /\ \E l \in {"startSet", "top"} : ppc' = [ppc EXCEPT ![q] = l]
    BY <1>24 DEF PinStart
  <2>4. CASE q # p
    <3>1. hrDeliver'[p] = hrDeliver[p] /\ ppc'[p] = ppc[p] /\ (p \in lateStart' <=> p \in lateStart)
      BY <2>2, <2>3, <2>4, <1>1
    <3> QED
      BY <3>1, <2>1, <1>0, <1>1
  <2>5. CASE q = p /\ ppc[p] = "start"
    <3>1. hrDeliver'[p] = "ok" /\ ppc'[p] = "startFlags"
      BY <2>3, <2>5, <1>1
    <3>2. p \notin lateStart' => apc = "idle" /\ hrDeliver[p] = "ok" /\ p \notin lateStart
      BY <2>2, <2>5
    <3>3. ~MayTimeOut /\ EmptiedBefore /\ ~Emptied(p) => ~At(p, "check", "eosCheck")
      BY <1>1 DEF CInv, Control, Answered
    <3>4. Fits(p, HardCap) \/ MayTimeOut
      BY <2>5
    <3> QED
      BY <3>1, <3>2, <3>3, <3>4, <2>1, <2>5, <1>0, <1>1
  <2>6. CASE q = p /\ ppc[p] # "start"
    <3>1. hrDeliver'[p] = hrDeliver[p] /\ ppc'[p] \in {"startSet", "top"} /\ ppc[p] \in {"startFlags", "startSet"}
      BY <2>3, <2>6, <1>1
    <3>2. p \notin lateStart' => p \notin lateStart
      BY <2>2
    <3> QED
      BY <3>1, <3>2, <2>1, <2>6, <1>0, <1>1
  <2> QED
    BY <2>4, <2>5, <2>6
<1>25. ASSUME NEW q \in Pins, PinTop(q) PROVE QueueInv(p)'
  <2>1. UNCHANGED <<queue, apc, apin, fpc, fpin, hr, hrDeliver, lateStart>>
    BY <1>25 DEF PinTop
  <2>2. ppc[q] = "top" /\ (ppc' = [ppc EXCEPT ![q] = "take"] \/ (pReq[q] /\ ppc' = [ppc EXCEPT ![q] = "none"]))
    BY <1>25 DEF PinTop
  <2>3. ~MayTimeOut /\ pReq[q] => apc = "inactiveWait"
    BY DEF CInv, Control
  <2> QED
    BY <2>1, <2>2, <2>3, <1>0, <1>1
<1>26. ASSUME NEW q \in Pins, PinTake(q) PROVE QueueInv(p)'
  BY <1>0, <1>1, <1>26 DEF PinTake
<1>27. ASSUME NEW q \in Pins, PinCheck(q) PROVE QueueInv(p)'
  BY <1>0, <1>1, <1>27 DEF PinCheck, AgainOrTop
<1>28. ASSUME NEW q \in Pins, PinMark(q) PROVE QueueInv(p)'
  BY <1>0, <1>1, <1>28 DEF PinMark
<1>29. ASSUME NEW q \in Pins, PinDeliver(q) PROVE QueueInv(p)'
  BY <1>0, <1>1, <1>29 DEF PinDeliver, DeliveryEnds
<1>30. ASSUME NEW q \in Pins, PinFail(q) PROVE QueueInv(p)'
  BY <1>0, <1>1, <1>30 DEF PinFail, DeliveryEnds
<1>31. ASSUME NEW q \in Pins, PinWaitEndFlush(q) PROVE QueueInv(p)'
  BY <1>0, <1>1, <1>31 DEF PinWaitEndFlush
<1>32. ASSUME NEW q \in Pins, PinReport(q) PROVE QueueInv(p)'
  BY <1>0, <1>1, <1>32 DEF PinReport, AgainOrTop
<1>33. CASE UNCHANGED vars
  BY <1>0, <1>1, <1>33 DEF vars
<1> QED
  BY <1>2, <1>3, <1>4, <1>5, <1>6, <1>7, <1>8, <1>9, <1>10, <1>11, <1>12, <1>13, <1>14, <1>15, <1>16,
     <1>17, <1>18, <1>19, <1>20, <1>21, <1>22, <1>23, <1>24, <1>25, <1>26, <1>27, <1>28, <1>29, <1>30, <1>31,
     <1>32, <1>33 DEF Next, App, AppStep, Filter, Pin

------------------------------------------------------------------------------
(* Rounds.                                                                 *)

\* A step that leaves a pin's packets alone, and begins no round, keeps the pin's
\* round invariant.
LEMMA RoundFrame ==
  ASSUME NEW p \in Pins, Types, RoundInv(p), round' = round,
         queue'[p] = queue[p], last'[p] = last[p], segment'[p] = segment[p],
         stale'[p] = stale[p],
         fpc' \in SeekPlaces \cup {"newSegment"} => fpc \in SeekPlaces \cup {"newSegment"},
         fpc' \in {"waitFlush", "newSegment"} =>
             fpc \in {"waitFlush", "newSegment"} /\ nextPacket'[p] = nextPacket[p],
         ppc'[p] \in HandPlaces => ppc[p] \in HandPlaces /\ hand'[p] = hand[p],
         Held(p)' => Held(p)
  PROVE  RoundInv(p)'
<1>1. /\ stale[p] \in Nat /\ segment[p] \in Nat /\ round \in Nat
      /\ ppc[p] \in HandPlaces => hand[p] \in Some
  BY DEF Types, PacketTypes, FilterTypes
<1>2. Held(p)' => ppc'[p] \in HandPlaces /\ hand'[p] = hand[p]
  BY DEF Held, HandPlaces
<1>3. Short(p)'
  BY DEF RoundInv, Short
<1>4. Sound(p)'
  BY DEF RoundInv, Sound
<1>5. FewStale(p)'
  <2>1. FewStale(p)
    BY DEF RoundInv
  <2> QED
    BY <2>1, <1>1, <1>2 DEF FewStale, Older
<1>6. InOrder(p)'
  BY <1>2 DEF RoundInv, InOrder, Of
<1>7. Fresh(p)'
  BY DEF RoundInv, Fresh, Of
<1> QED
  BY <1>3, <1>4, <1>5, <1>6, <1>7 DEF RoundInv

\* What Add does to a queue.
LEMMA Appended ==
  ASSUME NEW S, NEW s \in Seq(S), NEW e \in S
  PROVE  /\ Len(s) \in Nat /\ Len(Append(s, e)) = Len(s) + 1 /\ Append(s, e) # <<>>
         /\ \A i \in 1 .. Len(s) : Append(s, e)[i] = s[i]
         /\ Append(s, e)[Len(s) + 1] = e
         /\ s = <<>> <=> Len(s) = 0
<1>1. Len(s) \in Nat
  BY LenProperties
<1>2. s = <<>> <=> Len(s) = 0
  BY EmptySeq
<1> QED
  BY <1>1, <1>2, AppendProperties

\* What taking the head of a queue leaves.
LEMMA Taken ==
  ASSUME NEW S, NEW s \in Seq(S), s # <<>>
  PROVE  /\ Len(s) \in Nat /\ Len(s) > 0 /\ Len(Tail(s)) = Len(s) - 1 /\ Head(s) = s[1]
         /\ \A i \in 1 .. Len(s) - 1 : Tail(s)[i] = s[i + 1]
         /\ Tail(s) # <<>> <=> Len(s) > 1
         /\ \A i \in 1 .. Len(s) : s[i] \in S
<1>1. Len(s) \in Nat /\ Len(s) > 0
  BY EmptySeq
<1>2. Tail(s) \in Seq(S) /\ Len(Tail(s)) = Len(s) - 1
  BY HeadTailProperties
<1>3. Tail(s) # <<>> <=> Len(Tail(s)) # 0
  BY <1>2, EmptySeq
<1>4. \A i \in 1 .. Len(Tail(s)) : Tail(s)[i] = s[i + 1]
  BY HeadTailProperties
<1>5. Head(s) = s[1]
  OBVIOUS
<1>6. \A i \in 1 .. Len(s) : s[i] \in S
  BY ElementOfSeq
<1> QED
  BY <1>1, <1>2, <1>3, <1>4, <1>5, <1>6

\* Every step keeps the round invariant of a pin that did not start late: at most
\* two packets of an older round get through after a new segment.
LEMMA RoundStep ==
  ASSUME NEW p \in Pins, Types, Threads, ~MayTimeOut, Control, QueueInv(p),
         RoundInv(p), p \notin lateStart', [Next]_vars
  PROVE  RoundInv(p)'
<1> USE DEF None,
            avars, freq, fvars, preq, pflags, plocal, dvars, FilterUnchanged, PinUnchanged, To
<1>0. /\ graph' = graph /\ NumPins' = NumPins /\ Pins' = Pins /\ Eos' = Eos
      /\ MayTimeOut' = MayTimeOut /\ MayFail' = MayFail
  BY SameGraph
<1>1. /\ ppc \in [Pins -> PinPlaces] /\ hand \in [Pins -> Some \cup {None}]
      /\ last \in [Pins -> Some \cup {None}] /\ queue \in [Pins -> Seq(Some)]
      /\ segment \in [Pins -> Nat] /\ stale \in [Pins -> Nat] /\ nextPacket \in [Pins -> Nat]
      /\ round \in Nat /\ pThread \in [Pins -> BOOLEAN]
      /\ \A q \in Pins : ppc[q] \in HandPlaces => hand[q] \in Some
      /\ \A q \in Pins : pThread[q] <=> ppc[q] # "none"
  BY DEF Types, FilterTypes, PinTypes, PacketTypes, Threads
<1>2. CASE Pause
  <2>1. /\ round' = round /\ queue' = queue /\ last' = last /\ segment' = segment
        /\ stale' = stale /\ nextPacket' = nextPacket /\ hand' = hand
        /\ fpc' = fpc \/ (fpc = "none" /\ fpc' = "start")
    BY <1>2 DEF Pause, Threads
  <2>2. ppc'[p] = ppc[p] \/ ppc'[p] = "start"
    BY <1>2 DEF Pause
  <2>3. /\ ppc'[p] \in HandPlaces => ppc[p] \in HandPlaces
        /\ Held(p)' => Held(p)
    BY <2>2 DEF HandPlaces, Held
  <2>4. fpc' \in SeekPlaces \cup {"newSegment"} => fpc \in SeekPlaces \cup {"newSegment"}
    BY <2>1 DEF SeekPlaces
  <2> QED
    BY <2>1, <2>3, <2>4, RoundFrame
<1>3. CASE Seek
  <2>1. /\ round' = round /\ queue'[p] = queue[p] /\ last'[p] = last[p]
        /\ segment'[p] = segment[p] /\ stale'[p] = stale[p]
        /\ fpc' \in SeekPlaces \cup {"newSegment"} => fpc \in SeekPlaces \cup {"newSegment"}
        /\ fpc' \in {"waitFlush", "newSegment"} =>
             fpc \in {"waitFlush", "newSegment"} /\ nextPacket'[p] = nextPacket[p]
        /\ ppc'[p] \in HandPlaces => ppc[p] \in HandPlaces /\ hand'[p] = hand[p]
        /\ Held(p)' => Held(p)
    BY <1>0, <1>1, <1>3 DEF Seek, Held, HandPlaces, SeekPlaces
  <2> QED
    BY <2>1, RoundFrame
<1>4. CASE Stop
  <2>1. /\ round' = round /\ queue'[p] = queue[p] /\ last'[p] = last[p]
        /\ segment'[p] = segment[p] /\ stale'[p] = stale[p]
        /\ fpc' \in SeekPlaces \cup {"newSegment"} => fpc \in SeekPlaces \cup {"newSegment"}
        /\ fpc' \in {"waitFlush", "newSegment"} =>
             fpc \in {"waitFlush", "newSegment"} /\ nextPacket'[p] = nextPacket[p]
        /\ ppc'[p] \in HandPlaces => ppc[p] \in HandPlaces /\ hand'[p] = hand[p]
        /\ Held(p)' => Held(p)
    BY <1>0, <1>1, <1>4 DEF Stop, Held, HandPlaces, SeekPlaces
  <2> QED
    BY <2>1, RoundFrame
<1>5. CASE BeginFlushFilter
  <2>1. /\ round' = round /\ queue'[p] = queue[p] /\ last'[p] = last[p]
        /\ segment'[p] = segment[p] /\ stale'[p] = stale[p]
        /\ fpc' \in SeekPlaces \cup {"newSegment"} => fpc \in SeekPlaces \cup {"newSegment"}
        /\ fpc' \in {"waitFlush", "newSegment"} =>
             fpc \in {"waitFlush", "newSegment"} /\ nextPacket'[p] = nextPacket[p]
        /\ ppc'[p] \in HandPlaces => ppc[p] \in HandPlaces /\ hand'[p] = hand[p]
        /\ Held(p)' => Held(p)
    BY <1>0, <1>1, <1>5 DEF BeginFlushFilter, Held, HandPlaces, SeekPlaces
  <2> QED
    BY <2>1, RoundFrame
<1>6. ASSUME NEW q \in Pins, BeginFlushPin(q) PROVE RoundInv(p)'
  <2>1. CASE apc = "removeAll" /\ q = p
    <3>1. /\ queue'[p] = <<>> /\ Len(queue'[p]) = 0
          /\ UNCHANGED <<round, fpc, last, segment, stale, ppc, hand, nextPacket>>
      <4>1. queue' = [queue EXCEPT ![p] = <<>>]
        BY <2>1, <1>6 DEF BeginFlushPin, RemoveAll
      <4> QED
        BY <4>1, <1>1, <1>6, EmptySeq DEF BeginFlushPin
    <3>2. Short(p)'
      BY <3>1 DEF Short
    <3>3. Sound(p)'
      BY <3>1 DEF RoundInv, Sound
    <3>4. FewStale(p)'
      BY <3>1, <1>1 DEF RoundInv, FewStale, Older, Held, HandPlaces
    <3>5. InOrder(p)'
      BY <3>1 DEF RoundInv, InOrder, Held
    <3>6. Fresh(p)'
      BY <3>1 DEF RoundInv, Fresh
    <3> QED
      BY <3>2, <3>3, <3>4, <3>5, <3>6 DEF RoundInv
  <2>2. CASE ~(apc = "removeAll" /\ q = p)
    <3>1. UNCHANGED <<round, fpc, last, segment, stale, ppc, hand, nextPacket>>
      BY <1>6 DEF BeginFlushPin
    <3>2. queue'[p] = queue[p]
      BY <2>2, <1>6, <1>1 DEF BeginFlushPin, RemoveAll
    <3> QED
      BY <3>1, <3>2, RoundFrame DEF Held
  <2> QED
    BY <2>1, <2>2
<1>7. CASE CallWorker
  <2>1. /\ round' = round /\ queue'[p] = queue[p] /\ last'[p] = last[p]
        /\ segment'[p] = segment[p] /\ stale'[p] = stale[p]
        /\ fpc' \in SeekPlaces \cup {"newSegment"} => fpc \in SeekPlaces \cup {"newSegment"}
        /\ fpc' \in {"waitFlush", "newSegment"} =>
             fpc \in {"waitFlush", "newSegment"} /\ nextPacket'[p] = nextPacket[p]
        /\ ppc'[p] \in HandPlaces => ppc[p] \in HandPlaces /\ hand'[p] = hand[p]
        /\ Held(p)' => Held(p)
    BY <1>0, <1>1, <1>7 DEF CallWorker, Held, HandPlaces, SeekPlaces
  <2> QED
    BY <2>1, RoundFrame
<1>8. CASE WorkerReplied
  <2>1. /\ round' = round /\ queue'[p] = queue[p] /\ last'[p] = last[p]
        /\ segment'[p] = segment[p] /\ stale'[p] = stale[p]
        /\ fpc' \in SeekPlaces \cup {"newSegment"} => fpc \in SeekPlaces \cup {"newSegment"}
        /\ fpc' \in {"waitFlush", "newSegment"} =>
             fpc \in {"waitFlush", "newSegment"} /\ nextPacket'[p] = nextPacket[p]
        /\ ppc'[p] \in HandPlaces => ppc[p] \in HandPlaces /\ hand'[p] = hand[p]
        /\ Held(p)' => Held(p)
    BY <1>0, <1>1, <1>8 DEF WorkerReplied, EndWait, Held, HandPlaces, SeekPlaces
  <2> QED
    BY <2>1, RoundFrame
<1>9. ASSUME NEW q \in Pins, EndFlushPin(q) PROVE RoundInv(p)'
  <2>1. /\ round' = round /\ queue'[p] = queue[p] /\ last'[p] = last[p]
        /\ segment'[p] = segment[p] /\ stale'[p] = stale[p]
        /\ fpc' \in SeekPlaces \cup {"newSegment"} => fpc \in SeekPlaces \cup {"newSegment"}
        /\ fpc' \in {"waitFlush", "newSegment"} =>
             fpc \in {"waitFlush", "newSegment"} /\ nextPacket'[p] = nextPacket[p]
        /\ ppc'[p] \in HandPlaces => ppc[p] \in HandPlaces /\ hand'[p] = hand[p]
        /\ Held(p)' => Held(p)
    BY <1>0, <1>1, <1>9 DEF EndFlushPin, SetPinEndFlush, Held, HandPlaces, SeekPlaces
  <2> QED
    BY <2>1, RoundFrame
<1>10. CASE EndFlushFilter
  <2>1. /\ round' = round /\ queue'[p] = queue[p] /\ last'[p] = last[p]
        /\ segment'[p] = segment[p] /\ stale'[p] = stale[p]
        /\ fpc' \in SeekPlaces \cup {"newSegment"} => fpc \in SeekPlaces \cup {"newSegment"}
        /\ fpc' \in {"waitFlush", "newSegment"} =>
             fpc \in {"waitFlush", "newSegment"} /\ nextPacket'[p] = nextPacket[p]
        /\ ppc'[p] \in HandPlaces => ppc[p] \in HandPlaces /\ hand'[p] = hand[p]
        /\ Held(p)' => Held(p)
    BY <1>0, <1>1, <1>10 DEF EndFlushFilter, SetEndFlush, Held, HandPlaces, SeekPlaces
  <2> QED
    BY <2>1, RoundFrame
<1>11. ASSUME NEW q \in Pins, InactivePin(q) PROVE RoundInv(p)'
  <2>1. /\ round' = round /\ queue'[p] = queue[p] /\ last'[p] = last[p]
        /\ segment'[p] = segment[p] /\ stale'[p] = stale[p]
        /\ fpc' \in SeekPlaces \cup {"newSegment"} => fpc \in SeekPlaces \cup {"newSegment"}
        /\ fpc' \in {"waitFlush", "newSegment"} =>
             fpc \in {"waitFlush", "newSegment"} /\ nextPacket'[p] = nextPacket[p]
        /\ ppc'[p] \in HandPlaces => ppc[p] \in HandPlaces /\ hand'[p] = hand[p]
        /\ Held(p)' => Held(p)
    BY <1>0, <1>1, <1>11 DEF InactivePin, EndPinWait, Held, HandPlaces, SeekPlaces
  <2> QED
    BY <2>1, RoundFrame
<1>12. CASE Start
  <2>1. /\ round' = round /\ queue'[p] = queue[p] /\ last'[p] = last[p]
        /\ segment'[p] = segment[p] /\ stale'[p] = stale[p]
        /\ fpc' \in SeekPlaces \cup {"newSegment"} => fpc \in SeekPlaces \cup {"newSegment"}
        /\ fpc' \in {"waitFlush", "newSegment"} =>
             fpc \in {"waitFlush", "newSegment"} /\ nextPacket'[p] = nextPacket[p]
        /\ ppc'[p] \in HandPlaces => ppc[p] \in HandPlaces /\ hand'[p] = hand[p]
        /\ Held(p)' => Held(p)
    BY <1>0, <1>1, <1>12 DEF Start, Held, HandPlaces, SeekPlaces
  <2> QED
    BY <2>1, RoundFrame
<1>13. CASE Started
  <2>1. /\ round' = round /\ queue'[p] = queue[p] /\ last'[p] = last[p]
        /\ segment'[p] = segment[p] /\ stale'[p] = stale[p]
        /\ fpc' \in SeekPlaces \cup {"newSegment"} => fpc \in SeekPlaces \cup {"newSegment"}
        /\ fpc' \in {"waitFlush", "newSegment"} =>
             fpc \in {"waitFlush", "newSegment"} /\ nextPacket'[p] = nextPacket[p]
        /\ ppc'[p] \in HandPlaces => ppc[p] \in HandPlaces /\ hand'[p] = hand[p]
        /\ Held(p)' => Held(p)
    BY <1>0, <1>1, <1>13 DEF Started, Held, HandPlaces, SeekPlaces
  <2> QED
    BY <2>1, RoundFrame
<1>14. CASE InitFailed
  <2>1. /\ round' = round /\ queue'[p] = queue[p] /\ last'[p] = last[p]
        /\ segment'[p] = segment[p] /\ stale'[p] = stale[p]
        /\ fpc' \in SeekPlaces \cup {"newSegment"} => fpc \in SeekPlaces \cup {"newSegment"}
        /\ fpc' \in {"waitFlush", "newSegment"} =>
             fpc \in {"waitFlush", "newSegment"} /\ nextPacket'[p] = nextPacket[p]
        /\ ppc'[p] \in HandPlaces => ppc[p] \in HandPlaces /\ hand'[p] = hand[p]
        /\ Held(p)' => Held(p)
    BY <1>0, <1>1, <1>14 DEF InitFailed, Reply, Held, HandPlaces, SeekPlaces
  <2> QED
    BY <2>1, RoundFrame
<1>15. CASE DemuxSeek
  <2>1. /\ UNCHANGED <<queue, last, segment, stale, ppc, hand>>
        /\ round' = round + 1 /\ nextPacket'[p] = 1 /\ fpc \in {"seek", "reply"}
    BY <1>15 DEF DemuxSeek
  <2>2. Len(queue[p]) <= 1 /\ Len(queue[p]) \in Nat
    BY <2>1, <1>1 DEF RoundInv, Short, SeekPlaces
  <2>3. Short(p)'
    BY <2>1, <2>2 DEF Short
  <2>4. /\ segment[p] \in Nat
        /\ \A i \in 1 .. Len(queue[p]) : queue[p][i] \in Some
        /\ last[p] # None => last[p] \in Some
        /\ ppc[p] \in HandPlaces => hand[p] \in Some
    BY <1>1, ElementOfSeq
  <2>5. Sound(p)
    BY DEF RoundInv
  <2>6. Sound(p)'
    BY <2>1, <2>2, <2>4, <2>5, <1>1 DEF Sound, Some
  <2>7. FewStale(p)'
    BY <2>1 DEF RoundInv, FewStale, Older, Held
  <2>8. /\ ~Of(last[p], round') /\ (ppc[p] \in HandPlaces => ~Of(hand[p], round'))
        /\ queue[p] # <<>> => ~Of(queue[p][1], round')
    <3>1. queue[p] # <<>> => 1 \in 1 .. Len(queue[p])
      BY <1>1, EmptySeq
    <3> QED
      BY <3>1, <2>1, <2>4, <2>5, <1>1 DEF Sound, Of, Some
  <2>9. InOrder(p)'
    BY <2>8, <2>1 DEF InOrder, Held, HandPlaces
  <2>10. Fresh(p)'
    BY <2>8, <2>1 DEF Fresh
  <2> QED
    BY <2>3, <2>6, <2>7, <2>9, <2>10 DEF RoundInv
<1>16. CASE WaitEndFlush
  <2>1. /\ round' = round /\ queue'[p] = queue[p] /\ last'[p] = last[p]
        /\ segment'[p] = segment[p] /\ stale'[p] = stale[p]
        /\ fpc' \in SeekPlaces \cup {"newSegment"} => fpc \in SeekPlaces \cup {"newSegment"}
        /\ fpc' \in {"waitFlush", "newSegment"} =>
             fpc \in {"waitFlush", "newSegment"} /\ nextPacket'[p] = nextPacket[p]
        /\ ppc'[p] \in HandPlaces => ppc[p] \in HandPlaces /\ hand'[p] = hand[p]
        /\ Held(p)' => Held(p)
    BY <1>0, <1>1, <1>16 DEF WaitEndFlush, Held, HandPlaces, SeekPlaces
  <2> QED
    BY <2>1, RoundFrame
<1>17. CASE NewSegment
  <2>1. /\ UNCHANGED <<round, queue, last, ppc, hand, nextPacket>>
        /\ fpc = "newSegment" /\ fpc' \in {"newSegment", "demux"}
        /\ \/ segment' = [segment EXCEPT ![fpin] = round] /\ stale' = [stale EXCEPT ![fpin] = 0]
           \/ UNCHANGED <<segment, stale>>
    BY <1>17 DEF NewSegment
  <2>2. \/ segment'[p] = round /\ stale'[p] = 0
        \/ segment'[p] = segment[p] /\ stale'[p] = stale[p]
    BY <2>1, <1>1
  <2>3. CASE segment'[p] = segment[p] /\ stale'[p] = stale[p]
    BY <2>1, <2>3, RoundFrame DEF Held
  <2>4. CASE segment'[p] = round /\ stale'[p] = 0
    <3>1. Short(p)'
      BY <2>1 DEF RoundInv, Short
    <3>2. Sound(p)'
      BY <2>1, <2>4, <1>1 DEF RoundInv, Sound
    <3>3. FewStale(p)'
      BY <2>4 DEF FewStale, Older
    <3>4. InOrder(p)' /\ Fresh(p)'
      BY <2>1 DEF RoundInv, InOrder, Fresh, Held
    <3> QED
      BY <3>1, <3>2, <3>3, <3>4 DEF RoundInv
  <2> QED
    BY <2>2, <2>3, <2>4
<1>18. CASE DemuxLoop
  <2>1. /\ round' = round /\ queue'[p] = queue[p] /\ last'[p] = last[p]
        /\ segment'[p] = segment[p] /\ stale'[p] = stale[p]
        /\ fpc' \in SeekPlaces \cup {"newSegment"} => fpc \in SeekPlaces \cup {"newSegment"}
        /\ fpc' \in {"waitFlush", "newSegment"} =>
             fpc \in {"waitFlush", "newSegment"} /\ nextPacket'[p] = nextPacket[p]
        /\ ppc'[p] \in HandPlaces => ppc[p] \in HandPlaces /\ hand'[p] = hand[p]
        /\ Held(p)' => Held(p)
    BY <1>0, <1>1, <1>18 DEF DemuxLoop, Held, HandPlaces, SeekPlaces
  <2> QED
    BY <2>1, RoundFrame
<1>19. CASE QueuePacket
  <2>1. /\ UNCHANGED <<round, last, segment, stale, ppc, hand, nextPacket>>
        /\ fpc' \in {"check", "eosCheck", "add", "eosAdd", "queued", "eos"}
    BY <1>19 DEF QueuePacket
  <2>2. CASE queue' = queue
    BY <2>1, <2>2, RoundFrame DEF Held, SeekPlaces
  <2>3. CASE fpc \in {"add", "eosAdd"} /\ Add(fpin, <<round, Queued, fpin>>)
    <3>1. fpin \in Pins
      BY <2>3 DEF Types, FilterTypes, PacketPlaces, EosPinPlaces
    <3>2. CASE fpin # p
      BY <2>1, <2>3, <3>1, <3>2, <1>1, RoundFrame DEF Held, SeekPlaces, Add
    <3>3. CASE fpin = p
      <4> DEFINE packet == <<round, Queued, p>>
                 n == Len(queue[p])
      <4>1. packet \in Some /\ packet[1] = round /\ packet[3] = p
        BY <3>1, <3>3, Graph, QueuedIsNat DEF Some, Types, FilterTypes
      <4>2. queue'[p] = Append(queue[p], packet)
        BY <2>3, <3>3, <1>1 DEF Add
      <4> HIDE DEF packet
      <4>3. /\ n \in Nat /\ Len(queue'[p]) = n + 1 /\ queue'[p] # <<>>
            /\ \A i \in 1 .. n : queue'[p][i] = queue[p][i]
            /\ queue'[p][n + 1] = packet
            /\ queue[p] = <<>> <=> n = 0
        BY <4>1, <4>2, <1>1, Appended
      <4> HIDE DEF n
      <4>4. n = 0 \/ queue'[p][1] = queue[p][1]
        BY <4>3
      <4>5. n = 0 => queue'[p][1] = packet
        BY <4>3
      <4>6. Short(p)' /\ Fresh(p)'
        BY <2>1 DEF Short, Fresh, SeekPlaces
      <4>7. Sound(p)'
        <5>1. Sound(p)
          BY DEF RoundInv
        <5>2. \A i \in 1 .. n : /\ queue'[p][i][1] <= round /\ queue'[p][i][3] = p
                                /\ i > 1 => queue'[p][i][1] = round
          BY <5>1, <4>3 DEF Sound, n
        <5>3. /\ queue'[p][n + 1][1] = round /\ queue'[p][n + 1][3] = p
          BY <4>1, <4>3
        <5>4. \A i \in 1 .. n + 1 : /\ queue'[p][i][1] <= round /\ queue'[p][i][3] = p
                                    /\ i > 1 => queue'[p][i][1] = round
          <6> SUFFICES ASSUME NEW i \in 1 .. n + 1
                       PROVE  /\ queue'[p][i][1] <= round /\ queue'[p][i][3] = p
                              /\ i > 1 => queue'[p][i][1] = round
            OBVIOUS
          <6>1. i \in 1 .. n \/ i = n + 1
            BY <4>3
          <6> QED
            BY <6>1, <5>2, <5>3, <1>1
        <5> QED
          BY <5>1, <5>4, <4>3, <2>1 DEF Sound
      <4>8. FewStale(p)'
        <5>1. FewStale(p) /\ segment[p] <= round
          BY DEF RoundInv, Sound
        <5>2. (queue[p] # <<>> /\ queue'[p][1] = queue[p][1]) \/ queue'[p][1] = packet
          BY <4>3, <4>4, <4>5
        <5>3. ~OlderThan(packet, segment[p])
          BY <5>1, <4>1, <1>1 DEF OlderThan
        <5> QED
          BY <5>1, <5>2, <5>3, <2>1, <1>1 DEF FewStale, Older, Held
      <4>9. InOrder(p)'
        <5>1. InOrder(p)
          BY DEF RoundInv
        <5>2. (queue[p] # <<>> /\ queue'[p][1] = queue[p][1]) \/ Of(queue'[p][1], round)
          <6>1. CASE n = 0
            <7>1. packet # None
              BY <4>1 DEF Some, None
            <7> QED
              BY <6>1, <7>1, <4>1, <4>5 DEF Of
          <6>2. CASE n # 0
            BY <6>2, <4>3, <4>4
          <6> QED
            BY <6>1, <6>2
        <5> QED
          BY <5>1, <5>2, <2>1 DEF InOrder, Held
      <4> QED
        BY <4>6, <4>7, <4>8, <4>9 DEF RoundInv
    <3> QED
      BY <3>2, <3>3
  <2> QED
    BY <2>2, <2>3, <1>19 DEF QueuePacket
<1>20. CASE DeliverPacket
  <2>1. /\ round' = round /\ queue'[p] = queue[p] /\ last'[p] = last[p]
        /\ segment'[p] = segment[p] /\ stale'[p] = stale[p]
        /\ fpc' \in SeekPlaces \cup {"newSegment"} => fpc \in SeekPlaces \cup {"newSegment"}
        /\ fpc' \in {"waitFlush", "newSegment"} =>
             fpc \in {"waitFlush", "newSegment"} /\ nextPacket'[p] = nextPacket[p]
        /\ ppc'[p] \in HandPlaces => ppc[p] \in HandPlaces /\ hand'[p] = hand[p]
        /\ Held(p)' => Held(p)
    BY <1>0, <1>1, <1>20 DEF DeliverPacket, OtherPins, Held, HandPlaces, SeekPlaces
  <2> QED
    BY <2>1, RoundFrame
<1>21. CASE QueueEndOfStream
  <2>1. /\ round' = round /\ queue'[p] = queue[p] /\ last'[p] = last[p]
        /\ segment'[p] = segment[p] /\ stale'[p] = stale[p]
        /\ fpc' \in SeekPlaces \cup {"newSegment"} => fpc \in SeekPlaces \cup {"newSegment"}
        /\ fpc' \in {"waitFlush", "newSegment"} =>
             fpc \in {"waitFlush", "newSegment"} /\ nextPacket'[p] = nextPacket[p]
        /\ ppc'[p] \in HandPlaces => ppc[p] \in HandPlaces /\ hand'[p] = hand[p]
        /\ Held(p)' => Held(p)
    BY <1>0, <1>1, <1>21 DEF QueueEndOfStream, Held, HandPlaces, SeekPlaces
  <2> QED
    BY <2>1, RoundFrame
<1>22. CASE GetRequest
  <2>1. /\ UNCHANGED <<round, queue, last, segment, stale, ppc, hand, nextPacket>>
        /\ fpc' \in {"reply", "exit"} /\ fReq # "none" /\ UNCHANGED lateStart
    BY <1>22 DEF GetRequest
  <2>2. Len(queue[p]) <= 1
    BY <2>1 DEF Control, QueueInv, Untouched, Emptied
  <2>3. Short(p)'
    BY <2>1, <2>2 DEF Short
  <2>4. Sound(p)' /\ FewStale(p)' /\ InOrder(p)'
    BY <2>1 DEF RoundInv, Sound, FewStale, Older, InOrder, Held
  <2>5. Fresh(p)'
    BY <2>1 DEF Fresh
  <2> QED
    BY <2>3, <2>4, <2>5 DEF RoundInv
<1>23. CASE Exit
  <2>1. /\ round' = round /\ queue'[p] = queue[p] /\ last'[p] = last[p]
        /\ segment'[p] = segment[p] /\ stale'[p] = stale[p]
        /\ fpc' \in SeekPlaces \cup {"newSegment"} => fpc \in SeekPlaces \cup {"newSegment"}
        /\ fpc' \in {"waitFlush", "newSegment"} =>
             fpc \in {"waitFlush", "newSegment"} /\ nextPacket'[p] = nextPacket[p]
        /\ ppc'[p] \in HandPlaces => ppc[p] \in HandPlaces /\ hand'[p] = hand[p]
        /\ Held(p)' => Held(p)
    BY <1>0, <1>1, <1>23 DEF Exit, Reply, Held, HandPlaces, SeekPlaces
  <2> QED
    BY <2>1, RoundFrame
<1>24. ASSUME NEW q \in Pins, PinStart(q) PROVE RoundInv(p)'
  <2>1. /\ round' = round /\ queue'[p] = queue[p] /\ last'[p] = last[p]
        /\ segment'[p] = segment[p] /\ stale'[p] = stale[p]
        /\ fpc' \in SeekPlaces \cup {"newSegment"} => fpc \in SeekPlaces \cup {"newSegment"}
        /\ fpc' \in {"waitFlush", "newSegment"} =>
             fpc \in {"waitFlush", "newSegment"} /\ nextPacket'[p] = nextPacket[p]
        /\ ppc'[p] \in HandPlaces => ppc[p] \in HandPlaces /\ hand'[p] = hand[p]
        /\ Held(p)' => Held(p)
    BY <1>0, <1>1, <1>24 DEF PinStart, Held, HandPlaces, SeekPlaces
  <2> QED
    BY <2>1, RoundFrame
<1>25. ASSUME NEW q \in Pins, PinTop(q) PROVE RoundInv(p)'
  <2>1. /\ round' = round /\ queue'[p] = queue[p] /\ last'[p] = last[p]
        /\ segment'[p] = segment[p] /\ stale'[p] = stale[p]
        /\ fpc' \in SeekPlaces \cup {"newSegment"} => fpc \in SeekPlaces \cup {"newSegment"}
        /\ fpc' \in {"waitFlush", "newSegment"} =>
             fpc \in {"waitFlush", "newSegment"} /\ nextPacket'[p] = nextPacket[p]
        /\ ppc'[p] \in HandPlaces => ppc[p] \in HandPlaces /\ hand'[p] = hand[p]
        /\ Held(p)' => Held(p)
    BY <1>0, <1>1, <1>25 DEF PinTop, Held, HandPlaces, SeekPlaces
  <2> QED
    BY <2>1, RoundFrame
<1>26. ASSUME NEW q \in Pins, PinTake(q) PROVE RoundInv(p)'
  <2>1. /\ UNCHANGED <<round, fpc, last, segment, stale, nextPacket>>
        /\ ppc[q] = "take"
    BY <1>26 DEF PinTake
  <2>2. CASE q # p
    <3>1. queue'[p] = queue[p] /\ hand'[p] = hand[p] /\ ppc'[p] = ppc[p]
      BY <2>2, <1>1, <1>26 DEF PinTake
    <3> QED
      BY <3>1, <2>1, RoundFrame DEF Held
  <2>3. CASE q = p /\ queue[p] = <<>>
    <3>1. queue' = queue /\ ppc'[p] = "top"
      BY <2>3, <1>1, <1>26 DEF PinTake
    <3> QED
      BY <2>1, <3>1, RoundFrame DEF Held, HandPlaces
  <2>4. CASE q = p /\ queue[p] # <<>>
    <3> DEFINE n == Len(queue[p])
    <3>1. ppc'[p] = "check" /\ hand'[p] = Head(queue[p]) /\ queue'[p] = Tail(queue[p])
      BY <2>4, <1>1, <1>26 DEF PinTake
    <3>2. /\ n \in Nat /\ n > 0 /\ Len(queue'[p]) = n - 1 /\ hand'[p] = queue[p][1]
          /\ \A i \in 1 .. n - 1 : queue'[p][i] = queue[p][i + 1]
          /\ queue'[p] # <<>> <=> n > 1
          /\ \A i \in 1 .. n : queue[p][i] \in Some
      <4>1. /\ n \in Nat /\ n > 0 /\ Len(Tail(queue[p])) = n - 1 /\ Head(queue[p]) = queue[p][1]
            /\ \A i \in 1 .. n - 1 : Tail(queue[p])[i] = queue[p][i + 1]
            /\ Tail(queue[p]) # <<>> <=> n > 1
            /\ \A i \in 1 .. n : queue[p][i] \in Some
        BY <2>4, <1>1, Taken
      <4> HIDE DEF n
      <4> QED
        BY <4>1, <3>1
    <3>3. Sound(p)
      BY DEF RoundInv
    <3>4. /\ hand'[p] \in Some /\ hand'[p][1] <= round /\ hand'[p][3] = p
          /\ n > 1 => queue'[p][1] \in Some /\ queue'[p][1][1] = round
          /\ \A i \in 1 .. n - 1 : queue'[p][i][1] = round /\ queue'[p][i][3] = p
      <4>1. \A i \in 1 .. n : /\ queue[p][i][1] <= round /\ queue[p][i][3] = p
                              /\ i > 1 => queue[p][i][1] = round
        BY <3>3 DEF Sound
      <4> HIDE DEF n
      <4>2. 1 \in 1 .. n /\ \A i \in 1 .. n - 1 : i + 1 \in 1 .. n /\ i + 1 > 1
        BY <3>2
      <4>3. /\ hand'[p] \in Some /\ hand'[p][1] <= round /\ hand'[p][3] = p
        BY <3>2, <4>1, <4>2
      <4>4. \A i \in 1 .. n - 1 : /\ queue'[p][i] \in Some
                                  /\ queue'[p][i][1] = round /\ queue'[p][i][3] = p
        BY <3>2, <4>1, <4>2
      <4>5. n > 1 => 1 \in 1 .. n - 1
        BY <3>2
      <4> QED
        BY <4>3, <4>4, <4>5
    <3> HIDE DEF n
    <3>5. Short(p)'
      BY <2>1, <3>2 DEF RoundInv, Short, n
    <3>6. Sound(p)'
      <4>1. segment'[p] <= round' /\ (last'[p] # None => last'[p][1] <= round' /\ last'[p][3] = p)
        BY <2>1, <3>3 DEF Sound
      <4>2. \A i \in 1 .. Len(queue'[p]) : queue'[p][i][1] = round' /\ queue'[p][i][3] = p
        BY <2>1, <3>2, <3>4
      <4>3. hand'[p][1] <= round' /\ hand'[p][3] = p
        BY <2>1, <3>4
      <4>4. round' <= round'
        BY <2>1, <1>1
      <4> QED
        BY <4>1, <4>2, <4>3, <4>4 DEF Sound
    <3>7. FewStale(p)'
      <4>1. FewStale(p) /\ segment[p] <= round
        BY DEF RoundInv, Sound
      <4>2. Older(p)' = (IF OlderThan(queue[p][1], segment[p]) THEN 1 ELSE 0)
        <5>1. Held(p)' /\ segment'[p] = segment[p] /\ hand'[p] = queue[p][1]
          BY <2>1, <3>1, <3>2 DEF Held
        <5>2. ~(queue'[p] # <<>> /\ OlderThan(queue'[p][1], segment[p]))
          BY <4>1, <3>2, <3>4, <1>1 DEF OlderThan
        <5> QED
          BY <5>1, <5>2, <1>1 DEF Older
      <4>3. Older(p) = (IF OlderThan(queue[p][1], segment[p]) THEN 1 ELSE 0)
        BY <2>1, <2>4 DEF Older, Held
      <4> QED
        BY <4>1, <4>2, <4>3, <2>1 DEF FewStale
    <3>8. InOrder(p)'
      <4>1. InOrder(p)
        BY DEF RoundInv
      <4>2. n > 1 => Of(queue'[p][1], round)
        BY <3>4 DEF Of, Some, None
      <4> QED
        BY <4>1, <4>2, <2>1, <2>4, <3>2 DEF InOrder
    <3>9. Fresh(p)'
      <4>1. Fresh(p) /\ Short(p)
        BY DEF RoundInv
      <4>2. fpc = "newSegment" \/ fpc = "waitFlush" => n = 1
        <5>1. fpc = "newSegment" \/ fpc = "waitFlush" => n <= 1
          BY <4>1 DEF Short, SeekPlaces, n
        <5> QED
          BY <5>1, <3>2
      <4> QED
        BY <4>1, <4>2, <2>1, <2>4, <3>2 DEF Fresh
    <3> QED
      BY <3>5, <3>6, <3>7, <3>8, <3>9 DEF RoundInv
  <2> QED
    BY <2>2, <2>3, <2>4
<1>27. ASSUME NEW q \in Pins, PinCheck(q) PROVE RoundInv(p)'
  <2>1. /\ round' = round /\ queue'[p] = queue[p] /\ last'[p] = last[p]
        /\ segment'[p] = segment[p] /\ stale'[p] = stale[p]
        /\ fpc' \in SeekPlaces \cup {"newSegment"} => fpc \in SeekPlaces \cup {"newSegment"}
        /\ fpc' \in {"waitFlush", "newSegment"} =>
             fpc \in {"waitFlush", "newSegment"} /\ nextPacket'[p] = nextPacket[p]
        /\ ppc'[p] \in HandPlaces => ppc[p] \in HandPlaces /\ hand'[p] = hand[p]
        /\ Held(p)' => Held(p)
    BY <1>0, <1>1, <1>27 DEF PinCheck, AgainOrTop, Held, HandPlaces, SeekPlaces
  <2> QED
    BY <2>1, RoundFrame
<1>28. ASSUME NEW q \in Pins, PinMark(q) PROVE RoundInv(p)'
  <2>1. /\ round' = round /\ queue'[p] = queue[p] /\ last'[p] = last[p]
        /\ segment'[p] = segment[p] /\ stale'[p] = stale[p]
        /\ fpc' \in SeekPlaces \cup {"newSegment"} => fpc \in SeekPlaces \cup {"newSegment"}
        /\ fpc' \in {"waitFlush", "newSegment"} =>
             fpc \in {"waitFlush", "newSegment"} /\ nextPacket'[p] = nextPacket[p]
        /\ ppc'[p] \in HandPlaces => ppc[p] \in HandPlaces /\ hand'[p] = hand[p]
        /\ Held(p)' => Held(p)
    BY <1>0, <1>1, <1>28 DEF PinMark, Held, HandPlaces, SeekPlaces
  <2> QED
    BY <2>1, RoundFrame
<1>29. ASSUME NEW q \in Pins, PinDeliver(q) PROVE RoundInv(p)'
  <2>1. /\ UNCHANGED <<round, fpc, queue, hand, segment, nextPacket>>
        /\ ppc[q] = "deliver" /\ ppc' = [ppc EXCEPT ![q] = "waitFlush"]
        /\ \/ UNCHANGED <<last, stale>>
           \/ /\ last' = [last EXCEPT ![q] = hand[q]]
              /\ stale' = IF hand[q][1] < segment[q] THEN [stale EXCEPT ![q] = @ + 1] ELSE stale
    BY <1>29 DEF PinDeliver, DeliveryEnds
  <2>2. CASE last'[p] = last[p] /\ stale'[p] = stale[p]
    BY <2>1, <2>2, <1>1, RoundFrame DEF Held, HandPlaces
  <2>3. CASE /\ q = p /\ last'[p] = hand[p]
             /\ stale'[p] = IF hand[p][1] < segment[p] THEN stale[p] + 1 ELSE stale[p]
    <3>1. ppc'[p] = "waitFlush" /\ hand[p] \in Some /\ hand[p] # None /\ Held(p) /\ ~Held(p)'
      BY <2>1, <2>3, <1>1 DEF Held, HandPlaces, Some, None
    <3>2. Short(p)'
      BY <2>1 DEF RoundInv, Short
    <3>3. Sound(p)'
      BY <2>1, <2>3, <3>1 DEF RoundInv, Sound, HandPlaces
    <3>4. FewStale(p)'
      BY <2>1, <2>3, <3>1, <1>1 DEF RoundInv, FewStale, Older, OlderThan
    <3>5. InOrder(p)'
      BY <2>1, <2>3, <3>1 DEF RoundInv, InOrder
    <3>6. Fresh(p)'
      BY <2>1, <2>3, <3>1 DEF RoundInv, Fresh, HandPlaces
    <3> QED
      BY <3>2, <3>3, <3>4, <3>5, <3>6 DEF RoundInv
  <2> QED
    BY <2>1, <2>2, <2>3, <1>1
<1>30. ASSUME NEW q \in Pins, PinFail(q) PROVE RoundInv(p)'
  <2>1. /\ round' = round /\ queue'[p] = queue[p] /\ last'[p] = last[p]
        /\ segment'[p] = segment[p] /\ stale'[p] = stale[p]
        /\ fpc' \in SeekPlaces \cup {"newSegment"} => fpc \in SeekPlaces \cup {"newSegment"}
        /\ fpc' \in {"waitFlush", "newSegment"} =>
             fpc \in {"waitFlush", "newSegment"} /\ nextPacket'[p] = nextPacket[p]
        /\ ppc'[p] \in HandPlaces => ppc[p] \in HandPlaces /\ hand'[p] = hand[p]
        /\ Held(p)' => Held(p)
    BY <1>0, <1>1, <1>30 DEF PinFail, DeliveryEnds, Held, HandPlaces, SeekPlaces
  <2> QED
    BY <2>1, RoundFrame
<1>31. ASSUME NEW q \in Pins, PinWaitEndFlush(q) PROVE RoundInv(p)'
  <2>1. /\ round' = round /\ queue'[p] = queue[p] /\ last'[p] = last[p]
        /\ segment'[p] = segment[p] /\ stale'[p] = stale[p]
        /\ fpc' \in SeekPlaces \cup {"newSegment"} => fpc \in SeekPlaces \cup {"newSegment"}
        /\ fpc' \in {"waitFlush", "newSegment"} =>
             fpc \in {"waitFlush", "newSegment"} /\ nextPacket'[p] = nextPacket[p]
        /\ ppc'[p] \in HandPlaces => ppc[p] \in HandPlaces /\ hand'[p] = hand[p]
        /\ Held(p)' => Held(p)
    BY <1>0, <1>1, <1>31 DEF PinWaitEndFlush, Held, HandPlaces, SeekPlaces
  <2> QED
    BY <2>1, RoundFrame
<1>32. ASSUME NEW q \in Pins, PinReport(q) PROVE RoundInv(p)'
  <2>1. /\ round' = round /\ queue'[p] = queue[p] /\ last'[p] = last[p]
        /\ segment'[p] = segment[p] /\ stale'[p] = stale[p]
        /\ fpc' \in SeekPlaces \cup {"newSegment"} => fpc \in SeekPlaces \cup {"newSegment"}
        /\ fpc' \in {"waitFlush", "newSegment"} =>
             fpc \in {"waitFlush", "newSegment"} /\ nextPacket'[p] = nextPacket[p]
        /\ ppc'[p] \in HandPlaces => ppc[p] \in HandPlaces /\ hand'[p] = hand[p]
        /\ Held(p)' => Held(p)
    BY <1>0, <1>1, <1>32 DEF PinReport, AgainOrTop, Held, HandPlaces, SeekPlaces
  <2> QED
    BY <2>1, RoundFrame
<1>33. CASE UNCHANGED vars
  <2>1. /\ round' = round /\ queue'[p] = queue[p] /\ last'[p] = last[p]
        /\ segment'[p] = segment[p] /\ stale'[p] = stale[p]
        /\ fpc' \in SeekPlaces \cup {"newSegment"} => fpc \in SeekPlaces \cup {"newSegment"}
        /\ fpc' \in {"waitFlush", "newSegment"} =>
             fpc \in {"waitFlush", "newSegment"} /\ nextPacket'[p] = nextPacket[p]
        /\ ppc'[p] \in HandPlaces => ppc[p] \in HandPlaces /\ hand'[p] = hand[p]
        /\ Held(p)' => Held(p)
    BY <1>0, <1>1, <1>33 DEF vars, Held, HandPlaces, SeekPlaces
  <2> QED
    BY <2>1, RoundFrame
<1> QED
  BY <1>2, <1>3, <1>4, <1>5, <1>6, <1>7, <1>8, <1>9, <1>10, <1>11, <1>12, <1>13, <1>14, <1>15, <1>16,
     <1>17, <1>18, <1>19, <1>20, <1>21, <1>22, <1>23, <1>24, <1>25, <1>26, <1>27, <1>28, <1>29, <1>30, <1>31,
     <1>32, <1>33 DEF Next, App, AppStep, Filter, Pin

------------------------------------------------------------------------------
(* The chain of packet numbers.                                            *)

\* No packet is the absent one.
LEMMA SomeIsNotNone ==
  ASSUME NEW x \in Some
  PROVE  x # None
  BY DEF Some, None

\* A step of the pin's thread that moves a packet from hand to last, or nothing,
\* keeps the chain.
LEMMA ChainKept ==
  ASSUME NEW p \in Pins, ChainInv(p), Demuxing,
         fpc' = fpc, fpin' = fpin, round' = round, active' = active, Eos' = Eos,
         nextPacket' = nextPacket, queue'[p] = queue[p],
         LastOf(p)' + (IF Held(p)' /\ Of(hand'[p], round) THEN 1 ELSE 0) = Begun(p),
         Held(p)' /\ Of(hand'[p], round) =>
             \/ hand'[p][2] = LastOf(p)' + 1
             \/ hand'[p] = hand[p] /\ Held(p) /\ LastOf(p)' = LastOf(p),
         NotPassed(p)', NotCleared(p)', ~Broken(p)' => ~Broken(p)
  PROVE  ChainInv(p)'
<1>1. ~Broken(p)' => Numbered(p) /\ Counted(p)
  BY DEF ChainInv
<1>2. Begun(p)' = Begun(p) /\ Skipped(p)' = Skipped(p) /\ Handled(p)' = Handled(p)
  BY DEF Begun, Skipped, Handled
<1>3. Numbered(p) => Numbered(p)'
  BY <1>2 DEF Numbered
<1>4. Counted(p) => Counted(p)'
  BY <1>2 DEF Counted
<1> QED
  BY <1>1, <1>3, <1>4 DEF ChainInv

\* A step of the demuxing thread that adds no packet keeps the chain, if what it
\* has dealt with of an active pin stays the same.
LEMMA ChainFilter ==
  ASSUME NEW p \in Pins, ChainInv(p), Demuxing, round' = round, Eos' = Eos,
         UNCHANGED <<ppc, hand, last, hr, hrDeliver, pFlushed>>, queue'[p] = queue[p],
         ~Broken(p) /\ p \in active' =>
            /\ fpc' # "getRequest" => p \in active /\ fpc # "getRequest" /\ Handled(p)' = Handled(p)
            /\ fpc' \in EosPlaces => nextPacket'[p] = Eos
  PROVE  ChainInv(p)'
<1>1. /\ Broken(p)' <=> Broken(p)
      /\ NotPassed(p) => NotPassed(p)'
      /\ NotCleared(p) => NotCleared(p)'
  BY DEF Broken, NotPassed, NotCleared, Of
<1>2. Begun(p)' = Begun(p) /\ Skipped(p)' = Skipped(p) /\ LastOf(p)' = LastOf(p)
  BY DEF Begun, Skipped, LastOf, Held, Of
<1>3. Numbered(p) => Numbered(p)'
  BY <1>2 DEF Numbered, Held
<1>4. ~Broken(p) /\ Counted(p) => Counted(p)'
  BY <1>2 DEF Counted
<1> QED
  BY <1>1, <1>3, <1>4 DEF ChainInv

\* A step of another pin's thread keeps the chain of this one.
LEMMA ChainOther ==
  ASSUME NEW p \in Pins, ChainInv(p), Demuxing,
         UNCHANGED <<apc, fpc, fpin, round, active, nextPacket>>, Eos' = Eos,
         queue'[p] = queue[p], last'[p] = last[p], hand'[p] = hand[p], ppc'[p] = ppc[p],
         hr'[p] = hr[p], hrDeliver'[p] = hrDeliver[p], pFlushed'[p] = pFlushed[p]
  PROVE  ChainInv(p)'
<1>1. LastOf(p)' = LastOf(p) /\ (Held(p)' <=> Held(p))
  BY DEF LastOf, Of, Held
<1>2. NotPassed(p)' /\ NotCleared(p)'
  BY DEF ChainInv, NotPassed, NotCleared, Of
<1>3. Broken(p)' <=> Broken(p)
  BY DEF Broken, Of
<1> QED
  BY <1>1, <1>2, <1>3, ChainKept DEF Begun

\* Every step keeps the chain of a pin that did not start late.
LEMMA ChainStep ==
  ASSUME NEW p \in Pins, Types, Threads, PacketsRemain, ~MayTimeOut, Control,
         QueueInv(p), RoundInv(p), ChainInv(p), p \notin lateStart', [Next]_vars
  PROVE  ChainInv(p)'
<1> USE DEF None,
            avars, freq, fvars, preq, pflags, plocal, dvars, FilterUnchanged, PinUnchanged, To
<1>0. /\ graph' = graph /\ NumPins' = NumPins /\ Pins' = Pins /\ Eos' = Eos
      /\ MayTimeOut' = MayTimeOut /\ MayFail' = MayFail
  BY SameGraph
<1>1. /\ ppc \in [Pins -> PinPlaces] /\ hand \in [Pins -> Some \cup {None}]
      /\ last \in [Pins -> Some \cup {None}] /\ queue \in [Pins -> Seq(Some)]
      /\ nextPacket \in [Pins -> Nat] /\ round \in Nat /\ pThread \in [Pins -> BOOLEAN]
      /\ hrDeliver \in [Pins -> Results] /\ hr \in [Pins -> Results]
      /\ pFlushed \in [Pins -> BOOLEAN] /\ fpin \in Nat /\ p \in Nat /\ p > 0
      /\ Eos \in Nat /\ active \in SUBSET Pins
      /\ \A q \in Pins : ppc[q] \in HandPlaces => hand[q] \in Some
      /\ fpc \in PacketPlaces \cup EosPinPlaces => fpin \in active
  BY Graph DEF Types, AppTypes, FilterTypes, PinTypes, PacketTypes
<1>2. CASE Pause
  <2>1. ~Demuxing'
    BY <1>2 DEF Pause, Control, PacketPlaces, EosPlaces, Demuxing
  <2> QED
    BY <2>1 DEF ChainInv
<1>3. CASE Seek
  <2>1. ~Demuxing'
    BY <1>3 DEF Seek, Threads, PacketPlaces, EosPlaces, Demuxing
  <2> QED
    BY <2>1 DEF ChainInv
<1>4. CASE Stop
  <2>1. ~Demuxing'
    BY <1>4 DEF Stop, Demuxing
  <2> QED
    BY <2>1 DEF ChainInv
<1>5. CASE BeginFlushFilter
  <2>1. ~Demuxing'
    BY <1>5 DEF BeginFlushFilter, Demuxing
  <2> QED
    BY <2>1 DEF ChainInv
<1>6. ASSUME NEW q \in Pins, BeginFlushPin(q) PROVE ChainInv(p)'
  <2>1. ~Demuxing'
    BY <1>6 DEF BeginFlushPin, Demuxing
  <2> QED
    BY <2>1 DEF ChainInv
<1>7. CASE CallWorker
  <2>1. ~Demuxing'
    BY <1>7 DEF CallWorker, Demuxing
  <2> QED
    BY <2>1 DEF ChainInv
<1>8. CASE WorkerReplied
  <2>1. ~Demuxing'
    BY <1>8 DEF WorkerReplied, Demuxing
  <2> QED
    BY <2>1 DEF ChainInv
<1>9. ASSUME NEW q \in Pins, EndFlushPin(q) PROVE ChainInv(p)'
  <2>1. ~Demuxing'
    BY <1>9 DEF EndFlushPin, Demuxing
  <2> QED
    BY <2>1 DEF ChainInv
<1>10. CASE EndFlushFilter
  <2>1. ~Demuxing'
    BY <1>10 DEF EndFlushFilter, Control, Answered, PacketPlaces, EosPlaces, Demuxing
  <2> QED
    BY <2>1 DEF ChainInv
<1>11. ASSUME NEW q \in Pins, InactivePin(q) PROVE ChainInv(p)'
  <2>1. ~Demuxing'
    BY <1>11 DEF InactivePin, Control, PacketPlaces, EosPlaces, Demuxing
  <2> QED
    BY <2>1 DEF ChainInv
<1>12. CASE Start
  <2>1. ~Demuxing'
    BY <1>12 DEF Start, PacketPlaces, EosPlaces, Demuxing
  <2> QED
    BY <2>1 DEF ChainInv
<1>13. CASE Started
  <2>1. ~Demuxing'
    BY <1>13 DEF Started, PacketPlaces, EosPlaces, Demuxing
  <2> QED
    BY <2>1 DEF ChainInv
<1>14. CASE InitFailed
  <2>1. ~Demuxing'
    BY <1>14 DEF InitFailed, PacketPlaces, EosPlaces, Reply, Demuxing
  <2> QED
    BY <2>1 DEF ChainInv
<1>15. CASE DemuxSeek
  <2>1. ~Demuxing'
    BY <1>15 DEF DemuxSeek, PacketPlaces, EosPlaces, Reply, Demuxing
  <2> QED
    BY <2>1 DEF ChainInv
<1>16. CASE WaitEndFlush
  <2>1. ~Demuxing'
    BY <1>16 DEF WaitEndFlush, PacketPlaces, EosPlaces, Demuxing
  <2> QED
    BY <2>1 DEF ChainInv
<1>17. CASE NewSegment
  <2>1. /\ UNCHANGED <<round, ppc, hand, last, hr, hrDeliver, pFlushed, queue, apc, nextPacket>>
        /\ fpc = "newSegment" /\ fpc' \in {"newSegment", "demux"}
    BY <1>17 DEF NewSegment
  <2>2. CASE fpc' = "newSegment"
    BY <2>2 DEF ChainInv, Demuxing, PacketPlaces, EosPlaces
  <2>3. CASE fpc' = "demux"
    <3>1. /\ ~Of(last[p], round) /\ (ppc[p] \in HandPlaces => ~Of(hand[p], round))
          /\ queue[p] # <<>> => ~Of(queue[p][1], round)
          /\ nextPacket[p] = 1 /\ Len(queue[p]) <= 1
      BY <2>1 DEF RoundInv, Fresh, Short
    <3>2. NotPassed(p)' /\ NotCleared(p)'
      BY <3>1, <2>1 DEF NotPassed, NotCleared, HandPlaces, Of
    <3>3. /\ ~(Held(p)' /\ Of(hand'[p], round')) /\ LastOf(p)' = 0 /\ Begun(p)' = 0
      BY <3>1, <2>1 DEF LastOf, Begun, Held, HandPlaces, Of
    <3>4. /\ Len(queue[p]) \in Nat /\ (queue[p] = <<>> <=> Len(queue[p]) = 0)
      BY <1>1, EmptySeq, LenProperties
    <3>5. Skipped(p)' = Len(queue[p])
      BY <3>1, <3>4, <2>1 DEF Skipped, Of
    <3>6. Numbered(p)'
      BY <3>3, <3>4, <3>5, <2>1 DEF Numbered
    <3>7. Handled(p)' = 0
      BY <3>1, <2>1, <2>3 DEF Handled, EosPlaces
    <3>8. Counted(p)'
      BY <3>3, <3>4, <3>5, <3>7, <2>1, <2>3 DEF Counted, EosPlaces
    <3> QED
      BY <3>2, <3>6, <3>8 DEF ChainInv
  <2> QED
    BY <2>1, <2>2, <2>3
<1>18. CASE DemuxLoop
  <2>1. CASE ~Demuxing'
    BY <2>1 DEF ChainInv
  <2>2. CASE Demuxing'
    <3>1. /\ UNCHANGED <<round, ppc, hand, last, hr, hrDeliver, pFlushed, queue, apc, fReq>>
          /\ fpc = "demux" /\ fReq = "none"
      BY <2>2, <1>18 DEF DemuxLoop, Demuxing, Control
    <3>2. Demuxing
      BY <2>2, <3>1 DEF Demuxing
    <3>3. \/ /\ fpc' = "eos" /\ fpin' = 1 /\ active' = active /\ nextPacket' = nextPacket
             /\ \A r \in Pins : ~(nextPacket[r] < Eos)
          \/ fpc' = "queue" /\ active' = active /\ nextPacket' = nextPacket
          \/ \E r \in Pins : /\ nextPacket' = [nextPacket EXCEPT ![r] = @ + 1]
                             /\ active' = active \ {r} /\ fpc' = "demux"
      BY <3>1, <1>18 DEF DemuxLoop, PacketsLeft
    <3>4. p \in active' => p \in active /\ nextPacket'[p] = nextPacket[p]
      BY <3>3, <1>1
    <3>5. p \in active' => Handled(p)' = Handled(p)
      BY <3>1, <3>3, <3>4, <1>1 DEF Handled, EosPlaces
    <3>6. fpc' \in EosPlaces => nextPacket'[p] = Eos
      BY <3>3, <1>1 DEF EosPlaces, PacketsRemain
    <3> QED
      BY <3>1, <3>2, <3>4, <3>5, <3>6, <1>0, ChainFilter
  <2> QED
    BY <2>1, <2>2
<1>19. CASE QueuePacket
  <2>1. CASE ~Demuxing'
    BY <2>1 DEF ChainInv
  <2>2. CASE Demuxing'
    <3>1. /\ UNCHANGED <<round, ppc, hand, last, hr, hrDeliver, pFlushed, apc, active, nextPacket>>
          /\ fpc \in {"queue", "check", "add"} \cup EosPinPlaces /\ fpin \in active /\ fpin \in Pins
      BY <1>19, <1>1 DEF QueuePacket, PacketPlaces, EosPinPlaces
    <3>2. Demuxing
      BY <2>2, <3>1 DEF Demuxing, PacketPlaces, EosPlaces, EosPinPlaces
    <3>3. ~Broken(p) /\ p \in active /\ fpc \in EosPlaces => nextPacket[p] = Eos
      BY <3>2 DEF ChainInv, Counted
    <3>4. CASE fpc \in {"queue", "eosQueue"} \/ (fpc \in {"check", "eosCheck"} /\ hrDeliver[fpin] = "ok")
      <4>1. /\ UNCHANGED <<queue, fpin>>
            /\ \/ fpc = "queue" /\ fpc' = "check"
               \/ fpc = "eosQueue" /\ fpc' = "eosCheck"
               \/ fpc = "check" /\ fpc' = "add"
               \/ fpc = "eosCheck" /\ fpc' = "eosAdd"
        BY <3>4, <1>19 DEF QueuePacket
      <4>2. Handled(p)' = Handled(p) /\ fpc # "getRequest" /\ (fpc' \in EosPlaces <=> fpc \in EosPlaces)
        BY <4>1, <3>1, <1>0, <1>1 DEF Handled, EosPlaces
      <4> QED
        BY <4>1, <4>2, <3>1, <3>2, <3>3, <1>0, ChainFilter
    <3>5. CASE \/ fpc \in {"check", "eosCheck"} /\ hrDeliver[fpin] # "ok"
               \/ fpc \in {"add", "eosAdd"} /\ fpin # p
      <4>1. /\ queue'[p] = queue[p] /\ (fpin = p => hrDeliver[p] # "ok")
            /\ \/ fpc \in {"check", "add"} /\ fpc' = "queued" /\ fpin' = fpin
               \/ fpc \in {"eosCheck", "eosAdd"} /\ fpc' = "eos" /\ fpin' = fpin + 1
        BY <3>5, <1>19, <1>1 DEF QueuePacket, Add
      <4>2. /\ fpin # p => Handled(p)' = Handled(p)
            /\ fpc # "getRequest" /\ (fpc' \in EosPlaces <=> fpc \in EosPlaces)
        BY <4>1, <3>1, <1>0, <1>1 DEF Handled, EosPlaces
      <4>3. fpin = p => Broken(p)
        BY <4>1 DEF Broken
      <4> QED
        BY <4>1, <4>2, <4>3, <3>1, <3>2, <3>3, <1>0, ChainFilter
    <3>6. CASE fpc \in {"add", "eosAdd"} /\ fpin = p
      <4> DEFINE packet == <<round, Queued, p>>
                 n == Len(queue[p])
                 k == Begun(p)
      <4>1. packet \in Some /\ packet[1] = round /\ packet[2] = Queued /\ Queued \in Nat
        BY <3>1, <3>6, <1>1, Graph, QueuedIsNat DEF Some, Types
      <4>2. /\ queue'[p] = Append(queue[p], packet)
            /\ \/ fpc = "add" /\ fpc' = "queued" /\ fpin' = p
               \/ fpc = "eosAdd" /\ fpc' = "eos" /\ fpin' = p + 1
        BY <3>6, <1>19, <1>1 DEF QueuePacket, Add
      <4>3. Queued = IF fpc = "add" THEN nextPacket[p] ELSE Eos
        BY <3>6 DEF Queued
      <4> HIDE DEF packet
      <4>4. /\ n \in Nat /\ Len(queue'[p]) = n + 1 /\ queue'[p] # <<>>
            /\ \A i \in 1 .. n : queue'[p][i] = queue[p][i]
            /\ queue'[p][n + 1] = packet
            /\ queue[p] = <<>> <=> n = 0
        BY <4>1, <4>2, <1>1, Appended
      <4> HIDE DEF n
      <4>5. Of(packet, round)
        BY <4>1, SomeIsNotNone DEF Of
      <4>6. Skipped(p)' = Skipped(p) /\ Skipped(p) \in {0, 1}
        <5>1. CASE n = 0
          BY <5>1, <4>4, <4>5, <3>1 DEF Skipped
        <5>2. CASE n # 0
          <6>1. queue'[p][1] = queue[p][1]
            <7>1. 1 \in 1 .. n
              BY <5>2, <4>4
            <7> QED
              BY <7>1, <4>4
          <6> QED
            BY <6>1, <5>2, <4>4, <3>1 DEF Skipped, Of
        <5> QED
          BY <5>1, <5>2
      <4>7. /\ Begun(p)' = Begun(p) /\ LastOf(p)' = LastOf(p)
            /\ Broken(p)' <=> Broken(p)
            /\ NotPassed(p) => NotPassed(p)'
            /\ NotCleared(p) => NotCleared(p)'
        BY <3>1 DEF Begun, LastOf, Held, Of, Broken, NotPassed, NotCleared
      <4>8. k \in Nat
        <5>1. last[p] # None => last[p] \in Some
          BY <1>1
        <5> QED
          BY <5>1 DEF Begun, LastOf, Of, Some
      <4> HIDE DEF k
      <4>9. ASSUME ~Broken(p) PROVE Numbered(p)' /\ Counted(p)'
        <5>1. Numbered(p) /\ Counted(p)
          BY <4>9, <3>2 DEF ChainInv
        <5>2. /\ k + n - Skipped(p) = nextPacket[p] - 1
              /\ fpc = "eosAdd" => nextPacket[p] = Eos
          BY <5>1, <3>1, <3>6, <1>1 DEF Counted, Handled, EosPlaces, k, n
        <5>0. nextPacket[p] \in Nat
          BY <1>1
        <5>8. k + (n + 1) - Skipped(p) = nextPacket[p]
          <6> DEFINE z == Skipped(p)
                     m == nextPacket[p]
          <6>1. n \in Nat /\ k \in Nat /\ z \in Int /\ m \in Nat
            BY <5>0, <4>4, <4>6, <4>8
          <6>2. k + n - z = m - 1
            BY <5>2
          <6> HIDE DEF z, m
          <6>3. k + (n + 1) - z = m
            BY <6>1, <6>2
          <6> QED
            BY <6>3 DEF z, m
        <5>3. Queued = k + (n + 1) - Skipped(p)
          BY <5>2, <5>8, <4>3, <3>6
        <5>4. \A i \in 1 .. n : i > Skipped(p) => queue'[p][i][2] = k + i - Skipped(p)
          BY <5>1, <4>4 DEF Numbered, k, n
        <5>5. \A i \in 1 .. n + 1 : i > Skipped(p) => queue'[p][i][2] = k + i - Skipped(p)
          <6> SUFFICES ASSUME NEW i \in 1 .. n + 1, i > Skipped(p)
                       PROVE  queue'[p][i][2] = k + i - Skipped(p)
            OBVIOUS
          <6>1. i \in 1 .. n \/ i = n + 1
            BY <4>4
          <6> QED
            BY <6>1, <5>3, <5>4, <4>1, <4>4
        <5>6. Numbered(p)'
          BY <5>1, <5>5, <4>4, <4>6, <4>7, <3>1 DEF Numbered, k, Held
        <5>7. Handled(p)' = nextPacket[p]
          BY <5>2, <4>2, <3>1, <1>0, <1>1 DEF Handled, EosPlaces
        <5>9. Counted(p)'
          BY <5>2, <5>7, <5>8, <4>2, <4>4, <4>6, <4>7, <3>1, <1>0 DEF Counted, EosPlaces, k
        <5> QED
          BY <5>6, <5>9
      <4> QED
        BY <4>7, <4>9, <3>2 DEF ChainInv
    <3> QED
      BY <3>1, <3>4, <3>5, <3>6 DEF EosPinPlaces
  <2> QED
    BY <2>1, <2>2
<1>20. CASE DeliverPacket
  <2>1. CASE ~Demuxing'
    BY <2>1 DEF ChainInv
  <2>2. CASE Demuxing'
    <3>1. /\ UNCHANGED <<round, ppc, hand, last, hr, hrDeliver, pFlushed, queue, apc>>
          /\ fpc = "queued" /\ fpin \in Pins
      BY <1>20, <1>1 DEF DeliverPacket, PacketPlaces
    <3>2. Demuxing
      BY <2>2, <3>1 DEF Demuxing, PacketPlaces
    <3>3. /\ nextPacket' = [nextPacket EXCEPT ![fpin] = @ + 1]
          /\ active' \subseteq active /\ (hrDeliver[fpin] = "ok" \/ fpin \notin active')
          /\ (fpc' = "eos" /\ active' = {}) \/ fpc' = "demux"
      BY <1>20 DEF DeliverPacket, OtherPins, LoopFails
    <3>4. p \in active' => Handled(p)' = Handled(p)
      BY <3>1, <3>3, <1>1 DEF Handled, EosPlaces
    <3>5. fpc' \in EosPlaces => p \notin active'
      BY <3>3 DEF EosPlaces
    <3> QED
      BY <3>1, <3>2, <3>3, <3>4, <3>5, <1>0, ChainFilter
  <2> QED
    BY <2>1, <2>2
<1>21. CASE QueueEndOfStream
  <2>1. CASE ~Demuxing'
    BY <2>1 DEF ChainInv
  <2>2. CASE Demuxing'
    <3>1. /\ UNCHANGED <<round, ppc, hand, last, hr, hrDeliver, pFlushed, queue, apc, active, nextPacket>>
          /\ fpc = "eos"
      BY <1>21 DEF QueueEndOfStream
    <3>2. Demuxing
      BY <2>2, <3>1 DEF Demuxing, EosPlaces
    <3>3. \/ fpc' = "getRequest"
          \/ fpc' = "eosQueue" /\ fpin' = fpin
          \/ fpc' = "eos" /\ fpin' = fpin + 1 /\ fpin \notin active
      <4>1. \A q \in Pins : pThread[q]
        BY <3>1 DEF Control
      <4> QED
        BY <4>1, <3>1, <1>21 DEF QueueEndOfStream
    <3>4. p \in active /\ fpc' # "getRequest" => Handled(p)' = Handled(p)
      BY <3>1, <3>3, <1>0, <1>1 DEF Handled, EosPlaces
    <3>5. ~Broken(p) /\ p \in active => nextPacket[p] = Eos
      BY <3>1, <3>2 DEF ChainInv, Counted, EosPlaces
    <3> QED
      BY <3>1, <3>2, <3>3, <3>4, <3>5, <1>0, ChainFilter
  <2> QED
    BY <2>1, <2>2
<1>22. CASE GetRequest
  <2>1. ~Demuxing'
    BY <1>22 DEF GetRequest, Control, PacketPlaces, EosPlaces, Demuxing
  <2> QED
    BY <2>1 DEF ChainInv
<1>23. CASE Exit
  <2>1. ~Demuxing'
    BY <1>23 DEF Exit, PacketPlaces, EosPlaces, Reply, Demuxing
  <2> QED
    BY <2>1 DEF ChainInv
<1>24. ASSUME NEW q \in Pins, PinStart(q) PROVE ChainInv(p)'
  <2>1. CASE ~Demuxing'
    BY <2>1 DEF ChainInv
  <2>2. CASE Demuxing'
    <3>1. /\ UNCHANGED <<apc, fpc, fpin, round, active, nextPacket>> /\ Demuxing
      BY <2>2, <1>24 DEF PinStart, Demuxing
    <3>2. CASE q # p
      <4>1. /\ queue'[p] = queue[p] /\ last'[p] = last[p] /\ hand'[p] = hand[p]
            /\ ppc'[p] = ppc[p] /\ hr'[p] = hr[p] /\ hrDeliver'[p] = hrDeliver[p]
            /\ pFlushed'[p] = pFlushed[p]
        BY <3>2, <1>24, <1>1 DEF PinStart
      <4> QED
        BY <4>1, <3>1, <1>0, ChainOther
    <3>3. CASE q = p
      <4>1. /\ queue' = queue /\ last' = last /\ hand' = hand /\ hr' = hr
            /\ ppc[p] \in {"start", "startFlags", "startSet"}
            /\ ppc'[p] \in {"startFlags", "startSet", "top"}
            /\ hrDeliver'[p] = hrDeliver[p]
        BY <3>3, <1>24, <1>1 DEF PinStart
      <4>2. ~Held(p) /\ ~Held(p)' /\ LastOf(p)' = LastOf(p)
        BY <4>1, <3>1 DEF Held, LastOf, Of
      <4>3. NotPassed(p)' /\ NotCleared(p)' /\ (~Broken(p)' => ~Broken(p))
        BY <4>1, <3>1 DEF NotPassed, NotCleared, Broken, ChainInv, Of
      <4> QED
        BY <4>1, <4>2, <4>3, <3>1, <1>0, ChainKept DEF Begun
    <3> QED
      BY <3>2, <3>3
  <2> QED
    BY <2>1, <2>2
<1>25. ASSUME NEW q \in Pins, PinTop(q) PROVE ChainInv(p)'
  <2>1. CASE ~Demuxing'
    BY <2>1 DEF ChainInv
  <2>2. CASE Demuxing'
    <3>1. /\ UNCHANGED <<apc, fpc, fpin, round, active, nextPacket>> /\ Demuxing
      BY <2>2, <1>25 DEF PinTop, Demuxing
    <3>2. CASE q # p
      <4>1. /\ queue'[p] = queue[p] /\ last'[p] = last[p] /\ hand'[p] = hand[p]
            /\ ppc'[p] = ppc[p] /\ hr'[p] = hr[p] /\ hrDeliver'[p] = hrDeliver[p]
            /\ pFlushed'[p] = pFlushed[p]
        BY <3>2, <1>25, <1>1 DEF PinTop
      <4> QED
        BY <4>1, <3>1, <1>0, ChainOther
    <3>3. CASE q = p
      <4>1. /\ queue' = queue /\ last' = last /\ hand' = hand /\ hr' = hr
            /\ ppc[p] = "top" /\ ppc'[p] \in {"none", "take"}
            /\ hrDeliver' = hrDeliver
        BY <3>3, <1>25, <1>1 DEF PinTop
      <4>2. ~Held(p) /\ ~Held(p)' /\ LastOf(p)' = LastOf(p)
        BY <4>1, <3>1 DEF Held, LastOf, Of
      <4>3. NotPassed(p)' /\ NotCleared(p)' /\ (~Broken(p)' => ~Broken(p))
        BY <4>1, <3>1 DEF NotPassed, NotCleared, Broken, ChainInv, Of
      <4> QED
        BY <4>1, <4>2, <4>3, <3>1, <1>0, ChainKept DEF Begun
    <3> QED
      BY <3>2, <3>3
  <2> QED
    BY <2>1, <2>2
<1>26. ASSUME NEW q \in Pins, PinTake(q) PROVE ChainInv(p)'
  <2>1. CASE ~Demuxing'
    BY <2>1 DEF ChainInv
  <2>2. CASE Demuxing'
    <3>1. /\ UNCHANGED <<apc, fpc, fpin, round, active, nextPacket>> /\ Demuxing
      BY <2>2, <1>26 DEF PinTake, Demuxing
    <3>2. CASE q # p
      <4>1. /\ queue'[p] = queue[p] /\ last'[p] = last[p] /\ hand'[p] = hand[p]
            /\ ppc'[p] = ppc[p] /\ hr'[p] = hr[p] /\ hrDeliver'[p] = hrDeliver[p]
            /\ pFlushed'[p] = pFlushed[p]
        BY <3>2, <1>26, <1>1 DEF PinTake
      <4> QED
        BY <4>1, <3>1, <1>0, ChainOther
    <3>3. CASE q = p
      <4>1. CASE queue[p] = <<>>
        <5>1. /\ queue' = queue /\ last' = last /\ hand' = hand /\ hr' = hr
              /\ ppc[p] = "take" /\ ppc'[p] = "top" /\ hrDeliver' = hrDeliver
          BY <4>1, <3>3, <1>26, <1>1 DEF PinTake
        <5>2. ~Held(p) /\ ~Held(p)' /\ LastOf(p)' = LastOf(p)
          BY <5>1, <3>1 DEF Held, LastOf, Of
        <5>3. NotPassed(p)' /\ NotCleared(p)' /\ (~Broken(p)' => ~Broken(p))
          BY <5>1, <3>1 DEF NotPassed, NotCleared, Broken, ChainInv, Of
        <5> QED
          BY <5>1, <5>2, <5>3, <3>1, <1>0, ChainKept DEF Begun
      <4>2. CASE queue[p] # <<>>
        <5> DEFINE n == Len(queue[p])
                   l == LastOf(p)
        <5>1. /\ last' = last /\ hr' = hr /\ hrDeliver' = hrDeliver
              /\ ppc[p] = "take" /\ ppc'[p] = "check"
              /\ hand'[p] = Head(queue[p]) /\ queue'[p] = Tail(queue[p])
          BY <4>2, <3>3, <1>26, <1>1 DEF PinTake
        <5>2. /\ n \in Nat /\ n > 0 /\ Len(Tail(queue[p])) = n - 1 /\ Head(queue[p]) = queue[p][1]
              /\ \A i \in 1 .. n - 1 : Tail(queue[p])[i] = queue[p][i + 1]
              /\ Tail(queue[p]) # <<>> <=> n > 1
              /\ \A i \in 1 .. n : queue[p][i] \in Some
          BY <4>2, <1>1, Taken
        <5>3. \A i \in 1 .. n : i > 1 => queue[p][i][1] = round
          BY DEF RoundInv, Sound
        <5>4. LastOf(p)' = l /\ Begun(p) = l /\ l \in Nat
          <6>1. last[p] # None => last[p] \in Some
            BY <1>1
          <6> QED
            BY <6>1, <5>1, <3>1 DEF LastOf, Begun, Held, Of, Some
        <5> HIDE DEF n, l
        <5>5. Begun(p)' = l + (IF Of(queue[p][1], round) THEN 1 ELSE 0)
          BY <5>1, <5>2, <5>4, <3>1 DEF Begun, Held
        <5>6. Skipped(p)' = 0 /\ Skipped(p) = (IF Of(queue[p][1], round) THEN 0 ELSE 1)
          <6>1. n > 1 => Of(queue[p][2], round)
            BY <5>2, <5>3 DEF Of, Some, None
          <6> QED
            BY <6>1, <4>2, <5>1, <5>2, <3>1 DEF Skipped
        <5>7. NotPassed(p)' /\ NotCleared(p)' /\ (~Broken(p)' => ~Broken(p))
          BY <5>1, <3>1 DEF NotPassed, NotCleared, Broken
        <5>8. Begun(p)' - Skipped(p)' = Begun(p) + 1 - Skipped(p)
          BY <5>4, <5>5, <5>6
        <5>9. Handled(p)' = Handled(p)
          BY <3>1, <1>0 DEF Handled
        <5>10. Counted(p) => Counted(p)'
          <6>1. Begun(p)' + (n - 1) - Skipped(p)' = Begun(p) + n - Skipped(p)
            BY <5>2, <5>4, <5>5, <5>6
          <6> QED
            BY <6>1, <5>1, <5>2, <5>9, <3>1, <1>0 DEF Counted, n
        <5>11. ASSUME Numbered(p) PROVE Numbered(p)'
          <6>1. Of(queue[p][1], round) => queue[p][1][2] = l + 1
            <7>1. 1 \in 1 .. n
              BY <5>2
            <7>2. 1 > Skipped(p) => queue[p][1][2] = l + 1 - Skipped(p)
              BY <7>1, <5>4, <5>11 DEF Numbered, n
            <7> QED
              BY <7>2, <5>4, <5>6
          <6>2. ASSUME NEW i \in 1 .. n - 1, i > Skipped(p)'
                PROVE  queue'[p][i][2] = Begun(p)' + i - Skipped(p)'
            <7>1. i + 1 \in 1 .. n /\ i + 1 > Skipped(p) /\ i \in Nat
              BY <6>2, <5>2, <5>6
            <7>2. queue[p][i + 1][2] = Begun(p) + (i + 1) - Skipped(p)
              BY <7>1, <5>11 DEF Numbered, n
            <7>3. Begun(p) + (i + 1) - Skipped(p) = Begun(p)' + i - Skipped(p)'
              BY <7>1, <5>4, <5>5, <5>6
            <7> QED
              BY <7>2, <7>3, <6>2, <5>1, <5>2
          <6>3. Len(queue'[p]) = n - 1
            BY <5>1, <5>2
          <6> QED
            BY <6>1, <6>2, <6>3, <5>1, <5>2, <5>4, <3>1 DEF Numbered
        <5> QED
          BY <5>7, <5>10, <5>11, <3>1 DEF ChainInv
      <4> QED
        BY <4>1, <4>2
    <3> QED
      BY <3>2, <3>3
  <2> QED
    BY <2>1, <2>2
<1>27. ASSUME NEW q \in Pins, PinCheck(q) PROVE ChainInv(p)'
  <2>1. CASE ~Demuxing'
    BY <2>1 DEF ChainInv
  <2>2. CASE Demuxing'
    <3>1. /\ UNCHANGED <<apc, fpc, fpin, round, active, nextPacket>> /\ Demuxing
      BY <2>2, <1>27 DEF PinCheck, AgainOrTop, Demuxing
    <3>2. CASE q # p
      <4>1. /\ queue'[p] = queue[p] /\ last'[p] = last[p] /\ hand'[p] = hand[p]
            /\ ppc'[p] = ppc[p] /\ hr'[p] = hr[p] /\ hrDeliver'[p] = hrDeliver[p]
            /\ pFlushed'[p] = pFlushed[p]
        BY <3>2, <1>27, <1>1 DEF PinCheck, AgainOrTop
      <4> QED
        BY <4>1, <3>1, <1>0, ChainOther
    <3>3. CASE q = p
      <4>1. /\ queue' = queue /\ last' = last /\ hr' = hr /\ hrDeliver' = hrDeliver
            /\ ppc[p] = "check"
            /\ \/ hrDeliver[p] = "ok" /\ ppc'[p] = "mark" /\ hand' = hand
               \/ hrDeliver[p] # "ok" /\ ppc'[p] \in {"take", "top"}
        BY <3>3, <1>27, <1>1 DEF PinCheck, AgainOrTop
      <4>2. NotPassed(p)' /\ NotCleared(p)'
        BY <4>1 DEF NotPassed, NotCleared
      <4>3. CASE hrDeliver[p] # "ok"
        BY <4>1, <4>2, <4>3 DEF ChainInv, Broken
      <4>4. CASE hrDeliver[p] = "ok"
        <5>1. Held(p) /\ Held(p)' /\ LastOf(p)' = LastOf(p) /\ hand'[p] = hand[p]
          BY <4>1, <4>4, <3>1 DEF Held, LastOf, Of
        <5>2. ~Broken(p)
          BY <4>1, <4>4 DEF Broken
        <5> QED
          BY <4>1, <4>2, <5>1, <5>2, <3>1, <1>0, ChainKept DEF Begun
      <4> QED
        BY <4>3, <4>4
    <3> QED
      BY <3>2, <3>3
  <2> QED
    BY <2>1, <2>2
<1>28. ASSUME NEW q \in Pins, PinMark(q) PROVE ChainInv(p)'
  <2>1. CASE ~Demuxing'
    BY <2>1 DEF ChainInv
  <2>2. CASE Demuxing'
    <3>1. /\ UNCHANGED <<apc, fpc, fpin, round, active, nextPacket>> /\ Demuxing
      BY <2>2, <1>28 DEF PinMark, Demuxing
    <3>2. CASE q # p
      <4>1. /\ queue'[p] = queue[p] /\ last'[p] = last[p] /\ hand'[p] = hand[p]
            /\ ppc'[p] = ppc[p] /\ hr'[p] = hr[p] /\ hrDeliver'[p] = hrDeliver[p]
            /\ pFlushed'[p] = pFlushed[p]
        BY <3>2, <1>28, <1>1 DEF PinMark
      <4> QED
        BY <4>1, <3>1, <1>0, ChainOther
    <3>3. CASE q = p
      <4>1. /\ queue' = queue /\ last' = last /\ hr' = hr /\ hrDeliver' = hrDeliver /\ hand' = hand
            /\ ppc[p] = "mark" /\ ppc'[p] = "deliver" /\ ~pFlushed'[p]
        BY <3>3, <1>28, <1>1 DEF PinMark
      <4>2. Held(p) /\ Held(p)' /\ LastOf(p)' = LastOf(p)
        BY <4>1, <3>1 DEF Held, LastOf, Of
      <4>3. NotPassed(p)' /\ NotCleared(p)' /\ (~Broken(p)' => ~Broken(p))
        BY <4>1, <3>1 DEF NotPassed, NotCleared, Broken, ChainInv
      <4> QED
        BY <4>1, <4>2, <4>3, <3>1, <1>0, ChainKept DEF Begun
    <3> QED
      BY <3>2, <3>3
  <2> QED
    BY <2>1, <2>2
<1>29. ASSUME NEW q \in Pins, PinDeliver(q) PROVE ChainInv(p)'
  <2>1. CASE ~Demuxing'
    BY <2>1 DEF ChainInv
  <2>2. CASE Demuxing'
    <3>1. /\ UNCHANGED <<apc, fpc, fpin, round, active, nextPacket>> /\ Demuxing
      BY <2>2, <1>29 DEF PinDeliver, DeliveryEnds, Demuxing
    <3>2. CASE q # p
      <4>1. /\ queue'[p] = queue[p] /\ last'[p] = last[p] /\ hand'[p] = hand[p]
            /\ ppc'[p] = ppc[p] /\ hr'[p] = hr[p] /\ hrDeliver'[p] = hrDeliver[p]
            /\ pFlushed'[p] = pFlushed[p]
        BY <3>2, <1>29, <1>1 DEF PinDeliver, DeliveryEnds
      <4> QED
        BY <4>1, <3>1, <1>0, ChainOther
    <3>3. CASE q = p
      <4>1. /\ queue' = queue /\ hand' = hand /\ hrDeliver' = hrDeliver /\ pFlushed' = pFlushed
            /\ ppc[p] = "deliver" /\ ppc'[p] = "waitFlush"
            /\ \/ hr'[p] = "ok" /\ last'[p] = hand[p]
               \/ hr'[p] # "ok" /\ last'[p] = last[p]
        BY <3>3, <1>29, <1>1 DEF PinDeliver, DeliveryEnds
      <4>2. Held(p) /\ ~Held(p)' /\ hand[p] \in Some /\ hand[p] # None
        BY <4>1, <1>1, SomeIsNotNone DEF Held, HandPlaces
      <4>3. NotPassed(p)' /\ NotCleared(p)'
        BY <4>1, <3>1 DEF NotPassed, NotCleared, ChainInv
      <4>4. ~Broken(p)' => hr'[p] = "ok" \/ ~Of(hand[p], round)
        BY <4>1, <3>1 DEF Broken
      <4>5. ~Broken(p)' => ~Broken(p)
        BY <4>1 DEF Broken
      <4>6. ASSUME ~Broken(p)' PROVE LastOf(p)' = Begun(p)
        <5>1. CASE Of(hand[p], round)
          <6>1. hand[p][2] = LastOf(p) + 1
            BY <5>1, <4>2, <4>5, <4>6, <3>1 DEF ChainInv, Numbered
          <6>2. LastOf(p)' = hand[p][2]
            BY <5>1, <4>1, <4>4, <4>6, <3>1 DEF LastOf
          <6> QED
            BY <6>1, <6>2, <5>1, <4>2 DEF Begun
        <5>2. CASE ~Of(hand[p], round)
          <6>1. ~Of(last[p], round) /\ ~Of(last'[p], round)
            BY <5>2, <4>1, <4>2 DEF RoundInv, InOrder
          <6> QED
            BY <6>1, <5>2, <3>1 DEF Begun, LastOf
        <5> QED
          BY <5>1, <5>2
      <4>7. CASE Broken(p)'
        BY <4>3, <4>7 DEF ChainInv
      <4>8. CASE ~Broken(p)'
        <5>1. LastOf(p)' + 0 = Begun(p) /\ LastOf(p)' \in Nat
          <6>1. last'[p] # None => last'[p] \in Some
            BY <4>1, <4>2, <1>1
          <6> QED
            BY <6>1, <4>6, <4>8, <3>1 DEF LastOf, Of, Some
        <5> QED
          BY <5>1, <4>1, <4>2, <4>3, <4>5, <3>1, <1>0, ChainKept
      <4> QED
        BY <4>7, <4>8
    <3> QED
      BY <3>2, <3>3
  <2> QED
    BY <2>1, <2>2
<1>30. ASSUME NEW q \in Pins, PinFail(q) PROVE ChainInv(p)'
  <2>1. CASE ~Demuxing'
    BY <2>1 DEF ChainInv
  <2>2. CASE Demuxing'
    <3>1. /\ UNCHANGED <<apc, fpc, fpin, round, active, nextPacket>> /\ Demuxing
      BY <2>2, <1>30 DEF PinFail, DeliveryEnds, Demuxing
    <3>2. CASE q # p
      <4>1. /\ queue'[p] = queue[p] /\ last'[p] = last[p] /\ hand'[p] = hand[p]
            /\ ppc'[p] = ppc[p] /\ hr'[p] = hr[p] /\ hrDeliver'[p] = hrDeliver[p]
            /\ pFlushed'[p] = pFlushed[p]
        BY <3>2, <1>30, <1>1 DEF PinFail, DeliveryEnds
      <4> QED
        BY <4>1, <3>1, <1>0, ChainOther
    <3>3. CASE q = p
      <4>1. /\ queue' = queue /\ hand' = hand /\ hrDeliver' = hrDeliver /\ pFlushed' = pFlushed
            /\ ppc[p] = "deliver" /\ ppc'[p] = "waitFlush"
            /\ \/ hr'[p] = "ok" /\ last'[p] = hand[p]
               \/ hr'[p] # "ok" /\ last'[p] = last[p]
        BY <3>3, <1>30, <1>1 DEF PinFail, DeliveryEnds
      <4>2. Held(p) /\ ~Held(p)' /\ hand[p] \in Some /\ hand[p] # None
        BY <4>1, <1>1, SomeIsNotNone DEF Held, HandPlaces
      <4>3. NotPassed(p)' /\ NotCleared(p)'
        BY <4>1, <3>1 DEF NotPassed, NotCleared, ChainInv
      <4>4. ~Broken(p)' => hr'[p] = "ok" \/ ~Of(hand[p], round)
        BY <4>1, <3>1 DEF Broken
      <4>5. ~Broken(p)' => ~Broken(p)
        BY <4>1 DEF Broken
      <4>6. ASSUME ~Broken(p)' PROVE LastOf(p)' = Begun(p)
        <5>1. CASE Of(hand[p], round)
          <6>1. hand[p][2] = LastOf(p) + 1
            BY <5>1, <4>2, <4>5, <4>6, <3>1 DEF ChainInv, Numbered
          <6>2. LastOf(p)' = hand[p][2]
            BY <5>1, <4>1, <4>4, <4>6, <3>1 DEF LastOf
          <6> QED
            BY <6>1, <6>2, <5>1, <4>2 DEF Begun
        <5>2. CASE ~Of(hand[p], round)
          <6>1. ~Of(last[p], round) /\ ~Of(last'[p], round)
            BY <5>2, <4>1, <4>2 DEF RoundInv, InOrder
          <6> QED
            BY <6>1, <5>2, <3>1 DEF Begun, LastOf
        <5> QED
          BY <5>1, <5>2
      <4>7. CASE Broken(p)'
        BY <4>3, <4>7 DEF ChainInv
      <4>8. CASE ~Broken(p)'
        <5>1. LastOf(p)' + 0 = Begun(p) /\ LastOf(p)' \in Nat
          <6>1. last'[p] # None => last'[p] \in Some
            BY <4>1, <4>2, <1>1
          <6> QED
            BY <6>1, <4>6, <4>8, <3>1 DEF LastOf, Of, Some
        <5> QED
          BY <5>1, <4>1, <4>2, <4>3, <4>5, <3>1, <1>0, ChainKept
      <4> QED
        BY <4>7, <4>8
    <3> QED
      BY <3>2, <3>3
  <2> QED
    BY <2>1, <2>2
<1>31. ASSUME NEW q \in Pins, PinWaitEndFlush(q) PROVE ChainInv(p)'
  <2>1. CASE ~Demuxing'
    BY <2>1 DEF ChainInv
  <2>2. CASE Demuxing'
    <3>1. /\ UNCHANGED <<apc, fpc, fpin, round, active, nextPacket>> /\ Demuxing
      BY <2>2, <1>31 DEF PinWaitEndFlush, Demuxing
    <3>2. CASE q # p
      <4>1. /\ queue'[p] = queue[p] /\ last'[p] = last[p] /\ hand'[p] = hand[p]
            /\ ppc'[p] = ppc[p] /\ hr'[p] = hr[p] /\ hrDeliver'[p] = hrDeliver[p]
            /\ pFlushed'[p] = pFlushed[p]
        BY <3>2, <1>31, <1>1 DEF PinWaitEndFlush
      <4> QED
        BY <4>1, <3>1, <1>0, ChainOther
    <3>3. CASE q = p
      <4>1. /\ queue' = queue /\ last' = last /\ hr' = hr /\ hrDeliver' = hrDeliver /\ hand' = hand
            /\ pFlushed' = pFlushed /\ ppc[p] = "waitFlush" /\ ppc'[p] = "report"
        BY <3>3, <1>31, <1>1 DEF PinWaitEndFlush
      <4>2. ~Held(p) /\ ~Held(p)' /\ LastOf(p)' = LastOf(p)
        BY <4>1, <3>1 DEF Held, LastOf, Of
      <4>3. NotPassed(p)' /\ NotCleared(p)' /\ (~Broken(p)' => ~Broken(p))
        BY <4>1, <3>1 DEF NotPassed, NotCleared, Broken, ChainInv, Of
      <4> QED
        BY <4>1, <4>2, <4>3, <3>1, <1>0, ChainKept DEF Begun
    <3> QED
      BY <3>2, <3>3
  <2> QED
    BY <2>1, <2>2
<1>32. ASSUME NEW q \in Pins, PinReport(q) PROVE ChainInv(p)'
  <2>1. CASE ~Demuxing'
    BY <2>1 DEF ChainInv
  <2>2. CASE Demuxing'
    <3>1. /\ UNCHANGED <<apc, fpc, fpin, round, active, nextPacket>> /\ Demuxing
      BY <2>2, <1>32 DEF PinReport, AgainOrTop, Demuxing
    <3>2. CASE q # p
      <4>1. /\ queue'[p] = queue[p] /\ last'[p] = last[p] /\ hand'[p] = hand[p]
            /\ ppc'[p] = ppc[p] /\ hr'[p] = hr[p] /\ hrDeliver'[p] = hrDeliver[p]
            /\ pFlushed'[p] = pFlushed[p]
        BY <3>2, <1>32, <1>1 DEF PinReport, AgainOrTop
      <4> QED
        BY <4>1, <3>1, <1>0, ChainOther
    <3>3. CASE q = p
      <4>1. /\ queue' = queue /\ last' = last /\ hr' = hr /\ pFlushed' = pFlushed
            /\ \/ /\ ppc[p] = "report" /\ hr[p] # "ok" /\ ppc'[p] = "store" /\ hand' = hand
                  /\ hrDeliver' = hrDeliver
               \/ /\ ppc[p] = "report" /\ (hr[p] = "ok" \/ pFlushed[p]) /\ ppc'[p] \in {"take", "top"}
                  /\ hrDeliver' = hrDeliver
               \/ /\ ppc[p] = "store" /\ ppc'[p] = "top" /\ hrDeliver'[p] = hr[p]
        BY <3>3, <1>32, <1>1 DEF PinReport, AgainOrTop
      <4>2. ~Held(p) /\ ~Held(p)' /\ LastOf(p)' = LastOf(p)
        BY <4>1, <3>1 DEF Held, LastOf, Of
      <4>3. NotPassed(p)' /\ NotCleared(p)'
        BY <4>1, <3>1 DEF NotPassed, NotCleared
      <4>4. ~Broken(p)' => ~Broken(p)
        <5>1. ppc[p] = "store" => hr[p] # "ok"
          BY DEF QueueInv
        <5>2. NotCleared(p)
          BY <3>1 DEF ChainInv
        <5> QED
          BY <5>1, <5>2, <4>1, <3>1 DEF Broken, NotCleared
      <4> QED
        BY <4>1, <4>2, <4>3, <4>4, <3>1, <1>0, ChainKept DEF Begun
    <3> QED
      BY <3>2, <3>3
  <2> QED
    BY <2>1, <2>2
<1>33. CASE UNCHANGED vars
  <2>1. /\ UNCHANGED <<round, active, apc, fpc, fpin, nextPacket, queue, last, hand, ppc, hr>>
        /\ UNCHANGED <<hrDeliver, pFlushed>>
    BY <1>33 DEF vars
  <2>2. CASE Demuxing
    BY <2>1, <2>2, <1>0, ChainOther
  <2>3. CASE ~Demuxing
    BY <2>1, <2>3 DEF ChainInv, Demuxing
  <2> QED
    BY <2>2, <2>3
<1> QED
  BY <1>2, <1>3, <1>4, <1>5, <1>6, <1>7, <1>8, <1>9, <1>10, <1>11, <1>12, <1>13, <1>14, <1>15, <1>16,
     <1>17, <1>18, <1>19, <1>20, <1>21, <1>22, <1>23, <1>24, <1>25, <1>26, <1>27, <1>28, <1>29, <1>30, <1>31,
     <1>32, <1>33 DEF Next, App, AppStep, Filter, Pin

------------------------------------------------------------------------------
(* The invariant, and what it implies.                                     *)

\* A pin that started late stays one.
LEMMA LateGrows ==
  ASSUME [Next]_vars
  PROVE  lateStart \subseteq lateStart'
  BY DEF Next, vars, plocal, App, AppStep, Filter, Pin, Pause, Seek, Stop, BeginFlushFilter,
    BeginFlushPin, CallWorker, WorkerReplied, EndFlushPin, EndFlushFilter, InactivePin,
    Start, Started, InitFailed, DemuxSeek, WaitEndFlush, NewSegment, DemuxLoop, QueuePacket,
    DeliverPacket, QueueEndOfStream, GetRequest, Exit, FilterUnchanged,
    PinStart, PinTop, PinTake, PinCheck, PinMark, PinDeliver, DeliveryEnds, PinFail,
    PinWaitEndFlush, PinReport

\* The invariant holds when the filter has been built.
LEMMA InitInvariant ==
  ASSUME Init
  PROVE  IInv
<1>1. AppTypes
  BY SplitterAssumption DEF Init, AppTypes, AppPhases, PinPhases, BeginPhases, EndPhases
<1>2. NumPins \in Nat /\ NumPins > 0 /\ Eos \in Nat /\ Eos > 1 /\ Pins = 1 .. NumPins
  BY <1>1, Graph
<1>3. FilterTypes
  BY <1>2 DEF Init, FilterTypes, LoopPlaces, SeekPlaces, PacketPlaces, EosPlaces, EosPinPlaces
<1>4. PinTypes
  BY DEF Init, PinTypes, PinPlaces, Results
<1>5. PacketTypes
  <2>1. <<>> \in Seq(Some)
    BY EmptySeq
  <2> QED
    BY <2>1 DEF Init, PacketTypes, HandPlaces, None
<1>6. Threads /\ PacketsRemain
  BY <1>2 DEF Init, Threads, PacketsRemain, PacketPlaces
<1>7. Control /\ SeekInv
  BY DEF Init, Control, Answered, EndPhases, SeekInv, LoopPlaces, PacketPlaces, EosPlaces
<1>8. ASSUME NEW p \in Pins PROVE QueueInv(p) /\ RoundInv(p) /\ ChainInv(p)
  <2>1. queue[p] = <<>> /\ Len(queue[p]) = 0 /\ HardCap \in Nat
    BY SplitterAssumption, EmptySeq DEF Init
  <2>2. /\ apc = "idle" /\ fpc = "none" /\ lateStart = {} /\ ppc[p] = "none" /\ hrDeliver[p] = "ok"
        /\ segment[p] = 0 /\ stale[p] = 0 /\ last[p] = None /\ round = 0
    BY DEF Init
  <2>3. QueueInv(p)
    BY <2>1, <2>2 DEF QueueInv, Fits, At, Emptied, EmptiedBefore, BeginPhases, EndPhases
  <2>4. RoundInv(p)
    BY <2>1, <2>2 DEF RoundInv, Short, Sound, FewStale, Older, InOrder, Fresh, Held, HandPlaces, Of
  <2>5. ChainInv(p)
    BY <2>2 DEF ChainInv, Demuxing, PacketPlaces, EosPlaces
  <2> QED
    BY <2>3, <2>4, <2>5
<1> QED
  BY <1>1, <1>3, <1>4, <1>5, <1>6, <1>7, <1>8 DEF IInv, Types, CInv, QInv, RInv

\* Every step keeps the invariant.
LEMMA StepInvariant ==
  ASSUME IInv, [Next]_vars
  PROVE  IInv'
<1> USE DEF IInv
<1>1. Pins' = Pins /\ MayTimeOut' = MayTimeOut
  BY SameGraph
<1>2. Types'
  BY AppTypesStep, FilterTypesStep, PinTypesStep, PacketTypesStep DEF Types
<1>3. Threads'
  BY ThreadsStep
<1>4. PacketsRemain'
  BY PacketsRemainStep
<1>5. CInv'
  BY <1>1, ControlStep, SeekStep DEF CInv
<1>6. QInv'
  BY <1>1, QueueStep DEF QInv
<1>7. RInv'
  <2> SUFFICES ASSUME ~MayTimeOut, NEW p \in Pins, p \notin lateStart'
               PROVE  RoundInv(p)' /\ ChainInv(p)'
    BY <1>1 DEF RInv
  <2>1. p \notin lateStart
    BY LateGrows
  <2>2. RoundInv(p) /\ ChainInv(p) /\ QueueInv(p) /\ Control
    BY <2>1 DEF RInv, QInv, CInv
  <2> QED
    BY <2>2, RoundStep, ChainStep
<1> QED
  BY <1>2, <1>3, <1>4, <1>5, <1>6, <1>7

\* The invariant holds in every state of every execution, for every set of graphs
\* and any number of pins, packets and operations.
THEOREM Invariant == Spec => []IInv
<1>1. Init => IInv
  BY InitInvariant
<1>2. IInv /\ [Next]_vars => IInv'
  BY StepInvariant
<1> QED
  BY <1>1, <1>2, PTL DEF Spec

\* When Pause, a seek or Stop has returned, the demuxing thread reads from the
\* position that was asked for last (m_rtStart = m_rtNewStart), if no CallWorker
\* can be given up.
THEOREM SoughtPosition == Spec => []SeekTakesEffect
<1>1. IInv => SeekTakesEffect
  BY DEF IInv, CInv, SeekInv, SeekTakesEffect, Unanswered, LoopPlaces, PacketPlaces, EosPlaces,
    BeginPhases
<1> QED
  BY <1>1, Invariant, PTL

\* A flush lets at most two packets of an older seek through after NewSegment, and
\* a queue never passes MAXPACKETSIZE*100 by more than the packet being added (two
\* for a pin whose thread started late): the flags the two threads write and read
\* without a lock are enough for that.
THEOREM Bounded == Spec => []Bounds
<1>1. ASSUME IInv PROVE StaleBound
  <2> SUFFICES ASSUME ~MayTimeOut, NEW p \in Pins \ lateStart PROVE stale[p] <= 2
    BY DEF StaleBound
  <2>1. FewStale(p) /\ stale[p] \in Nat
    BY <1>1 DEF IInv, RInv, RoundInv, Types, PacketTypes
  <2>2. Older(p) \in {0, 1, 2}
    BY DEF Older
  <2> QED
    BY <2>1, <2>2 DEF FewStale
<1>2. ASSUME IInv PROVE QueueBound
  <2> SUFFICES ASSUME NEW p \in Pins
               PROVE  \/ Len(queue[p]) <= HardCap + 1
                      \/ p \in lateStart /\ (MayTimeOut \/ Len(queue[p]) <= HardCap + 2)
    BY DEF QueueBound
  <2>1. QueueInv(p) /\ HardCap \in Nat
    BY <1>2, SplitterAssumption DEF IInv, QInv
  <2>2. Len(queue[p]) \in Nat
    BY <1>2, LenProperties DEF IInv, Types, PacketTypes
  <2> QED
    BY <2>1, <2>2 DEF QueueInv, Fits
<1>3. IInv => Bounds
  BY <1>1, <1>2 DEF Bounds
<1> QED
  BY <1>3, Invariant, PTL

\* A packet is accepted downstream only when the pin's thread delivers the one it
\* holds.
LEMMA LastChanges ==
  ASSUME NEW p \in Pins, Types, [Next]_vars, last'[p] # last[p]
  PROVE  ppc[p] = "deliver" /\ last'[p] = hand[p]
<1>1. \/ last' = last
      \/ \E q \in Pins : ppc[q] = "deliver" /\ last' = [last EXCEPT ![q] = hand[q]]
  BY DEF Next, vars, dvars, App, AppStep, Filter, Pin, Pause, Seek, Stop, BeginFlushFilter,
    BeginFlushPin, CallWorker, WorkerReplied, EndFlushPin, EndFlushFilter, InactivePin,
    Start, Started, InitFailed, DemuxSeek, WaitEndFlush, NewSegment, DemuxLoop, QueuePacket,
    DeliverPacket, QueueEndOfStream, GetRequest, Exit,
    PinStart, PinTop, PinTake, PinCheck, PinMark, PinDeliver, DeliveryEnds, PinFail,
    PinWaitEndFlush, PinReport
<1>2. last \in [Pins -> Some \cup {None}]
  BY DEF Types, PacketTypes
<1> QED
  BY <1>1, <1>2

\* A packet that is accepted outside an operation follows the one accepted before.
LEMMA NextInLine ==
  ASSUME IInv, [Next]_vars, ~MayTimeOut, NEW p \in Pins \ lateStart,
         last'[p] # last[p], last'[p][1] = round, last'[p][2] > 1,
         apc = "idle", fpc \notin {"none", "start", "started", "initFailed", "seek"}
  PROVE  last[p] = <<round, last'[p][2] - 1, p>>
<1>1. Types /\ Control /\ RoundInv(p) /\ ChainInv(p)
  BY DEF IInv, CInv, RInv
<1>2. ppc[p] = "deliver" /\ last'[p] = hand[p]
  BY <1>1, LastChanges
<1>3. hand[p] \in Some /\ hand[p] # None /\ (last[p] # None => last[p] \in Some)
  BY <1>1, <1>2, SomeIsNotNone DEF Types, PacketTypes, HandPlaces
<1>4. Of(hand[p], round) /\ Held(p)
  BY <1>2, <1>3 DEF Of, Held
<1>5. fpc \notin {"waitFlush", "newSegment"}
  BY <1>1, <1>2, <1>4 DEF RoundInv, Fresh, HandPlaces
<1>6. fpc \notin {"reply", "exit"}
  BY <1>1 DEF Control
<1>7. Demuxing
  BY <1>1, <1>5, <1>6 DEF Demuxing, Types, FilterTypes, LoopPlaces, SeekPlaces
<1>8. hrDeliver[p] = "ok" /\ ~Broken(p)
  BY <1>1, <1>2, <1>4, <1>7 DEF ChainInv, NotPassed, Broken
<1>9. hand[p][2] = LastOf(p) + 1
  BY <1>1, <1>4, <1>7, <1>8 DEF ChainInv, Numbered
<1>10. Of(last[p], round) /\ last[p][2] = hand[p][2] - 1
  <2>1. LastOf(p) # 0
    BY <1>2, <1>9
  <2>2. Of(last[p], round) /\ LastOf(p) = last[p][2]
    BY <2>1 DEF LastOf
  <2>3. last[p][2] \in Nat
    BY <2>2, <1>3 DEF Of, Some
  <2> QED
    BY <2>2, <2>3, <1>9
<1>11. last[p] \in Some /\ last[p][1] = round /\ last[p][3] = p
  BY <1>1, <1>3, <1>10 DEF RoundInv, Sound, Of
<1> QED
  BY <1>2, <1>10, <1>11 DEF Some

\* Outside an operation no packet of the round is lost between two that a pin
\* delivers, the end of the stream included, if its thread was running before the
\* application flushed and no CallWorker can be given up.
THEOREM NoGap == Spec => Gapless
<1>1. IInv /\ [Next]_vars =>
        \A p \in Pins \ lateStart :
         /\ last'[p] # last[p] /\ last'[p][1] = round /\ last'[p][2] > 1
         /\ apc = "idle" /\ ~MayTimeOut
         /\ fpc \notin {"none", "start", "started", "initFailed", "seek"}
         => last[p] = <<round, last'[p][2] - 1, p>>
  BY NextInLine
<1> QED
  BY <1>1, Invariant, PTL DEF Spec, Gapless
==============================================================================
