------------------------ MODULE StreamSwitcherProofs ------------------------
(***************************************************************************)
(* The stream switcher for every number of inputs, splitters, positions    *)
(* and packets, every layout of the inputs over the splitters, and any     *)
(* number of operations.  The invariant has these parts:                   *)
(*   - types, and which operation each phase of the application belongs    *)
(*     to;                                                                 *)
(*   - seeks: what the filter of SetPositionsInternal remembers of the     *)
(*     seekers that have passed in this operation and of earlier ones;     *)
(*   - requests: CMD_SEEK is pending only while the application waits for  *)
(*     it, or for good once a CallWorker has given up;                     *)
(*   - formats: one thread at a time is past the test of m_pInput;         *)
(*   - samples: the samples out of place are of a Receive that was under   *)
(*     way and of the packet that QueuePacket added behind RemoveAll, and  *)
(*     both of an input are of before the last flush of the renderer; a    *)
(*     sample of the current round is not ahead of a seek that its         *)
(*     splitter has still to make.                                         *)
(* A lemma for each says that every step keeps it, with a step per action. *)
(* The bounds on the operations play no part.                              *)
(***************************************************************************)
EXTENDS StreamSwitcher, WellFoundedInduction, TLAPS

------------------------------------------------------------------------------
(* Where the application and the threads are.                              *)

StartPhases  == {"startSplitter", "run"}
SelectPhases == {"deselect", "open", "gates", "flush", "endFlush", "setInput", "openNew"}
FlushPhases  == {"beginPin", "call", "wait", "endPin", "endFilter"}
SeekPhases   == FlushPhases \cup {"seeker", "resume"}
StopPhases   == {"stopSplitter", "inactive", "inactiveWait"}
AppPhases    == StartPhases \cup SelectPhases \cup SeekPhases \cup StopPhases \cup {"idle"}

DemuxPlaces == {"none", "segments", "newSegment", "demux", "waitFlush"}
ReceivePlaces == {"check", "typeFlush", "buffer", "rebuffer", "eosDeliver"}
AheadPlaces == ReceivePlaces \cup {"test", "eosTest", "gate", "active", "eos"}
PinPlaces == AheadPlaces \cup {"none", "top", "endWait"}

\* SetPositions is passed on for the video and for every input.
Seekers == 0 .. NumInputs

------------------------------------------------------------------------------
(* The invariant.                                                          *)

\* The types of the application's variables, and the range of its loops.
AppTypes ==
    /\ layout \in Layouts
    /\ apc \in AppPhases /\ aop \in {"none", "start", "select", "seek", "stop"}
    /\ target \in Inputs /\ position \in Positions
    /\ ak \in Nat
    /\ apc \in SeekPhases /\ aop # "stop" => ak \in Seekers
    /\ apc = "startSplitter" \/
       (apc \in FlushPhases \cup {"inactive", "inactiveWait"} /\ aop = "stop")
         => ak \in Splitters
    /\ apc = "stopSplitter" => ak > 0

\* The types of the switcher's variables and of what the renderer has.
SwitchTypes ==
    /\ mInput \in Inputs \cup {NoInput} /\ outType \in Inputs
    /\ from \subseteq Inputs /\ strays \in [Inputs -> Nat] /\ garbled \in BOOLEAN

\* The types of the variables no other part of the invariant is about.
OutputTypes ==
    /\ sink \in {"stopped", "paused", "running"} /\ ended \subseteq Inputs
    /\ silent \subseteq Splitters /\ lost \subseteq {"gaveUp", "late"}

\* The types of the filters of SetPositionsInternal and of their history.
SeekTypes ==
    /\ rtCurrent \in [Splitters -> Nat] /\ rtLastStart \in [Splitters -> Nat]
    /\ lastSeekers \in [Splitters -> SUBSET Nat]
    /\ real \in [Splitters -> Nat] /\ early \in SUBSET Splitters

\* The types of the threads' variables.
ThreadTypes ==
    /\ fpc \in [Splitters -> DemuxPlaces] /\ fReq \in [Splitters -> {"none", "seek", "exit"}]
    /\ fDone \in [Splitters -> BOOLEAN]
    /\ ppc \in [Inputs -> PinPlaces] /\ pEndFlush \in [Inputs -> BOOLEAN]
    /\ cursor \in [Inputs -> Nat] /\ behind \in [Inputs -> Nat]
    /\ fresh \in [Inputs -> BOOLEAN]

Types == AppTypes /\ SwitchTypes /\ SeekTypes /\ ThreadTypes

\* SetPositions is called by a seek and, through ResumeGraph, by a selection.
Positioning == aop \in {"seek", "select"}

\* The phases of each operation; m_pInput is NULL while SelectInput works on the
\* gates; the loops over m_pOutputs are entered for a splitter that has pins, and
\* so are the threads; no operation follows a CallWorker that has given up.
Control ==
    /\ aop = "none" <=> apc = "idle"
    /\ apc \in SelectPhases => aop = "select"
    /\ apc \in {"seeker", "resume"} => Positioning
    /\ apc \in StopPhases => aop = "stop"
    /\ apc \in StartPhases => aop = "start"
    /\ apc \in FlushPhases => Positioning \/ aop = "stop"
    /\ apc \in {"open", "gates", "flush", "endFlush", "setInput"} => mInput = NoInput
    /\ apc \in FlushPhases => PinsOf(Current) # {}
    /\ apc = "beginPin" => apin \in PinsOf(Current)
    /\ apc = "resume" => ak = NumInputs
    /\ \A s \in Splitters : fpc[s] # "none" => PinsOf(s) # {}
    /\ "gaveUp" \in lost =>
          apc \in FlushPhases \cup {"idle", "seeker", "resume"} \cup StopPhases

\* The seekers through which this operation's SetPositions has reached splitter s.
Passed(s) == {k \in Seekers : SplitterAt(k) = s /\ (k < ak \/ (k = ak /\ apc # "seeker"))}

\* Between operations nothing is counted.  During one, a splitter that has taken the
\* seek knows only seekers of this operation, so it drops the others; one that has
\* not, although a seeker has passed, found itself there: a position left over from
\* an earlier operation never makes it drop every seeker of this one.
SeekInv(s) ==
    /\ rtLastStart[s] # Nowhere => lastSeekers[s] # {}
    /\ \A k \in lastSeekers[s] : k \in Seekers /\ s = IF k = NoInput THEN 1 ELSE of(k)
    /\ ~(apc \in SeekPhases /\ Positioning) => real[s] = 0 /\ s \notin early
    /\ apc \in SeekPhases /\ Positioning =>
         /\ real[s] <= 1
         /\ apc \in FlushPhases /\ Current = s => real[s] = 1
         /\ real[s] = 1 => rtLastStart[s] = position /\ lastSeekers[s] \subseteq Passed(s)
         /\ real[s] = 0 /\ s \notin early =>
              IF rtLastStart[s] = position THEN ~ lastSeekers[s] \subseteq Passed(s)
              ELSE Passed(s) = {}

\* An answer is for no pending request.  CMD_SEEK is pending while the application
\* waits for it, or was left behind by a CallWorker that gave up; either way the
\* splitter has taken its seek of the operation, and is not being flushed for another.
RequestInv(s) ==
    /\ fDone[s] => fReq[s] = "none"
    /\ fReq[s] = "seek" =>
         /\ apc = "idle" \/ (apc \in SeekPhases /\ Positioning /\ real[s] = 1)
         /\ "gaveUp" \in lost \/ (apc = "wait" /\ Current = s)
         /\ apc \in {"beginPin", "call"} => Current # s

\* Unless SelectInput was late, only the thread of the selected input is past the
\* test of m_pInput, or the last selected one's while there is none.
FormatInv ==
    "late" \notin lost =>
        /\ \A p \in Inputs : Receiving(p) => mInput \in {p, NoInput}
        /\ \A p, q \in Inputs : Receiving(p) /\ Receiving(q) => p = q
        /\ \A p \in Inputs : ppc[p] = "buffer" => outType = p
        /\ ~garbled

\* The queue of p was emptied and its splitter has still to make a seek.
SeekComes(p) ==
    \/ fReq[of(p)] = "seek"
    \/ /\ Positioning /\ apc \in FlushPhases /\ Current = of(p)
       /\ apc = "call" \/ (apc = "beginPin" /\ p < apin)

\* The window in which SelectInput opens the gates and flushes the renderer.
InWindow == apc \in {"open", "gates", "flush"}

\* What can still become a stray of the selected input: the packet its thread holds,
\* unless it is of the current round and no seek comes, and the one behind RemoveAll.
Held(p)   == IF ppc[p] \in AheadPlaces /\ (fresh[p] => SeekComes(p)) THEN 1 ELSE 0
Queued(p) == IF behind[p] # 0 THEN 1 ELSE 0

\* The renderer has at most one stray of an input that is not selected, for the test
\* of m_pInput holds back what follows.  Of the selected one it has no more than these
\* two, and the queue is given no third one until the renderer is flushed again.
SampleInv(p) ==
    ~InWindow =>
        /\ strays[p] <= IF IsActive(p) THEN 2 ELSE 1
        /\ p \in from => IsActive(p) \/ strays[p] > 0
        /\ strays[p] > 0 /\ ~IsActive(p) => ~Receiving(p)
        /\ IsActive(p) \/ apc \in {"endFlush", "setInput"} =>
              strays[p] + Held(p) + Queued(p) <= 2

\* A pin whose splitter has still to seek has an empty queue.
CursorInv(p) == SeekComes(p) => cursor[p] > Eos

\* Both for every splitter, both for every pin.
SInv == \A s \in Splitters : SeekInv(s) /\ RequestInv(s)
PInv == \A p \in Inputs : CursorInv(p) /\ SampleInv(p)
\* The inductive invariant.
IInv == Types /\ OutputTypes /\ Control /\ SInv /\ FormatInv /\ PInv

------------------------------------------------------------------------------
(* What each thread leaves alone, and the loops over m_pOutputs.           *)

\* No operation changes how the inputs are connected.
LEMMA AppFrame ==
  ASSUME App
  PROVE  layout' = layout
  BY Zenon DEF App, Begin, Start, StartSplitter, Run, Seek, Enable, Deselect, OpenFirst,
    OpenNext, CloseLast, FlushOutput, EndFlushOutput, SetInput, OpenNew, SkipSeek, DropSeek,
    TakeSeek, ResumeGraph, BeginFlushPin, CallWorker, CallReturns, CallTimesOut,
    EndFlushPin, EndFlushFilter, Stop, StopSplitter, Stopped, Inactive, InactiveReturns,
    InactiveTimesOut, Selecting, Flushing, Calling

\* The demuxing threads do not touch the renderer, nor the pins' threads the splitters.
LEMMA DemuxFrame ==
  ASSUME NEW s \in Splitters, Demuxer(s) \/ ReadOn(s)
  PROVE  UNCHANGED <<layout, app, switch, render, rtLastStart, lastSeekers, real, early>>
  BY Zenon DEF Demuxer, Demuxing, WaitEndFlush, SkipPin, UsePin, NewSegment, StartDemux,
    GetRequest, ReadOn

\* Nor the pins' threads the application, the filters of SetPositionsInternal
\* and the demuxing threads.
LEMMA PinFrame ==
  ASSUME NEW p \in Inputs, PinThread(p)
  PROVE  UNCHANGED <<layout, app, mInput, started, evBlock, bFlushing, sink, seekf, demux,
                     pEndFlush, ghost>>
  BY Zenon DEF PinThread, Delivering, Step, Return, AwaitEndFlush, Exit, Remove, TakeLate, Take,
    TestResult, PassGate,
    EnterActive, RefuseInactive, NotStreaming, KeepBuffers, GrowBuffers, EndGrowBuffers,
    SendSample, EnterEnd, InactiveEnd, SendEnd

\* The connections stay as they were when the graph was built.
LEMMA SameLayout ==
  ASSUME [Next]_vars
  PROVE  layout' = layout
<1>1. CASE App
  BY <1>1, AppFrame
<1>2. ASSUME NEW s \in Splitters, Demuxer(s) \/ ReadOn(s) PROVE layout' = layout
  BY <1>2, DemuxFrame
<1>3. ASSUME NEW p \in Inputs, PinThread(p) PROVE layout' = layout
  BY <1>3, PinFrame
<1>4. CASE UNCHANGED vars
  BY <1>4 DEF vars
<1> QED
  BY <1>1, <1>2, <1>3, <1>4 DEF Next

\* A non-empty set of numbers has a least one: the loops over m_pOutputs visit one.
LEMMA Least ==
  ASSUME NEW S \in SUBSET Nat, S # {}
  PROVE  \E m \in S : \A n \in S : m <= n
<1> DEFINE Less == {p \in Nat \X Nat : p[1] < p[2]}
<1>1. IsWellFoundedOn(Less, Nat)
  <2>1. Less = OpToRel(<, Nat)
    BY DEF OpToRel
  <2> QED
    BY <2>1, NatLessThanWellFounded
<1>2. \E m \in S : \A n \in S : ~ (<<n, m>> \in Less)
  BY <1>1, WFMin
<1>3. PICK m \in S : \A n \in S : <<n, m>> \notin Less
  BY <1>2
<1>4. ASSUME NEW n \in S PROVE m <= n
  <2>1. n \in Nat /\ m \in Nat /\ <<n, m>> \in Nat \X Nat
    OBVIOUS
  <2>2. ~ (<<n, m>>[1] < <<n, m>>[2])
    BY <1>3, <2>1
  <2> QED
    BY <2>1, <2>2
<1> QED
  BY <1>4

\* A loop over m_pOutputs begins with the splitter's lowest pin.
LEMMA FirstPinIs ==
  ASSUME NEW s, PinsOf(s) # {}
  PROVE  FirstPin(s) \in PinsOf(s) /\ \A q \in PinsOf(s) : FirstPin(s) <= q
<1>1. PinsOf(s) \in SUBSET Nat
  BY DEF PinsOf, Inputs
<1>2. \E m \in PinsOf(s) : \A q \in PinsOf(s) : m <= q
  BY <1>1, Least
<1> QED
  BY <1>2 DEF FirstPin

\* The next turn of such a loop leaves out no pin, and after the last turn there
\* is none left.
LEMMA AfterPinIs ==
  ASSUME NEW at, NEW then, AfterPin(at, then), apin \in PinsOf(Current)
  PROVE  \/ apc' = then /\ \A q \in PinsOf(Current) : q <= apin
         \/ /\ apc' = at /\ apin' \in PinsOf(Current)
            /\ \A q \in PinsOf(Current) : q < apin' => q <= apin
<1> DEFINE later == {q \in PinsOf(Current) : q > apin}
<1>0. PinsOf(Current) \in SUBSET Nat
  BY DEF PinsOf, Inputs
<1>1. CASE later = {}
  BY <1>0, <1>1 DEF AfterPin
<1>2. CASE later # {}
  <2>1. \E m \in later : \A q \in later : m <= q
    BY <1>0, <1>2, Least
  <2>2. apc' = at /\ apin' \in later /\ \A q \in later : apin' <= q
    BY <1>2, <2>1 DEF AfterPin
  <2> QED
    BY <2>2, <1>0
<1> QED
  BY <1>1, <1>2

\* What the assumption on the constants says of the layout in use.
LEMMA Layout ==
  ASSUME AppTypes
  PROVE  /\ NumInputs \in Nat /\ NumInputs > 0 /\ NumSplitters \in Nat /\ NumSplitters > 0
         /\ LastPosition \in Nat /\ PacketsPerPin \in Nat
         /\ \A p \in Inputs : of(p) \in Splitters
         /\ layout.at \subseteq Positions
  BY SwitcherAssumption DEF AppTypes, of

------------------------------------------------------------------------------
(* Types and control.                                                      *)
\* Every step keeps the types of the application's variables.
LEMMA AppTypesStep ==
  ASSUME AppTypes, Control, [Next]_vars
  PROVE  AppTypes'
<1> USE DEF AppTypes, app, NoInput, Seekers, Inputs, Splitters, Positions, AppPhases,
  StartPhases, SelectPhases, SeekPhases, FlushPhases, StopPhases
<1>0. layout' = layout
  BY SameLayout
<1>1. /\ NumInputs \in Nat /\ NumInputs > 0 /\ NumSplitters \in Nat /\ NumSplitters > 0
      /\ LastPosition \in Nat /\ PacketsPerPin \in Nat
      /\ \A p \in Inputs : of(p) \in Splitters
  BY Layout DEF Types
<1>11. CASE Start
  BY <1>0, <1>1, <1>11 DEF Start, Begin
<1>12. CASE StartSplitter
  BY <1>0, <1>1, <1>12 DEF StartSplitter
<1>13. CASE Run
  BY <1>0, <1>1, <1>13 DEF Run, Idle
<1>14. CASE Seek
  BY <1>0, <1>1, <1>14, Layout DEF Seek, Begin, PauseGraph
<1>15. ASSUME NEW n \in Inputs, Enable(n) PROVE AppTypes'
  BY <1>0, <1>1, <1>15, Layout DEF Enable, Begin, PauseGraph
<1>16. CASE Deselect
  BY <1>0, <1>1, <1>16 DEF Deselect, Selecting
<1>17. CASE OpenFirst
  BY <1>0, <1>1, <1>17 DEF OpenFirst, Selecting
<1>18. CASE OpenNext
  BY <1>0, <1>1, <1>18 DEF OpenNext, Selecting
<1>19. CASE CloseLast
  BY <1>0, <1>1, <1>19 DEF CloseLast, Selecting
<1>20. CASE FlushOutput
  BY <1>0, <1>1, <1>20 DEF FlushOutput, Selecting, DeliverBeginFlush, SinkForgets
<1>21. CASE EndFlushOutput
  BY <1>0, <1>1, <1>21 DEF EndFlushOutput, Selecting, DeliverEndFlush
<1>22. CASE SetInput
  BY <1>0, <1>1, <1>22 DEF SetInput
<1>23. CASE OpenNew
  BY <1>0, <1>1, <1>23 DEF OpenNew, Selecting
<1>24. CASE SkipSeek
  BY <1>0, <1>1, <1>24 DEF SkipSeek, NextSeeker, Control, Positioning
<1>25. CASE DropSeek
  BY <1>0, <1>1, <1>25 DEF DropSeek, NextSeeker, Control, Positioning
<1>26. CASE TakeSeek
  BY <1>0, <1>1, <1>26 DEF TakeSeek, NextSeeker, LoopPins, Control, Positioning
<1>27. CASE ResumeGraph
  BY <1>0, <1>1, <1>27 DEF ResumeGraph, Idle
<1>28. CASE BeginFlushPin
  BY <1>0, <1>1, <1>28 DEF BeginFlushPin, Flushing, BeginFlush, DeliverBeginFlush,
    SinkForgets, AfterPin
<1>29. CASE CallWorker
  BY <1>0, <1>1, <1>29 DEF CallWorker, Calling
<1>30. CASE CallReturns
  BY <1>0, <1>1, <1>30 DEF CallReturns, LoopPins, Control, Positioning
<1>31. CASE CallTimesOut
  BY <1>0, <1>1, <1>31 DEF CallTimesOut, LoopPins, Control, Positioning
<1>32. CASE EndFlushPin
  BY <1>0, <1>1, <1>32 DEF EndFlushPin, Flushing, EndFlush, DeliverEndFlush, AfterPin
<1>33. CASE EndFlushFilter
  BY <1>0, <1>1, <1>33 DEF EndFlushFilter, Flushing, NextSeeker, LoopPins, Control,
    Positioning
<1>34. CASE Stop
  BY <1>0, <1>1, <1>34 DEF Stop, Begin, SinkForgets
<1>35. CASE StopSplitter
  BY <1>0, <1>1, <1>35 DEF StopSplitter, LoopPins, Control, Positioning
<1>36. CASE Stopped
  BY <1>0, <1>1, <1>36 DEF Stopped, Idle
<1>37. CASE Inactive
  BY <1>0, <1>1, <1>37 DEF Inactive, Calling
<1>38. CASE InactiveReturns
  BY <1>0, <1>1, <1>38 DEF InactiveReturns, NextInactive, AfterPin
<1>39. CASE InactiveTimesOut
  BY <1>0, <1>1, <1>39 DEF InactiveTimesOut, NextInactive, AfterPin
<1>40. ASSUME NEW s \in Splitters, Demuxer(s) \/ ReadOn(s) PROVE AppTypes'
  BY <1>0, <1>40, DemuxFrame
<1>41. ASSUME NEW p \in Inputs, PinThread(p) PROVE AppTypes'
  BY <1>0, <1>41, PinFrame
<1>42. CASE UNCHANGED vars
  BY <1>42 DEF vars
<1> QED
  BY <1>11, <1>12, <1>13, <1>14, <1>15, <1>16, <1>17, <1>18, <1>19, <1>20, <1>21, <1>22,
    <1>23, <1>24, <1>25, <1>26, <1>27, <1>28, <1>29, <1>30, <1>31, <1>32, <1>33, <1>34,
    <1>35, <1>36, <1>37, <1>38, <1>39, <1>40, <1>41, <1>42 DEF Next, App, Demuxer, PinThread

\* Every step keeps the types of the switcher's and the renderer's variables.
LEMMA SwitchTypesStep ==
  ASSUME AppTypes, SwitchTypes, [Next]_vars
  PROVE  SwitchTypes'
<1> USE DEF SwitchTypes, app, switch, render
<1>0. layout' = layout
  BY SameLayout
<1>1. target \in Inputs /\ NumInputs \in Nat /\ NumInputs > 0 /\ 1 \in Inputs
  BY Layout DEF AppTypes, Inputs
<1>11. CASE Start
  BY <1>0, <1>1, <1>11 DEF Start, Begin
<1>12. CASE StartSplitter
  BY <1>0, <1>1, <1>12 DEF StartSplitter
<1>13. CASE Run
  BY <1>0, <1>1, <1>13 DEF Run, Idle
<1>14. CASE Seek
  BY <1>0, <1>1, <1>14 DEF Seek, Begin, PauseGraph
<1>15. ASSUME NEW n \in Inputs, Enable(n) PROVE SwitchTypes'
  BY <1>0, <1>1, <1>15 DEF Enable, Begin, PauseGraph
<1>16. CASE Deselect
  BY <1>0, <1>1, <1>16 DEF Deselect, Selecting
<1>17. CASE OpenFirst
  BY <1>0, <1>1, <1>17 DEF OpenFirst, Selecting
<1>18. CASE OpenNext
  BY <1>0, <1>1, <1>18 DEF OpenNext, Selecting
<1>19. CASE CloseLast
  BY <1>0, <1>1, <1>19 DEF CloseLast, Selecting
<1>20. CASE FlushOutput
  BY <1>0, <1>1, <1>20 DEF FlushOutput, Selecting, DeliverBeginFlush, SinkForgets
<1>21. CASE EndFlushOutput
  BY <1>0, <1>1, <1>21 DEF EndFlushOutput, Selecting, DeliverEndFlush
<1>22. CASE SetInput
  BY <1>0, <1>1, <1>22 DEF SetInput
<1>23. CASE OpenNew
  BY <1>0, <1>1, <1>23 DEF OpenNew, Selecting
<1>24. CASE SkipSeek
  BY <1>0, <1>1, <1>24 DEF SkipSeek, NextSeeker
<1>25. CASE DropSeek
  BY <1>0, <1>1, <1>25 DEF DropSeek, NextSeeker
<1>26. CASE TakeSeek
  BY <1>0, <1>1, <1>26 DEF TakeSeek, NextSeeker
<1>27. CASE ResumeGraph
  BY <1>0, <1>1, <1>27 DEF ResumeGraph, Idle
<1>28. CASE BeginFlushPin
  <2>1. mInput' = mInput /\ outType' = outType
    BY <1>28 DEF BeginFlushPin, Flushing
  <2>2. \/ UNCHANGED <<from, strays, garbled>>
        \/ from' = {} /\ strays' = [p \in Inputs |-> 0] /\ garbled' = FALSE
    BY <1>28 DEF BeginFlushPin, BeginFlush, DeliverBeginFlush, SinkForgets
  <2>3. from' \subseteq Inputs /\ garbled' \in BOOLEAN
    BY <2>2
  <2>4. strays' \in [Inputs -> Nat]
    BY <2>2
  <2> QED
    BY <2>1, <2>3, <2>4
<1>29. CASE CallWorker
  BY <1>0, <1>1, <1>29 DEF CallWorker, Calling
<1>30. CASE CallReturns
  BY <1>0, <1>1, <1>30 DEF CallReturns
<1>31. CASE CallTimesOut
  BY <1>0, <1>1, <1>31 DEF CallTimesOut
<1>32. CASE EndFlushPin
  BY <1>0, <1>1, <1>32 DEF EndFlushPin, Flushing, EndFlush, DeliverEndFlush
<1>33. CASE EndFlushFilter
  BY <1>0, <1>1, <1>33 DEF EndFlushFilter, Flushing, NextSeeker
<1>34. CASE Stop
  BY <1>0, <1>1, <1>34 DEF Stop, Begin, SinkForgets
<1>35. CASE StopSplitter
  BY <1>0, <1>1, <1>35 DEF StopSplitter
<1>36. CASE Stopped
  BY <1>0, <1>1, <1>36 DEF Stopped, Idle
<1>37. CASE Inactive
  BY <1>0, <1>1, <1>37 DEF Inactive, Calling
<1>38. CASE InactiveReturns
  BY <1>0, <1>1, <1>38 DEF InactiveReturns, NextInactive
<1>39. CASE InactiveTimesOut
  BY <1>0, <1>1, <1>39 DEF InactiveTimesOut, NextInactive
<1>40. ASSUME NEW s \in Splitters, Demuxer(s) \/ ReadOn(s) PROVE SwitchTypes'
  BY <1>0, <1>40, DemuxFrame
<1>41. ASSUME NEW p \in Inputs, AwaitEndFlush(p) PROVE SwitchTypes'
  BY <1>0, <1>1, <1>41 DEF AwaitEndFlush, Delivering, Step, Return, sinks
<1>42. ASSUME NEW p \in Inputs, Exit(p) PROVE SwitchTypes'
  BY <1>0, <1>1, <1>42 DEF Exit, Delivering, Step, Return, sinks
<1>43. ASSUME NEW p \in Inputs, TakeLate(p) \/ Take(p) \/ TestResult(p) PROVE SwitchTypes'
  <2>1. CASE TakeLate(p)
    BY <1>0, <1>1, <2>1 DEF TakeLate, Remove, Delivering, sinks
  <2>2. CASE Take(p)
    BY <1>0, <1>1, <2>2 DEF Take, Remove, Delivering, sinks
  <2>3. CASE TestResult(p)
    BY <1>0, <1>1, <2>3 DEF TestResult, Delivering, sinks
  <2> QED
    BY <1>43, <2>1, <2>2, <2>3
<1>44. ASSUME NEW p \in Inputs, PassGate(p) PROVE SwitchTypes'
  BY <1>0, <1>1, <1>44 DEF PassGate, Delivering, Step, Return, sinks
<1>45. ASSUME NEW p \in Inputs, EnterActive(p) PROVE SwitchTypes'
  BY <1>0, <1>1, <1>45 DEF EnterActive, Delivering, Step, Return, sinks
<1>46. ASSUME NEW p \in Inputs, RefuseInactive(p) PROVE SwitchTypes'
  BY <1>0, <1>1, <1>46 DEF RefuseInactive, Delivering, Step, Return, sinks
<1>47. ASSUME NEW p \in Inputs, NotStreaming(p) PROVE SwitchTypes'
  BY <1>0, <1>1, <1>47 DEF NotStreaming, Delivering, Step, Return, sinks
<1>48. ASSUME NEW p \in Inputs, KeepBuffers(p) PROVE SwitchTypes'
  BY <1>0, <1>1, <1>48 DEF KeepBuffers, Delivering, Step, Return, sinks
<1>49. ASSUME NEW p \in Inputs, GrowBuffers(p) PROVE SwitchTypes'
  BY <1>0, <1>1, <1>49 DEF GrowBuffers, Delivering, Step, Return, sinks, DeliverBeginFlush,
    DeliverEndFlush, SinkForgets
<1>50. ASSUME NEW p \in Inputs, EndGrowBuffers(p) PROVE SwitchTypes'
  BY <1>0, <1>1, <1>50 DEF EndGrowBuffers, Delivering, Step, Return, sinks,
    DeliverBeginFlush, DeliverEndFlush, SinkForgets
<1>51. ASSUME NEW p \in Inputs, SendSample(p) PROVE SwitchTypes'
  <2>1. mInput' = mInput /\ (outType' = p \/ outType' = outType)
    BY <1>51 DEF SendSample, Return, Delivering
  <2>2. \/ UNCHANGED <<from, strays, garbled>>
        \/ /\ from' = from \cup {p} /\ garbled' = (garbled \/ ~OwnFormat(p))
           /\ strays' = [strays EXCEPT ![p] = IF Stray(p) THEN @ + 1 ELSE @]
    BY <1>51 DEF SendSample, sinks
  <2>3. from' \subseteq Inputs /\ strays' \in [Inputs -> Nat]
    BY <2>2
  <2>4. garbled' \in BOOLEAN
    BY <2>2
  <2> QED
    BY <2>1, <2>3, <2>4
<1>52. ASSUME NEW p \in Inputs, EnterEnd(p) PROVE SwitchTypes'
  BY <1>0, <1>1, <1>52 DEF EnterEnd, Delivering, Step, Return, sinks
<1>53. ASSUME NEW p \in Inputs, InactiveEnd(p) PROVE SwitchTypes'
  BY <1>0, <1>1, <1>53 DEF InactiveEnd, Delivering, Step, Return, sinks
<1>54. ASSUME NEW p \in Inputs, SendEnd(p) PROVE SwitchTypes'
  BY <1>0, <1>1, <1>54 DEF SendEnd, Delivering, Step, Return, sinks
<1>55. CASE UNCHANGED vars
  BY <1>55 DEF vars
<1> QED
  BY <1>11, <1>12, <1>13, <1>14, <1>15, <1>16, <1>17, <1>18, <1>19, <1>20, <1>21, <1>22,
    <1>23, <1>24, <1>25, <1>26, <1>27, <1>28, <1>29, <1>30, <1>31, <1>32, <1>33, <1>34,
    <1>35, <1>36, <1>37, <1>38, <1>39, <1>40, <1>41, <1>42, <1>43, <1>44, <1>45, <1>46,
    <1>47, <1>48, <1>49, <1>50, <1>51, <1>52, <1>53, <1>54, <1>55 DEF Next, App, Demuxer,
    PinThread

\* Every step keeps the types of the filters of SetPositionsInternal.
LEMMA SeekTypesStep ==
  ASSUME Types, Control, [Next]_vars
  PROVE  SeekTypes'
<1> USE DEF Types, AppTypes, SeekTypes, seekf, ghost
<1>0. layout' = layout
  BY SameLayout
<1>1. /\ NumInputs \in Nat /\ NumInputs > 0 /\ NumSplitters \in Nat /\ NumSplitters > 0
      /\ LastPosition \in Nat /\ PacketsPerPin \in Nat
      /\ \A p \in Inputs : of(p) \in Splitters
  BY Layout DEF Types
<1>2. apc \in {"seeker"} => ak \in Nat /\ Current \in Splitters /\ position \in Nat
  BY <1>1 DEF Control, Positioning, Current, SplitterAt, NoInput, Seekers, SeekPhases,
    Splitters, Inputs, Positions
<1>11. CASE Start
  BY <1>0, <1>1, <1>2, <1>11 DEF Start, Begin
<1>12. CASE StartSplitter
  BY <1>0, <1>1, <1>2, <1>12 DEF StartSplitter
<1>13. CASE Run
  BY <1>0, <1>1, <1>2, <1>13 DEF Run, Idle
<1>14. CASE Seek
  BY <1>0, <1>1, <1>2, <1>14 DEF Seek, Begin, PauseGraph
<1>15. ASSUME NEW n \in Inputs, Enable(n) PROVE SeekTypes'
  BY <1>0, <1>1, <1>2, <1>15 DEF Enable, Begin, PauseGraph
<1>16. CASE Deselect
  BY <1>0, <1>1, <1>2, <1>16 DEF Deselect, Selecting
<1>17. CASE OpenFirst
  BY <1>0, <1>1, <1>2, <1>17 DEF OpenFirst, Selecting
<1>18. CASE OpenNext
  BY <1>0, <1>1, <1>2, <1>18 DEF OpenNext, Selecting
<1>19. CASE CloseLast
  BY <1>0, <1>1, <1>2, <1>19 DEF CloseLast, Selecting
<1>20. CASE FlushOutput
  BY <1>0, <1>1, <1>2, <1>20 DEF FlushOutput, Selecting, DeliverBeginFlush, SinkForgets
<1>21. CASE EndFlushOutput
  BY <1>0, <1>1, <1>2, <1>21 DEF EndFlushOutput, Selecting, DeliverEndFlush
<1>22. CASE SetInput
  BY <1>0, <1>1, <1>2, <1>22 DEF SetInput
<1>23. CASE OpenNew
  BY <1>0, <1>1, <1>2, <1>23 DEF OpenNew, Selecting
<1>24. CASE SkipSeek
  BY <1>0, <1>1, <1>2, <1>24 DEF SkipSeek, NextSeeker
<1>25. CASE DropSeek
  BY <1>0, <1>1, <1>2, <1>25 DEF DropSeek, NextSeeker
<1>26. CASE TakeSeek
  BY <1>0, <1>1, <1>2, <1>26 DEF TakeSeek, NextSeeker
<1>27. CASE ResumeGraph
  BY <1>0, <1>1, <1>2, <1>27 DEF ResumeGraph, Idle
<1>28. CASE BeginFlushPin
  BY <1>0, <1>1, <1>2, <1>28 DEF BeginFlushPin, Flushing, BeginFlush, DeliverBeginFlush,
    SinkForgets
<1>29. CASE CallWorker
  BY <1>0, <1>1, <1>2, <1>29 DEF CallWorker, Calling
<1>30. CASE CallReturns
  BY <1>0, <1>1, <1>2, <1>30 DEF CallReturns
<1>31. CASE CallTimesOut
  BY <1>0, <1>1, <1>2, <1>31 DEF CallTimesOut
<1>32. CASE EndFlushPin
  BY <1>0, <1>1, <1>2, <1>32 DEF EndFlushPin, Flushing, EndFlush, DeliverEndFlush
<1>33. CASE EndFlushFilter
  BY <1>0, <1>1, <1>2, <1>33 DEF EndFlushFilter, Flushing, NextSeeker
<1>34. CASE Stop
  BY <1>0, <1>1, <1>2, <1>34 DEF Stop, Begin, SinkForgets
<1>35. CASE StopSplitter
  BY <1>0, <1>1, <1>2, <1>35 DEF StopSplitter
<1>36. CASE Stopped
  BY <1>0, <1>1, <1>2, <1>36 DEF Stopped, Idle
<1>37. CASE Inactive
  BY <1>0, <1>1, <1>2, <1>37 DEF Inactive, Calling
<1>38. CASE InactiveReturns
  BY <1>0, <1>1, <1>2, <1>38 DEF InactiveReturns, NextInactive
<1>39. CASE InactiveTimesOut
  BY <1>0, <1>1, <1>2, <1>39 DEF InactiveTimesOut, NextInactive
<1>40. ASSUME NEW s \in Splitters, WaitEndFlush(s) PROVE SeekTypes'
  BY <1>0, <1>1, <1>2, <1>40 DEF WaitEndFlush, Demuxing
<1>41. ASSUME NEW s \in Splitters, SkipPin(s) PROVE SeekTypes'
  BY <1>0, <1>1, <1>2, <1>41 DEF SkipPin, Demuxing
<1>42. ASSUME NEW s \in Splitters, UsePin(s) PROVE SeekTypes'
  BY <1>0, <1>1, <1>2, <1>42 DEF UsePin, Demuxing
<1>43. ASSUME NEW s \in Splitters, NewSegment(s) PROVE SeekTypes'
  BY <1>0, <1>1, <1>2, <1>43 DEF NewSegment, Demuxing
<1>44. ASSUME NEW s \in Splitters, StartDemux(s) PROVE SeekTypes'
  BY <1>0, <1>1, <1>2, <1>44 DEF StartDemux, Demuxing
<1>45. ASSUME NEW s \in Splitters, GetRequest(s) PROVE SeekTypes'
  BY <1>0, <1>1, <1>2, <1>45 DEF GetRequest, Demuxing
<1>46. ASSUME NEW s \in Splitters, ReadOn(s) PROVE SeekTypes'
  BY <1>0, <1>1, <1>2, <1>46 DEF ReadOn, Demuxing
<1>47. ASSUME NEW p \in Inputs, PinThread(p) PROVE SeekTypes'
  BY <1>0, <1>47, PinFrame
<1>48. CASE UNCHANGED vars
  BY <1>48 DEF vars
<1> QED
  BY <1>11, <1>12, <1>13, <1>14, <1>15, <1>16, <1>17, <1>18, <1>19, <1>20, <1>21, <1>22,
    <1>23, <1>24, <1>25, <1>26, <1>27, <1>28, <1>29, <1>30, <1>31, <1>32, <1>33, <1>34,
    <1>35, <1>36, <1>37, <1>38, <1>39, <1>40, <1>41, <1>42, <1>43, <1>44, <1>45, <1>46,
    <1>47, <1>48 DEF Next, App, Demuxer, PinThread

\* Every step keeps the types of the threads' variables.
LEMMA ThreadTypesStep ==
  ASSUME Types, [Next]_vars
  PROVE  ThreadTypes'
<1> USE DEF ThreadTypes, demux, preq, pflags, plocal, DemuxPlaces, PinPlaces, AheadPlaces,
  ReceivePlaces
<1>0. layout' = layout
  BY SameLayout
<1>1. /\ NumInputs \in Nat /\ NumInputs > 0 /\ NumSplitters \in Nat /\ NumSplitters > 0
      /\ LastPosition \in Nat /\ PacketsPerPin \in Nat
      /\ \A p \in Inputs : of(p) \in Splitters
  BY Layout DEF Types
<1>2. ThreadTypes /\ Eos \in Nat
  BY <1>1 DEF Types, Eos
<1>11. CASE Start
  BY <1>0, <1>1, <1>2, <1>11 DEF Start, Begin
<1>12. CASE StartSplitter
  BY <1>0, <1>1, <1>2, <1>12 DEF StartSplitter
<1>13. CASE Run
  BY <1>0, <1>1, <1>2, <1>13 DEF Run, Idle
<1>14. CASE Seek
  BY <1>0, <1>1, <1>2, <1>14 DEF Seek, Begin, PauseGraph
<1>15. ASSUME NEW n \in Inputs, Enable(n) PROVE ThreadTypes'
  BY <1>0, <1>1, <1>2, <1>15 DEF Enable, Begin, PauseGraph
<1>16. CASE Deselect
  BY <1>0, <1>1, <1>2, <1>16 DEF Deselect, Selecting
<1>17. CASE OpenFirst
  BY <1>0, <1>1, <1>2, <1>17 DEF OpenFirst, Selecting
<1>18. CASE OpenNext
  BY <1>0, <1>1, <1>2, <1>18 DEF OpenNext, Selecting
<1>19. CASE CloseLast
  BY <1>0, <1>1, <1>2, <1>19 DEF CloseLast, Selecting
<1>20. CASE FlushOutput
  BY <1>0, <1>1, <1>2, <1>20 DEF FlushOutput, Selecting, DeliverBeginFlush, SinkForgets
<1>21. CASE EndFlushOutput
  BY <1>0, <1>1, <1>2, <1>21 DEF EndFlushOutput, Selecting, DeliverEndFlush
<1>22. CASE SetInput
  BY <1>0, <1>1, <1>2, <1>22 DEF SetInput
<1>23. CASE OpenNew
  BY <1>0, <1>1, <1>2, <1>23 DEF OpenNew, Selecting
<1>24. CASE SkipSeek
  BY <1>0, <1>1, <1>2, <1>24 DEF SkipSeek, NextSeeker
<1>25. CASE DropSeek
  BY <1>0, <1>1, <1>2, <1>25 DEF DropSeek, NextSeeker
<1>26. CASE TakeSeek
  BY <1>0, <1>1, <1>2, <1>26 DEF TakeSeek, NextSeeker
<1>27. CASE ResumeGraph
  BY <1>0, <1>1, <1>2, <1>27 DEF ResumeGraph, Idle
<1>28. CASE BeginFlushPin
  <2>1. UNCHANGED <<fpc, fReq, fDone, ppc, fresh>>
    BY <1>28 DEF BeginFlushPin, Flushing
  <2>2. /\ pEndFlush' = [pEndFlush EXCEPT ![apin] = FALSE]
        /\ cursor' = [cursor EXCEPT ![apin] = Eos + 1]
        /\ \E n \in {0} \cup LatePackets(apin) : behind' = [behind EXCEPT ![apin] = n]
    BY <1>28 DEF BeginFlushPin
  <2>3. Eos + 1 \in Nat
    BY <1>2
  <2>4. apin \in Inputs => LatePackets(apin) \subseteq Nat
    BY <1>2 DEF LatePackets
  <2>5. behind' \in [Inputs -> Nat]
    <3>1. PICK n \in {0} \cup LatePackets(apin) : behind' = [behind EXCEPT ![apin] = n]
      BY <2>2
    <3>2. CASE apin \in Inputs
      <4>1. n \in Nat
        BY <2>4, <3>2
      <4> QED
        BY <1>2, <3>1, <4>1
    <3>3. CASE apin \notin Inputs
      <4>1. behind' = behind
        BY <1>2, <3>1, <3>3
      <4> QED
        BY <1>2, <4>1
    <3> QED
      BY <3>2, <3>3
  <2> QED
    BY <1>2, <2>1, <2>2, <2>3, <2>5
<1>29. CASE CallWorker
  BY <1>0, <1>1, <1>2, <1>29 DEF CallWorker, Calling
<1>30. CASE CallReturns
  BY <1>0, <1>1, <1>2, <1>30 DEF CallReturns
<1>31. CASE CallTimesOut
  BY <1>0, <1>1, <1>2, <1>31 DEF CallTimesOut
<1>32. CASE EndFlushPin
  BY <1>0, <1>1, <1>2, <1>32 DEF EndFlushPin, Flushing, EndFlush, DeliverEndFlush
<1>33. CASE EndFlushFilter
  BY <1>0, <1>1, <1>2, <1>33 DEF EndFlushFilter, Flushing, NextSeeker
<1>34. CASE Stop
  BY <1>0, <1>1, <1>2, <1>34 DEF Stop, Begin, SinkForgets
<1>35. CASE StopSplitter
  BY <1>0, <1>1, <1>2, <1>35 DEF StopSplitter
<1>36. CASE Stopped
  BY <1>0, <1>1, <1>2, <1>36 DEF Stopped, Idle
<1>37. CASE Inactive
  BY <1>0, <1>1, <1>2, <1>37 DEF Inactive, Calling
<1>38. CASE InactiveReturns
  BY <1>0, <1>1, <1>2, <1>38 DEF InactiveReturns, NextInactive
<1>39. CASE InactiveTimesOut
  BY <1>0, <1>1, <1>2, <1>39 DEF InactiveTimesOut, NextInactive
<1>40. ASSUME NEW s \in Splitters, WaitEndFlush(s) PROVE ThreadTypes'
  BY <1>0, <1>1, <1>2, <1>40 DEF WaitEndFlush, Demuxing
<1>41. ASSUME NEW s \in Splitters, SkipPin(s) PROVE ThreadTypes'
  BY <1>0, <1>1, <1>2, <1>41 DEF SkipPin, Demuxing
<1>42. ASSUME NEW s \in Splitters, UsePin(s) PROVE ThreadTypes'
  BY <1>0, <1>1, <1>2, <1>42 DEF UsePin, Demuxing
<1>43. ASSUME NEW s \in Splitters, NewSegment(s) PROVE ThreadTypes'
  BY <1>0, <1>1, <1>2, <1>43 DEF NewSegment, Demuxing
<1>44. ASSUME NEW s \in Splitters, StartDemux(s) PROVE ThreadTypes'
  BY <1>0, <1>1, <1>2, <1>44 DEF StartDemux, Demuxing
<1>45. ASSUME NEW s \in Splitters, GetRequest(s) PROVE ThreadTypes'
  <2>1. /\ fpc' = [fpc EXCEPT ![s] = IF fReq[s] = "exit" THEN "none" ELSE "waitFlush"]
        /\ fReq' = [fReq EXCEPT ![s] = "none"] /\ fDone' = [fDone EXCEPT ![s] = TRUE]
        /\ UNCHANGED <<ppc, pEndFlush, behind>>
    BY <1>45 DEF GetRequest, Demuxing
  <2>2. \/ UNCHANGED <<cursor, fresh>>
        \/ /\ cursor' = [p \in Inputs |-> IF of(p) = s THEN 1 ELSE cursor[p]]
           /\ fresh' = [p \in Inputs |-> of(p) # s /\ fresh[p]]
    BY <1>45 DEF GetRequest
  <2>3. cursor' \in [Inputs -> Nat] /\ fresh' \in [Inputs -> BOOLEAN]
    <3>1. cursor' \in [Inputs -> Nat]
      BY <1>2, <2>2
    <3>2. CASE UNCHANGED <<cursor, fresh>>
      BY <1>2, <3>1, <3>2
    <3>3. CASE fresh' = [p \in Inputs |-> of(p) # s /\ fresh[p]]
      <4>1. \A p \in Inputs : (of(p) # s /\ fresh[p]) \in BOOLEAN
        OBVIOUS
      <4> QED
        BY <3>1, <3>3, <4>1, Zenon
    <3> QED
      BY <2>2, <3>2, <3>3
  <2>4. fpc' \in [Splitters -> {"none", "segments", "newSegment", "demux", "waitFlush"}]
    BY <1>2, <2>1
  <2> QED
    BY <1>2, <2>1, <2>3, <2>4
<1>46. ASSUME NEW s \in Splitters, ReadOn(s) PROVE ThreadTypes'
  BY <1>0, <1>1, <1>2, <1>46 DEF ReadOn, Demuxing
<1>47. ASSUME NEW p \in Inputs, AwaitEndFlush(p) PROVE ThreadTypes'
  BY <1>0, <1>1, <1>2, <1>47 DEF AwaitEndFlush, Delivering, Step, Return, sinks
<1>48. ASSUME NEW p \in Inputs, Exit(p) PROVE ThreadTypes'
  BY <1>0, <1>1, <1>2, <1>48 DEF Exit, Delivering, Step, Return, sinks
<1>49. ASSUME NEW p \in Inputs, TakeLate(p) \/ Take(p) \/ TestResult(p) PROVE ThreadTypes'
  <2>1. CASE TakeLate(p)
    BY <1>0, <1>1, <1>2, <2>1 DEF TakeLate, Remove, Delivering, sinks
  <2>2. CASE Take(p)
    BY <1>0, <1>1, <1>2, <2>2 DEF Take, Remove, Delivering, sinks
  <2>3. CASE TestResult(p)
    BY <1>0, <1>1, <1>2, <2>3 DEF TestResult, Delivering, sinks
  <2> QED
    BY <1>49, <2>1, <2>2, <2>3
<1>50. ASSUME NEW p \in Inputs, PassGate(p) PROVE ThreadTypes'
  BY <1>0, <1>1, <1>2, <1>50 DEF PassGate, Delivering, Step, Return, sinks
<1>51. ASSUME NEW p \in Inputs, EnterActive(p) PROVE ThreadTypes'
  BY <1>0, <1>1, <1>2, <1>51 DEF EnterActive, Delivering, Step, Return, sinks
<1>52. ASSUME NEW p \in Inputs, RefuseInactive(p) PROVE ThreadTypes'
  BY <1>0, <1>1, <1>2, <1>52 DEF RefuseInactive, Delivering, Step, Return, sinks
<1>53. ASSUME NEW p \in Inputs, NotStreaming(p) PROVE ThreadTypes'
  BY <1>0, <1>1, <1>2, <1>53 DEF NotStreaming, Delivering, Step, Return, sinks
<1>54. ASSUME NEW p \in Inputs, KeepBuffers(p) PROVE ThreadTypes'
  BY <1>0, <1>1, <1>2, <1>54 DEF KeepBuffers, Delivering, Step, Return, sinks
<1>55. ASSUME NEW p \in Inputs, GrowBuffers(p) PROVE ThreadTypes'
  BY <1>0, <1>1, <1>2, <1>55 DEF GrowBuffers, Delivering, Step, Return, sinks,
    DeliverBeginFlush, DeliverEndFlush, SinkForgets
<1>56. ASSUME NEW p \in Inputs, EndGrowBuffers(p) PROVE ThreadTypes'
  BY <1>0, <1>1, <1>2, <1>56 DEF EndGrowBuffers, Delivering, Step, Return, sinks,
    DeliverBeginFlush, DeliverEndFlush, SinkForgets
<1>57. ASSUME NEW p \in Inputs, SendSample(p) PROVE ThreadTypes'
  BY <1>0, <1>1, <1>2, <1>57 DEF SendSample, Delivering, Step, Return, sinks
<1>58. ASSUME NEW p \in Inputs, EnterEnd(p) PROVE ThreadTypes'
  BY <1>0, <1>1, <1>2, <1>58 DEF EnterEnd, Delivering, Step, Return, sinks
<1>59. ASSUME NEW p \in Inputs, InactiveEnd(p) PROVE ThreadTypes'
  BY <1>0, <1>1, <1>2, <1>59 DEF InactiveEnd, Delivering, Step, Return, sinks
<1>60. ASSUME NEW p \in Inputs, SendEnd(p) PROVE ThreadTypes'
  BY <1>0, <1>1, <1>2, <1>60 DEF SendEnd, Delivering, Step, Return, sinks
<1>61. CASE UNCHANGED vars
  BY <1>2, <1>61 DEF vars
<1> QED
  BY <1>11, <1>12, <1>13, <1>14, <1>15, <1>16, <1>17, <1>18, <1>19, <1>20, <1>21, <1>22,
    <1>23, <1>24, <1>25, <1>26, <1>27, <1>28, <1>29, <1>30, <1>31, <1>32, <1>33, <1>34,
    <1>35, <1>36, <1>37, <1>38, <1>39, <1>40, <1>41, <1>42, <1>43, <1>44, <1>45, <1>46,
    <1>47, <1>48, <1>49, <1>50, <1>51, <1>52, <1>53, <1>54, <1>55, <1>56, <1>57, <1>58,
    <1>59, <1>60, <1>61 DEF Next, App, Demuxer, PinThread

\* Every step keeps the application's phases in line with its operation.
LEMMA ControlStep ==
  ASSUME Types, Control, [Next]_vars
  PROVE  Control'
<1> USE DEF Control, Positioning, app, AppPhases, StartPhases, SelectPhases, SeekPhases,
  FlushPhases, StopPhases
<1>0. layout' = layout
  BY SameLayout
<1>1. \A s : PinsOf(s)' = PinsOf(s)
  BY <1>0 DEF PinsOf, of
<1>2. aop' = aop /\ ak' = ak => Current' = Current
  BY <1>0 DEF Current, SplitterAt, of
<1>3. NumInputs \in Nat /\ \A s \in Splitters : fpc[s] # "none" => PinsOf(s) # {}
  BY Layout DEF Types, Control
<1>11. CASE Start
  BY <1>0, <1>1, <1>2, <1>3, <1>11 DEF Start, Begin, switch, demux, ghost
<1>12. CASE StartSplitter
  <2>1. /\ apc = "startSplitter" /\ (apc' = "run" \/ apc' = "startSplitter") /\ aop' = aop
        /\ mInput' = mInput /\ lost' = lost
        /\ fpc' = fpc \/ (PinsOf(ak) # {} /\ fpc' = [fpc EXCEPT ![ak] = "segments"])
    BY <1>12 DEF StartSplitter, switch
  <2>2. \A s \in Splitters : fpc'[s] # "none" => PinsOf(s) # {}
    <3>1. fpc \in [Splitters -> DemuxPlaces] /\ ak \in Nat
      BY DEF Types, ThreadTypes, AppTypes
    <3> QED
      BY <1>3, <2>1, <3>1
  <2> QED
    BY <1>1, <2>1, <2>2
<1>13. CASE Run
  BY <1>0, <1>1, <1>2, <1>3, <1>13 DEF Run, Idle, switch, demux, ghost
<1>14. CASE Seek
  BY <1>0, <1>1, <1>2, <1>3, <1>14 DEF Seek, Begin, PauseGraph, switch, demux, ghost
<1>15. ASSUME NEW n \in Inputs, Enable(n) PROVE Control'
  BY <1>0, <1>1, <1>2, <1>3, <1>15 DEF Enable, Begin, PauseGraph, switch, demux, ghost
<1>16. CASE Deselect
  BY <1>0, <1>1, <1>2, <1>3, <1>16 DEF Deselect, Selecting, switch, demux, ghost
<1>17. CASE OpenFirst
  BY <1>0, <1>1, <1>2, <1>3, <1>17 DEF OpenFirst, Selecting, switch, demux, ghost
<1>18. CASE OpenNext
  BY <1>0, <1>1, <1>2, <1>3, <1>18 DEF OpenNext, Selecting, switch, demux, ghost
<1>19. CASE CloseLast
  BY <1>0, <1>1, <1>2, <1>3, <1>19 DEF CloseLast, Selecting, switch, demux, ghost
<1>20. CASE FlushOutput
  BY <1>0, <1>1, <1>2, <1>3, <1>20 DEF FlushOutput, Selecting, DeliverBeginFlush,
    SinkForgets, switch, demux, ghost
<1>21. CASE EndFlushOutput
  BY <1>0, <1>1, <1>2, <1>3, <1>21 DEF EndFlushOutput, Selecting, DeliverEndFlush, switch,
    demux, ghost
<1>22. CASE SetInput
  BY <1>0, <1>1, <1>2, <1>3, <1>22 DEF SetInput, switch, demux, ghost
<1>23. CASE OpenNew
  BY <1>0, <1>1, <1>2, <1>3, <1>23 DEF OpenNew, Selecting, switch, demux, ghost
<1>24. CASE SkipSeek
  <2>1. /\ apc = "seeker" /\ UNCHANGED <<aop, mInput, fpc, lost>> /\ NextSeeker
    BY <1>24 DEF SkipSeek, switch, demux, ghost
  <2>2. apc' \in {"resume", "seeker"} /\ (apc' = "resume" => ak' = NumInputs)
    BY <2>1, <1>3 DEF NextSeeker
  <2> QED
    BY <1>1, <1>3, <2>1, <2>2
<1>25. CASE DropSeek
  <2>1. /\ apc = "seeker" /\ UNCHANGED <<aop, mInput, fpc, lost>> /\ NextSeeker
    BY <1>25 DEF DropSeek, switch, demux, ghost
  <2>2. apc' \in {"resume", "seeker"} /\ (apc' = "resume" => ak' = NumInputs)
    BY <2>1, <1>3 DEF NextSeeker
  <2> QED
    BY <1>1, <1>3, <2>1, <2>2
<1>26. CASE TakeSeek
  <2>1. /\ apc = "seeker" /\ UNCHANGED <<aop, mInput, fpc, lost>> /\ Positioning
        /\ Current \in Splitters
    <3>1. apc = "seeker" /\ UNCHANGED <<aop, mInput, fpc, lost>>
      BY <1>26 DEF TakeSeek, switch
    <3>2. Positioning
      BY <3>1
    <3>3. ak \in Seekers
      BY <3>1, <3>2 DEF Types, AppTypes
    <3>4. Current \in Splitters
      BY <3>2, <3>3, Layout DEF Current, SplitterAt, NoInput, Seekers, Splitters, Inputs,
        Types
    <3> QED
      BY <3>1, <3>2, <3>4
  <2>2. CASE fpc[Current] = "none"
    <3>1. NextSeeker
      BY <2>2, <1>26 DEF TakeSeek
    <3>2. apc' \in {"resume", "seeker"} /\ (apc' = "resume" => ak' = NumInputs)
      BY <3>1, <1>3 DEF NextSeeker
    <3> QED
      BY <1>1, <1>3, <2>1, <3>2
  <2>3. CASE fpc[Current] # "none"
    <3>1. apc' = "beginPin" /\ apin' = FirstPin(Current) /\ ak' = ak
      BY <2>3, <1>26 DEF TakeSeek, LoopPins
    <3>2. PinsOf(Current) # {}
      BY <2>1, <2>3, <1>3
    <3>3. apin' \in PinsOf(Current)
      BY <3>1, <3>2, FirstPinIs
    <3> QED
      BY <1>1, <1>2, <1>3, <2>1, <3>1, <3>2, <3>3
  <2> QED
    BY <2>2, <2>3
<1>27. CASE ResumeGraph
  BY <1>0, <1>1, <1>2, <1>3, <1>27 DEF ResumeGraph, Idle, switch, demux, ghost
<1>28. CASE BeginFlushPin
  <2>1. /\ apc = "beginPin" /\ AfterPin("beginPin", "call")
        /\ UNCHANGED <<aop, ak, mInput, fpc, lost>>
    BY <1>28 DEF BeginFlushPin, Flushing, ghost
  <2>2. \/ apc' = "call"
        \/ apc' = "beginPin" /\ apin' \in PinsOf(Current)
    BY <2>1, AfterPinIs DEF Control
  <2> QED
    BY <1>1, <1>2, <1>3, <2>1, <2>2
<1>29. CASE CallWorker
  BY <1>0, <1>1, <1>2, <1>3, <1>29 DEF CallWorker, Calling, switch, demux, ghost
<1>30. CASE CallReturns
  <2>1. /\ apc = "wait" /\ UNCHANGED <<aop, ak, mInput, fpc>>
        /\ lost' = lost \/ lost' = lost \cup {"gaveUp"}
        /\ apc' = "endPin"
    BY <1>30 DEF CallReturns, LoopPins, switch, demux, ghost
  <2> QED
    BY <1>1, <1>2, <1>3, <2>1
<1>31. CASE CallTimesOut
  <2>1. /\ apc = "wait" /\ UNCHANGED <<aop, ak, mInput, fpc>>
        /\ lost' = lost \/ lost' = lost \cup {"gaveUp"}
        /\ apc' = "endPin"
    BY <1>31 DEF CallTimesOut, LoopPins, switch, demux, ghost
  <2> QED
    BY <1>1, <1>2, <1>3, <2>1
<1>32. CASE EndFlushPin
  <2>1. /\ apc = "endPin" /\ (apc' = "endPin" \/ apc' = "endFilter")
        /\ UNCHANGED <<aop, ak, mInput, fpc, lost>>
    BY <1>32 DEF EndFlushPin, Flushing, AfterPin, ghost
  <2> QED
    BY <1>1, <1>2, <1>3, <2>1
<1>33. CASE EndFlushFilter
  <2>1. /\ apc = "endFilter" /\ UNCHANGED <<aop, mInput, fpc, lost>>
        /\ Positioning \/ aop = "stop"
        /\ IF aop = "stop" THEN apc' = "inactive" ELSE NextSeeker
    BY <1>33 DEF EndFlushFilter, Flushing, LoopPins, ghost, Control, FlushPhases
  <2>2. CASE aop = "stop"
    BY <1>1, <1>3, <2>1, <2>2
  <2>3. CASE aop # "stop"
    <3>1. apc' \in {"resume", "seeker"} /\ (apc' = "resume" => ak' = NumInputs)
      BY <2>1, <2>3, <1>3 DEF NextSeeker
    <3> QED
      BY <1>1, <1>3, <2>1, <2>3, <3>1
  <2> QED
    BY <2>2, <2>3
<1>34. CASE Stop
  BY <1>0, <1>1, <1>2, <1>3, <1>34 DEF Stop, Begin, SinkForgets, switch, demux, ghost
<1>35. CASE StopSplitter
  <2>1. /\ apc = "stopSplitter" /\ ak \in Splitters /\ UNCHANGED <<aop, mInput, fpc, lost>>
        /\ aop = "stop" /\ Current = ak
    <3>1. apc = "stopSplitter" /\ ak <= NumSplitters /\ UNCHANGED <<aop, mInput, fpc, lost>>
      BY <1>35 DEF StopSplitter, switch, ghost
    <3>2. ak \in Nat /\ ak > 0 /\ NumSplitters \in Nat /\ aop = "stop"
      BY <3>1, Layout DEF Types, AppTypes
    <3> QED
      BY <3>1, <3>2 DEF Splitters, Current, SplitterAt
  <2>2. CASE PinsOf(ak) = {}
    <3>1. apc' = "stopSplitter"
      BY <2>1, <2>2, <1>35 DEF StopSplitter
    <3> QED
      BY <1>1, <1>3, <2>1, <3>1
  <2>3. CASE PinsOf(ak) # {}
    <3>1. apc' = "beginPin" /\ apin' = FirstPin(Current) /\ ak' = ak
      BY <2>3, <1>35 DEF StopSplitter, LoopPins
    <3>2. apin' \in PinsOf(Current)
      BY <2>1, <2>3, <3>1, FirstPinIs
    <3> QED
      BY <1>1, <1>2, <1>3, <2>1, <3>1, <3>2
  <2> QED
    BY <2>2, <2>3
<1>36. CASE Stopped
  BY <1>0, <1>1, <1>2, <1>3, <1>36 DEF Stopped, Idle, switch, demux, ghost
<1>37. CASE Inactive
  BY <1>0, <1>1, <1>2, <1>3, <1>37 DEF Inactive, Calling, switch, demux, ghost
<1>38. CASE InactiveReturns
  <2>1. /\ apc = "inactiveWait" /\ UNCHANGED <<aop, mInput, fpc>>
        /\ lost' = lost \/ lost' = lost \cup {"gaveUp"}
        /\ apc' = "inactive" \/ apc' = "stopSplitter"
    BY <1>38 DEF InactiveReturns, NextInactive, AfterPin, switch, demux, ghost
  <2> QED
    BY <1>1, <1>3, <2>1
<1>39. CASE InactiveTimesOut
  <2>1. /\ apc = "inactiveWait" /\ UNCHANGED <<aop, mInput, fpc>>
        /\ lost' = lost \/ lost' = lost \cup {"gaveUp"}
        /\ apc' = "inactive" \/ apc' = "stopSplitter"
    BY <1>39 DEF InactiveTimesOut, NextInactive, AfterPin, switch, demux, ghost
  <2> QED
    BY <1>1, <1>3, <2>1
<1>40. ASSUME NEW s \in Splitters, Demuxer(s) \/ ReadOn(s) PROVE Control'
  <2>1. /\ UNCHANGED <<app, switch>> /\ lost' = lost
        /\ \A q \in Splitters : fpc'[q] # "none" => fpc[q] # "none"
    <3>1. UNCHANGED <<app, switch>>
      BY <1>40, DemuxFrame
    <3>2. lost' = lost
      BY Zenon, <1>40 DEF Demuxer, WaitEndFlush, SkipPin, UsePin, NewSegment, StartDemux,
        GetRequest, ReadOn
    <3>3. fpc[s] # "none" /\ \E x \in DemuxPlaces : fpc' = [fpc EXCEPT ![s] = x]
      BY <1>40 DEF Demuxer, DemuxPlaces, Demuxing, WaitEndFlush, SkipPin, UsePin,
        NewSegment, StartDemux, GetRequest, ReadOn
    <3>4. fpc \in [Splitters -> DemuxPlaces]
      BY DEF Types, ThreadTypes
    <3> QED
      BY <3>1, <3>2, <3>3, <3>4
  <2>2. /\ Current' = Current
        /\ PinsOf(Current)' = PinsOf(Current)
        /\ UNCHANGED <<aop, apc, ak, apin, mInput>>
    BY <1>1, <1>2, <2>1 DEF switch
  <2> QED
    BY <1>1, <1>3, <2>1, <2>2
<1>41. ASSUME NEW p \in Inputs, PinThread(p) PROVE Control'
  <2>1. UNCHANGED <<layout, app, mInput, fpc, lost>>
    BY <1>41, PinFrame DEF demux, ghost
  <2> QED
    BY <1>1, <1>2, <1>3, <2>1
<1>42. CASE UNCHANGED vars
  <2>1. UNCHANGED <<app, mInput, fpc, lost>>
    BY <1>42 DEF vars, switch, demux, ghost
  <2> QED
    BY <1>1, <1>2, <1>3, <2>1
<1> QED
  BY <1>11, <1>12, <1>13, <1>14, <1>15, <1>16, <1>17, <1>18, <1>19, <1>20, <1>21, <1>22,
    <1>23, <1>24, <1>25, <1>26, <1>27, <1>28, <1>29, <1>30, <1>31, <1>32, <1>33, <1>34,
    <1>35, <1>36, <1>37, <1>38, <1>39, <1>40, <1>41, <1>42 DEF Next, App, Demuxer, PinThread

------------------------------------------------------------------------------
(* Formats.                                                                *)
\* Every step keeps all threads but one from the conversion of a sample: the tests
\* of m_pInput let in one, and SelectInput is late when it moves m_pInput under it.
LEMMA FormatStep ==
  ASSUME Types, FormatInv, [Next]_vars
  PROVE  FormatInv'
<1>0. layout' = layout
  BY SameLayout
<1>1. ppc \in [Inputs -> PinPlaces] /\ NoInput \notin Inputs
  BY DEF Types, ThreadTypes, NoInput, Inputs
<1>11. CASE Start
  <2>1. /\ UNCHANGED <<ppc, outType, lost>> /\ (mInput' = mInput \/ mInput' = NoInput)
        /\ garbled' = garbled \/ garbled' = FALSE
    BY <1>11 DEF Begin, Start, switch, render, demux, preq, ghost
  <2> QED
    BY <2>1 DEF FormatInv, Receiving
<1>12. CASE StartSplitter
  <2>1. /\ ppc' = [p \in Inputs |-> IF of(p) = ak THEN "top" ELSE ppc[p]]
        /\ UNCHANGED <<mInput, outType, lost, garbled>>
    BY <1>12 DEF StartSplitter, switch, render
  <2>2. \A p \in Inputs : ppc'[p] = "top" \/ ppc'[p] = ppc[p]
    BY <2>1
  <2> QED
    BY <2>1, <2>2 DEF FormatInv, Receiving
<1>13. CASE Run
  <2>1. /\ UNCHANGED <<ppc, outType, lost>> /\ (mInput' = mInput \/ mInput' = NoInput)
        /\ garbled' = garbled \/ garbled' = FALSE
    BY <1>13 DEF Idle, Run, switch, render, demux, preq, ghost
  <2> QED
    BY <2>1 DEF FormatInv, Receiving
<1>14. CASE Seek
  <2>1. /\ UNCHANGED <<ppc, outType, lost>> /\ (mInput' = mInput \/ mInput' = NoInput)
        /\ garbled' = garbled \/ garbled' = FALSE
    BY <1>14 DEF Begin, PauseGraph, Seek, switch, render, demux, preq, ghost
  <2> QED
    BY <2>1 DEF FormatInv, Receiving
<1>15. ASSUME NEW n \in Inputs, Enable(n) PROVE FormatInv'
  <2>1. /\ UNCHANGED <<ppc, outType, lost>> /\ (mInput' = mInput \/ mInput' = NoInput)
        /\ garbled' = garbled \/ garbled' = FALSE
    BY <1>15 DEF Begin, Enable, PauseGraph, switch, render, demux, preq, ghost
  <2> QED
    BY <2>1 DEF FormatInv, Receiving
<1>16. CASE Deselect
  <2>1. /\ UNCHANGED <<ppc, outType, lost>> /\ (mInput' = mInput \/ mInput' = NoInput)
        /\ garbled' = garbled \/ garbled' = FALSE
    BY <1>16 DEF Deselect, Selecting, switch, render, demux, preq, ghost
  <2> QED
    BY <2>1 DEF FormatInv, Receiving
<1>17. CASE OpenFirst
  <2>1. /\ UNCHANGED <<ppc, outType, lost>> /\ (mInput' = mInput \/ mInput' = NoInput)
        /\ garbled' = garbled \/ garbled' = FALSE
    BY <1>17 DEF OpenFirst, Selecting, switch, render, demux, preq, ghost
  <2> QED
    BY <2>1 DEF FormatInv, Receiving
<1>18. CASE OpenNext
  <2>1. /\ UNCHANGED <<ppc, outType, lost>> /\ (mInput' = mInput \/ mInput' = NoInput)
        /\ garbled' = garbled \/ garbled' = FALSE
    BY <1>18 DEF OpenNext, Selecting, switch, render, demux, preq, ghost
  <2> QED
    BY <2>1 DEF FormatInv, Receiving
<1>19. CASE CloseLast
  <2>1. /\ UNCHANGED <<ppc, outType, lost>> /\ (mInput' = mInput \/ mInput' = NoInput)
        /\ garbled' = garbled \/ garbled' = FALSE
    BY <1>19 DEF CloseLast, Selecting, switch, render, demux, preq, ghost
  <2> QED
    BY <2>1 DEF FormatInv, Receiving
<1>20. CASE FlushOutput
  <2>1. /\ UNCHANGED <<ppc, outType, lost>> /\ (mInput' = mInput \/ mInput' = NoInput)
        /\ garbled' = garbled \/ garbled' = FALSE
    BY <1>20 DEF DeliverBeginFlush, FlushOutput, Selecting, SinkForgets, switch, render,
      demux, preq, ghost
  <2> QED
    BY <2>1 DEF FormatInv, Receiving
<1>21. CASE EndFlushOutput
  <2>1. /\ UNCHANGED <<ppc, outType, lost>> /\ (mInput' = mInput \/ mInput' = NoInput)
        /\ garbled' = garbled \/ garbled' = FALSE
    BY <1>21 DEF DeliverEndFlush, EndFlushOutput, Selecting, switch, render, demux, preq,
      ghost
  <2> QED
    BY <2>1 DEF FormatInv, Receiving
<1>22. CASE SetInput
  <2>1. mInput' = target /\ UNCHANGED <<ppc, outType, garbled>>
    BY <1>22 DEF SetInput, preq, render
  <2>2. CASE \E p \in Inputs \ {target} : Receiving(p)
    <3>1. "late" \in lost'
      BY <2>2, <1>22 DEF SetInput
    <3> QED
      BY <3>1 DEF FormatInv
  <2>3. CASE ~ \E p \in Inputs \ {target} : Receiving(p)
    <3>1. lost' = lost
      BY <2>3, <1>22 DEF SetInput
    <3> QED
      BY <2>1, <2>3, <3>1 DEF FormatInv, Receiving
  <2> QED
    BY <2>2, <2>3
<1>23. CASE OpenNew
  <2>1. /\ UNCHANGED <<ppc, outType, lost>> /\ (mInput' = mInput \/ mInput' = NoInput)
        /\ garbled' = garbled \/ garbled' = FALSE
    BY <1>23 DEF OpenNew, Selecting, switch, render, demux, preq, ghost
  <2> QED
    BY <2>1 DEF FormatInv, Receiving
<1>24. CASE SkipSeek
  <2>1. /\ UNCHANGED <<ppc, outType, lost>> /\ (mInput' = mInput \/ mInput' = NoInput)
        /\ garbled' = garbled \/ garbled' = FALSE
    BY <1>24 DEF NextSeeker, SkipSeek, switch, render, demux, preq, ghost
  <2> QED
    BY <2>1 DEF FormatInv, Receiving
<1>25. CASE DropSeek
  <2>1. /\ UNCHANGED <<ppc, outType, lost>> /\ (mInput' = mInput \/ mInput' = NoInput)
        /\ garbled' = garbled \/ garbled' = FALSE
    BY <1>25 DEF DropSeek, NextSeeker, switch, render, demux, preq, ghost
  <2> QED
    BY <2>1 DEF FormatInv, Receiving
<1>26. CASE TakeSeek
  <2>1. /\ UNCHANGED <<ppc, outType, lost>> /\ (mInput' = mInput \/ mInput' = NoInput)
        /\ garbled' = garbled \/ garbled' = FALSE
    BY <1>26 DEF NextSeeker, TakeSeek, switch, render, demux, preq, ghost
  <2> QED
    BY <2>1 DEF FormatInv, Receiving
<1>27. CASE ResumeGraph
  <2>1. /\ UNCHANGED <<ppc, outType, lost>> /\ (mInput' = mInput \/ mInput' = NoInput)
        /\ garbled' = garbled \/ garbled' = FALSE
    BY <1>27 DEF Idle, ResumeGraph, switch, render, demux, preq, ghost
  <2> QED
    BY <2>1 DEF FormatInv, Receiving
<1>28. CASE BeginFlushPin
  <2>1. UNCHANGED <<ppc, mInput, outType, lost>>
    BY <1>28 DEF BeginFlushPin, Flushing, preq, ghost
  <2>2. garbled' = garbled \/ garbled' = FALSE
    BY <1>28 DEF BeginFlushPin, BeginFlush, DeliverBeginFlush, SinkForgets, render
  <2> QED
    BY <2>1, <2>2 DEF FormatInv, Receiving
<1>29. CASE CallWorker
  <2>1. /\ UNCHANGED <<ppc, outType, lost>> /\ (mInput' = mInput \/ mInput' = NoInput)
        /\ garbled' = garbled \/ garbled' = FALSE
    BY <1>29 DEF CallWorker, Calling, switch, render, demux, preq, ghost
  <2> QED
    BY <2>1 DEF FormatInv, Receiving
<1>30. CASE CallReturns
  <2>1. /\ UNCHANGED <<ppc, outType, lost>> /\ (mInput' = mInput \/ mInput' = NoInput)
        /\ garbled' = garbled \/ garbled' = FALSE
    BY <1>30 DEF CallReturns, switch, render, demux, preq, ghost
  <2> QED
    BY <2>1 DEF FormatInv, Receiving
<1>31. CASE CallTimesOut
  <2>1. /\ UNCHANGED <<ppc, outType>>
        /\ lost \subseteq lost'
        /\ (mInput' = mInput \/ mInput' = NoInput)
        /\ garbled' = garbled \/ garbled' = FALSE
    BY <1>31 DEF CallTimesOut, switch, render, demux, preq, ghost
  <2> QED
    BY <2>1 DEF FormatInv, Receiving
<1>32. CASE EndFlushPin
  <2>1. UNCHANGED <<ppc, mInput, outType, lost, garbled>>
    BY <1>32 DEF EndFlushPin, Flushing, EndFlush, DeliverEndFlush, preq, ghost, render
  <2> QED
    BY <2>1 DEF FormatInv, Receiving
<1>33. CASE EndFlushFilter
  <2>1. /\ UNCHANGED <<ppc, outType, lost>> /\ (mInput' = mInput \/ mInput' = NoInput)
        /\ garbled' = garbled \/ garbled' = FALSE
    BY <1>33 DEF EndFlushFilter, Flushing, NextSeeker, switch, render, demux, preq, ghost
  <2> QED
    BY <2>1 DEF FormatInv, Receiving
<1>34. CASE Stop
  <2>1. /\ UNCHANGED <<ppc, outType, lost>> /\ (mInput' = mInput \/ mInput' = NoInput)
        /\ garbled' = garbled \/ garbled' = FALSE
    BY <1>34 DEF Begin, SinkForgets, Stop, switch, render, demux, preq, ghost
  <2> QED
    BY <2>1 DEF FormatInv, Receiving
<1>35. CASE StopSplitter
  <2>1. /\ UNCHANGED <<ppc, outType, lost>> /\ (mInput' = mInput \/ mInput' = NoInput)
        /\ garbled' = garbled \/ garbled' = FALSE
    BY <1>35 DEF StopSplitter, switch, render, demux, preq, ghost
  <2> QED
    BY <2>1 DEF FormatInv, Receiving
<1>36. CASE Stopped
  <2>1. /\ UNCHANGED <<ppc, outType, lost>> /\ (mInput' = mInput \/ mInput' = NoInput)
        /\ garbled' = garbled \/ garbled' = FALSE
    BY <1>36 DEF Idle, Stopped, switch, render, demux, preq, ghost
  <2> QED
    BY <2>1 DEF FormatInv, Receiving
<1>37. CASE Inactive
  <2>1. /\ UNCHANGED <<ppc, outType, lost>> /\ (mInput' = mInput \/ mInput' = NoInput)
        /\ garbled' = garbled \/ garbled' = FALSE
    BY <1>37 DEF Calling, Inactive, switch, render, demux, preq, ghost
  <2> QED
    BY <2>1 DEF FormatInv, Receiving
<1>38. CASE InactiveReturns
  <2>1. /\ UNCHANGED <<ppc, outType, lost>> /\ (mInput' = mInput \/ mInput' = NoInput)
        /\ garbled' = garbled \/ garbled' = FALSE
    BY <1>38 DEF InactiveReturns, NextInactive, switch, render, demux, preq, ghost
  <2> QED
    BY <2>1 DEF FormatInv, Receiving
<1>39. CASE InactiveTimesOut
  <2>1. /\ UNCHANGED <<ppc, outType>>
        /\ lost \subseteq lost'
        /\ (mInput' = mInput \/ mInput' = NoInput)
        /\ garbled' = garbled \/ garbled' = FALSE
    BY <1>39 DEF InactiveTimesOut, NextInactive, switch, render, demux, preq, ghost
  <2> QED
    BY <2>1 DEF FormatInv, Receiving
<1>40. ASSUME NEW s \in Splitters, Demuxer(s) \/ ReadOn(s) PROVE FormatInv'
  <2>1. UNCHANGED <<mInput, outType, garbled>>
    BY <1>40, DemuxFrame DEF switch, render
  <2>2. UNCHANGED <<ppc, lost>>
    BY Zenon, <1>40 DEF Demuxer, Demuxing, preq, WaitEndFlush, SkipPin, UsePin, NewSegment,
      StartDemux, GetRequest, ReadOn
  <2> QED
    BY <2>1, <2>2 DEF FormatInv, Receiving
<1>41. ASSUME NEW p \in Inputs, AwaitEndFlush(p) PROVE FormatInv'
  <2>1. \E then \in {"top", "endWait"} : ppc' = [ppc EXCEPT ![p] = then]
    BY <1>41 DEF AwaitEndFlush, Delivering, Return, Step, sinks
  <2>2. ppc[p] = "endWait"
    BY <1>1, <2>1, <1>41 DEF AwaitEndFlush, Delivering, Return, Step, sinks, IsActive
  <2>3. /\ UNCHANGED <<mInput, outType, lost>>
        /\ garbled' = garbled \/ garbled' = FALSE
    BY <1>41 DEF AwaitEndFlush, Delivering, Return, Step, sinks, ghost
  <2>4. \A q \in Inputs : q # p => ppc'[q] = ppc[q]
    BY <1>1, <2>1
  <2>5. ppc'[p] \in {"top", "endWait"}
    BY <1>1, <2>1
  <2> QED
    BY <1>1, <2>2, <2>3, <2>4, <2>5 DEF FormatInv, Receiving
<1>42. ASSUME NEW p \in Inputs, Exit(p) PROVE FormatInv'
  <2>1. \E then \in {"none"} : ppc' = [ppc EXCEPT ![p] = then]
    BY <1>42 DEF Delivering, Exit, Return, Step, sinks
  <2>2. ppc[p] = "top"
    BY <1>1, <2>1, <1>42 DEF Delivering, Exit, Return, Step, sinks, IsActive
  <2>3. /\ UNCHANGED <<mInput, outType, lost>>
        /\ garbled' = garbled \/ garbled' = FALSE
    BY <1>42 DEF Delivering, Exit, Return, Step, sinks, ghost
  <2>4. \A q \in Inputs : q # p => ppc'[q] = ppc[q]
    BY <1>1, <2>1
  <2>5. ppc'[p] \in {"none"}
    BY <1>1, <2>1
  <2> QED
    BY <1>1, <2>2, <2>3, <2>4, <2>5 DEF FormatInv, Receiving
<1>43. ASSUME NEW p \in Inputs, TakeLate(p) \/ Take(p) \/ TestResult(p) PROVE FormatInv'
  <2>1. \E then \in {"test", "eosTest", "top", "eos", "gate", "active"} :
          ppc' = [ppc EXCEPT ![p] = then]
    BY <1>43 DEF TakeLate, Take, Remove, TestResult
  <2>2. ppc[p] \in {"top", "test", "eosTest"}
    BY <1>43 DEF TakeLate, Take, Remove, TestResult
  <2>3. /\ UNCHANGED <<mInput, outType, lost>>
        /\ garbled' = garbled \/ garbled' = FALSE
    BY <1>43 DEF TakeLate, Take, Remove, TestResult, Delivering, sinks, ghost
  <2>4. \A q \in Inputs : q # p => ppc'[q] = ppc[q]
    BY <1>1, <2>1
  <2>5. ppc'[p] \in {"test", "eosTest", "top", "eos", "gate", "active"}
    BY <1>1, <2>1
  <2> QED
    BY <1>1, <2>2, <2>3, <2>4, <2>5 DEF FormatInv, Receiving
<1>44. ASSUME NEW p \in Inputs, PassGate(p) PROVE FormatInv'
  <2>1. \E then \in {"active"} : ppc' = [ppc EXCEPT ![p] = then]
    BY <1>44 DEF Delivering, PassGate, Return, Step, sinks
  <2>2. ppc[p] = "gate"
    BY <1>1, <2>1, <1>44 DEF Delivering, PassGate, Return, Step, sinks, IsActive
  <2>3. /\ UNCHANGED <<mInput, outType, lost>>
        /\ garbled' = garbled \/ garbled' = FALSE
    BY <1>44 DEF Delivering, PassGate, Return, Step, sinks, ghost
  <2>4. \A q \in Inputs : q # p => ppc'[q] = ppc[q]
    BY <1>1, <2>1
  <2>5. ppc'[p] \in {"active"}
    BY <1>1, <2>1
  <2> QED
    BY <1>1, <2>2, <2>3, <2>4, <2>5 DEF FormatInv, Receiving
<1>45. ASSUME NEW p \in Inputs, EnterActive(p) PROVE FormatInv'
  <2>1. \E then \in {"check"} : ppc' = [ppc EXCEPT ![p] = then]
    BY <1>45 DEF Delivering, EnterActive, Return, Step, sinks
  <2>2. ppc[p] = "active" /\ mInput = p
    BY <1>1, <2>1, <1>45 DEF Delivering, EnterActive, Return, Step, sinks, IsActive
  <2>3. /\ UNCHANGED <<mInput, outType, lost>>
        /\ garbled' = garbled \/ garbled' = FALSE
    BY <1>45 DEF Delivering, EnterActive, Return, Step, sinks, ghost
  <2>4. \A q \in Inputs : q # p => ppc'[q] = ppc[q]
    BY <1>1, <2>1
  <2>5. ppc'[p] \in {"check"}
    BY <1>1, <2>1
  <2> QED
    BY <1>1, <2>2, <2>3, <2>4, <2>5 DEF FormatInv, Receiving
<1>46. ASSUME NEW p \in Inputs, RefuseInactive(p) PROVE FormatInv'
  <2>1. \E then \in {"top", "endWait"} : ppc' = [ppc EXCEPT ![p] = then]
    BY <1>46 DEF Delivering, RefuseInactive, Return, Step, sinks
  <2>2. ppc[p] = "active"
    BY <1>1, <2>1, <1>46 DEF Delivering, RefuseInactive, Return, Step, sinks, IsActive
  <2>3. /\ UNCHANGED <<mInput, outType, lost>>
        /\ garbled' = garbled \/ garbled' = FALSE
    BY <1>46 DEF Delivering, RefuseInactive, Return, Step, sinks, ghost
  <2>4. \A q \in Inputs : q # p => ppc'[q] = ppc[q]
    BY <1>1, <2>1
  <2>5. ppc'[p] \in {"top", "endWait"}
    BY <1>1, <2>1
  <2> QED
    BY <1>1, <2>2, <2>3, <2>4, <2>5 DEF FormatInv, Receiving
<1>47. ASSUME NEW p \in Inputs, NotStreaming(p) PROVE FormatInv'
  <2>1. \E then \in {"top", "endWait"} : ppc' = [ppc EXCEPT ![p] = then]
    BY <1>47 DEF Delivering, NotStreaming, Return, Step, sinks
  <2>2. ppc[p] = "check"
    BY <1>1, <2>1, <1>47 DEF Delivering, NotStreaming, Return, Step, sinks, IsActive
  <2>3. /\ UNCHANGED <<mInput, outType, lost>>
        /\ garbled' = garbled \/ garbled' = FALSE
    BY <1>47 DEF Delivering, NotStreaming, Return, Step, sinks, ghost
  <2>4. \A q \in Inputs : q # p => ppc'[q] = ppc[q]
    BY <1>1, <2>1
  <2>5. ppc'[p] \in {"top", "endWait"}
    BY <1>1, <2>1
  <2> QED
    BY <1>1, <2>2, <2>3, <2>4, <2>5 DEF FormatInv, Receiving
<1>48. ASSUME NEW p \in Inputs, KeepBuffers(p) PROVE FormatInv'
  <2>1. \E then \in {"buffer", "rebuffer"} : ppc' = [ppc EXCEPT ![p] = then]
    BY <1>48 DEF Delivering, KeepBuffers, Return, Step, sinks
  <2>2. ppc[p] = "check" /\ (outType # p => ppc'[p] # "buffer")
    BY <1>1, <2>1, <1>48 DEF Delivering, KeepBuffers, Return, Step, sinks, IsActive
  <2>3. /\ UNCHANGED <<mInput, outType, lost>>
        /\ garbled' = garbled \/ garbled' = FALSE
    BY <1>48 DEF Delivering, KeepBuffers, Return, Step, sinks, ghost
  <2>4. \A q \in Inputs : q # p => ppc'[q] = ppc[q]
    BY <1>1, <2>1
  <2>5. ppc'[p] \in {"buffer", "rebuffer"}
    BY <1>1, <2>1
  <2> QED
    BY <1>1, <2>2, <2>3, <2>4, <2>5 DEF FormatInv, Receiving
<1>49. ASSUME NEW p \in Inputs, GrowBuffers(p) PROVE FormatInv'
  <2>1. \E then \in {"typeFlush"} : ppc' = [ppc EXCEPT ![p] = then]
    BY <1>49 DEF DeliverBeginFlush, DeliverEndFlush, Delivering, GrowBuffers, Return,
      SinkForgets, Step, sinks
  <2>2. ppc[p] = "check"
    BY <1>1, <2>1, <1>49 DEF DeliverBeginFlush, DeliverEndFlush, Delivering, GrowBuffers,
      Return, SinkForgets, Step, sinks, IsActive
  <2>3. /\ UNCHANGED <<mInput, outType, lost>>
        /\ garbled' = garbled \/ garbled' = FALSE
    BY <1>49 DEF DeliverBeginFlush, DeliverEndFlush, Delivering, GrowBuffers, Return,
      SinkForgets, Step, sinks, ghost
  <2>4. \A q \in Inputs : q # p => ppc'[q] = ppc[q]
    BY <1>1, <2>1
  <2>5. ppc'[p] \in {"typeFlush"}
    BY <1>1, <2>1
  <2> QED
    BY <1>1, <2>2, <2>3, <2>4, <2>5 DEF FormatInv, Receiving
<1>50. ASSUME NEW p \in Inputs, EndGrowBuffers(p) PROVE FormatInv'
  <2>1. \E then \in {"rebuffer"} : ppc' = [ppc EXCEPT ![p] = then]
    BY <1>50 DEF DeliverBeginFlush, DeliverEndFlush, Delivering, EndGrowBuffers, Return,
      SinkForgets, Step, sinks
  <2>2. ppc[p] = "typeFlush"
    BY <1>1, <2>1, <1>50 DEF DeliverBeginFlush, DeliverEndFlush, Delivering, EndGrowBuffers,
      Return, SinkForgets, Step, sinks, IsActive
  <2>3. /\ UNCHANGED <<mInput, outType, lost>>
        /\ garbled' = garbled \/ garbled' = FALSE
    BY <1>50 DEF DeliverBeginFlush, DeliverEndFlush, Delivering, EndGrowBuffers, Return,
      SinkForgets, Step, sinks, ghost
  <2>4. \A q \in Inputs : q # p => ppc'[q] = ppc[q]
    BY <1>1, <2>1
  <2>5. ppc'[p] \in {"rebuffer"}
    BY <1>1, <2>1
  <2> QED
    BY <1>1, <2>2, <2>3, <2>4, <2>5 DEF FormatInv, Receiving
<1>51. ASSUME NEW p \in Inputs, SendSample(p) PROVE FormatInv'
  <2>1. PICK at \in {"buffer", "rebuffer"} :
          /\ Return(p, at, Accepts)
          /\ outType' = IF at = "rebuffer" /\ sink # "stopped" THEN p ELSE outType
          /\ garbled' = garbled \/ (Accepts /\ garbled' = (garbled \/ ~OwnFormat(p)))
    BY <1>51 DEF SendSample, sinks
  <2>2. ppc[p] = at /\ ppc' \in {[ppc EXCEPT ![p] = "top"], [ppc EXCEPT ![p] = "endWait"]}
    BY <2>1 DEF Return
  <2>3. mInput' = mInput /\ lost' = lost
    BY <2>1 DEF Return, Delivering, ghost
  <2>4. \A q \in Inputs : q # p => ppc'[q] = ppc[q]
    BY <1>1, <2>2
  <2>5. ~ Receiving(p)'
    BY <1>1, <2>2 DEF Receiving
  <2>6. ASSUME "late" \notin lost
        PROVE /\ mInput \in {p, NoInput} /\ (at = "buffer" => outType = p)
                                      /\ \A q \in Inputs : q # p => ~ Receiving(q)
    BY <2>1, <2>2, <2>6 DEF FormatInv, Receiving
  <2> QED
    BY <1>1, <2>1, <2>2, <2>3, <2>4, <2>5, <2>6 DEF FormatInv, Receiving, OwnFormat, Accepts
<1>52. ASSUME NEW p \in Inputs, EnterEnd(p) PROVE FormatInv'
  <2>1. \E then \in {"eosDeliver"} : ppc' = [ppc EXCEPT ![p] = then]
    BY <1>52 DEF Delivering, EnterEnd, Return, Step, sinks
  <2>2. ppc[p] = "eos" /\ mInput = p
    BY <1>1, <2>1, <1>52 DEF Delivering, EnterEnd, Return, Step, sinks, IsActive
  <2>3. /\ UNCHANGED <<mInput, outType, lost>>
        /\ garbled' = garbled \/ garbled' = FALSE
    BY <1>52 DEF Delivering, EnterEnd, Return, Step, sinks, ghost
  <2>4. \A q \in Inputs : q # p => ppc'[q] = ppc[q]
    BY <1>1, <2>1
  <2>5. ppc'[p] \in {"eosDeliver"}
    BY <1>1, <2>1
  <2> QED
    BY <1>1, <2>2, <2>3, <2>4, <2>5 DEF FormatInv, Receiving
<1>53. ASSUME NEW p \in Inputs, InactiveEnd(p) PROVE FormatInv'
  <2>1. \E then \in {"top", "endWait"} : ppc' = [ppc EXCEPT ![p] = then]
    BY <1>53 DEF Delivering, InactiveEnd, Return, Step, sinks
  <2>2. ppc[p] = "eos"
    BY <1>1, <2>1, <1>53 DEF Delivering, InactiveEnd, Return, Step, sinks, IsActive
  <2>3. /\ UNCHANGED <<mInput, outType, lost>>
        /\ garbled' = garbled \/ garbled' = FALSE
    BY <1>53 DEF Delivering, InactiveEnd, Return, Step, sinks, ghost
  <2>4. \A q \in Inputs : q # p => ppc'[q] = ppc[q]
    BY <1>1, <2>1
  <2>5. ppc'[p] \in {"top", "endWait"}
    BY <1>1, <2>1
  <2> QED
    BY <1>1, <2>2, <2>3, <2>4, <2>5 DEF FormatInv, Receiving
<1>54. ASSUME NEW p \in Inputs, SendEnd(p) PROVE FormatInv'
  <2>1. \E then \in {"top", "endWait"} : ppc' = [ppc EXCEPT ![p] = then]
    BY <1>54 DEF Delivering, Return, SendEnd, Step, sinks
  <2>2. ppc[p] = "eosDeliver"
    BY <1>1, <2>1, <1>54 DEF Delivering, Return, SendEnd, Step, sinks, IsActive
  <2>3. /\ UNCHANGED <<mInput, outType, lost>>
        /\ garbled' = garbled \/ garbled' = FALSE
    BY <1>54 DEF Delivering, Return, SendEnd, Step, sinks, ghost
  <2>4. \A q \in Inputs : q # p => ppc'[q] = ppc[q]
    BY <1>1, <2>1
  <2>5. ppc'[p] \in {"top", "endWait"}
    BY <1>1, <2>1
  <2> QED
    BY <1>1, <2>2, <2>3, <2>4, <2>5 DEF FormatInv, Receiving
<1>55. CASE UNCHANGED vars
  <2>1. UNCHANGED <<ppc, mInput, outType, lost, garbled>>
    BY <1>55 DEF vars, switch, render, preq, ghost
  <2> QED
    BY <2>1 DEF FormatInv, Receiving
<1> QED
  BY <1>11, <1>12, <1>13, <1>14, <1>15, <1>16, <1>17, <1>18, <1>19, <1>20, <1>21, <1>22,
    <1>23, <1>24, <1>25, <1>26, <1>27, <1>28, <1>29, <1>30, <1>31, <1>32, <1>33, <1>34,
    <1>35, <1>36, <1>37, <1>38, <1>39, <1>40, <1>41, <1>42, <1>43, <1>44, <1>45, <1>46,
    <1>47, <1>48, <1>49, <1>50, <1>51, <1>52, <1>53, <1>54, <1>55 DEF Next, App, Demuxer,
    PinThread

------------------------------------------------------------------------------
(* Seeks and requests.                                                     *)
\* How the seekers that have passed a splitter change with the application's loop.
LEMMA PassedBy ==
  ASSUME Types, Control, NEW s, Positioning, Positioning', layout' = layout, apc \in SeekPhases
  PROVE  /\ Current = IF ak = NoInput THEN 1 ELSE of(ak)
         /\ Current \in Splitters /\ ak \in Seekers
         /\ apc = "seeker" => ak \notin Passed(s)
         /\ apc # "seeker" /\ Current = s => ak \in Passed(s)
         /\ NextSeeker => IF apc # "seeker" \/ Current # s THEN Passed(s)' = Passed(s)
                          ELSE Passed(s)' = Passed(s) \cup {ak}
         /\ ak' = ak /\ (apc = "seeker" <=> apc' = "seeker") => Passed(s)' = Passed(s)
         /\ ak' = ak /\ Current = s /\ apc' # "seeker" => ak \in Passed(s)'
         /\ ak' = ak /\ Current # s /\ apc' # "seeker" /\ apc = "seeker" => Passed(s)' = Passed(s)
<1>1. /\ NumInputs \in Nat /\ NumInputs > 0 /\ NumSplitters \in Nat /\ NumSplitters > 0
      /\ \A p \in Inputs : of(p) \in Splitters /\ of(p)' = of(p)
  BY Layout DEF Types, of
<1>2. ak \in Seekers /\ aop # "stop" /\ aop' # "stop"
  BY DEF Types, AppTypes, Positioning
<1>3. \A k \in Seekers : /\ SplitterAt(k)' = SplitterAt(k)
                         /\ SplitterAt(k) = IF k = NoInput THEN 1 ELSE of(k)
  BY <1>1, <1>2 DEF SplitterAt, of
<1>4. Current = SplitterAt(ak) /\ Seekers \in SUBSET Nat /\ Current \in Splitters
  BY <1>1, <1>2, <1>3 DEF Current, Seekers, NoInput, Inputs, Splitters
<1>5. ASSUME NextSeeker
      PROVE  IF apc # "seeker" \/ Current # s THEN Passed(s)' = Passed(s)
             ELSE Passed(s)' = Passed(s) \cup {ak}
  <2>1. CASE ak = NumInputs
    <3>1. apc' = "resume" /\ ak' = ak
      BY <1>5, <2>1 DEF NextSeeker
    <3>2. \A k \in Seekers : k \in Passed(s)' <=> SplitterAt(k) = s /\ (k < ak \/ k = ak)
      BY <3>1, <1>3 DEF Passed
    <3> QED
      BY <3>2, <1>2, <1>4 DEF Passed
  <2>2. CASE ak # NumInputs
    <3>1. apc' = "seeker" /\ ak' = ak + 1
      BY <1>5, <2>2 DEF NextSeeker
    <3>2. \A k \in Seekers : k \in Passed(s)' <=> SplitterAt(k) = s /\ (k < ak \/ k = ak)
      BY <3>1, <1>2, <1>3, <1>4 DEF Passed
    <3> QED
      BY <3>2, <1>2, <1>4 DEF Passed
  <2> QED
    BY <2>1, <2>2
<1>6. \A k \in Seekers :
        k \in Passed(s)' <=> SplitterAt(k) = s /\ (k < ak' \/ (k = ak' /\ apc' # "seeker"))
  BY <1>3 DEF Passed
<1>7. Passed(s) \subseteq Seekers /\ Passed(s)' \subseteq Seekers
  BY DEF Passed, Seekers
<1>8. ak' = ak /\ (apc = "seeker" <=> apc' = "seeker") => Passed(s)' = Passed(s)
  BY <1>6, <1>7 DEF Passed
<1>9. ak' = ak /\ Current = s /\ apc' # "seeker" => ak \in Passed(s)'
  BY <1>2, <1>4, <1>6
<1>10. ASSUME ak' = ak, Current # s, apc' # "seeker", apc = "seeker"
       PROVE  Passed(s)' = Passed(s)
  <2>1. \A k \in Seekers : k \in Passed(s)' <=> SplitterAt(k) = s /\ k < ak
    BY <1>2, <1>4, <1>6, <1>10
  <2>2. \A k \in Seekers : k \in Passed(s) <=> SplitterAt(k) = s /\ k < ak
    BY <1>10 DEF Passed
  <2> QED
    BY <1>7, <2>1, <2>2
<1>11. apc = "seeker" => ak \notin Passed(s)
  BY <1>2, <1>4 DEF Passed
<1>12. apc # "seeker" /\ Current = s => ak \in Passed(s)
  BY <1>2, <1>4 DEF Passed
<1> QED
  BY <1>2, <1>3, <1>4, <1>5, <1>8, <1>9, <1>10, <1>11, <1>12

\* A splitter that takes a seek has taken none in this operation: it would have
\* dropped it as a duplicate.
LEMMA TakenOnce ==
  ASSUME Types, Control, layout' = layout, SInv, TakeSeek
  PROVE  Current \in Splitters /\ real[Current] = 0 /\ Positioning /\ apc \in SeekPhases
<1>1. /\ apc = "seeker"
      /\ ~Duplicate(Current)
      /\ Positioning
      /\ Positioning'
      /\ apc \in SeekPhases
  BY DEF TakeSeek, Control, SeekPhases, Positioning
<1>2. Current \in Splitters /\ ak \notin Passed(Current)
  BY <1>1, PassedBy
<1>3. real[Current] # 1
  BY <1>1, <1>2 DEF SInv, SeekInv, Duplicate
<1>4. real[Current] \in Nat /\ real[Current] <= 1
  BY <1>1, <1>2 DEF SInv, SeekInv, Types, SeekTypes
<1> QED
  BY <1>1, <1>2, <1>3, <1>4

\* The splitter of an input and the pins of a splitter are fixed by the layout.
LEMMA Constancy ==
  ASSUME layout' = layout
  PROVE  /\ \A p : of(p)' = of(p)
         /\ \A s : PinsOf(s)' = PinsOf(s)
  BY DEF of, PinsOf

\* Every step keeps what the filter of SetPositionsInternal remembers true.
LEMMA SeekInvStep ==
  ASSUME Types, Control, SInv, [Next]_vars, NEW s \in Splitters
  PROVE  SeekInv(s)'
<1>0. layout' = layout
  BY SameLayout
<1>1. SeekInv(s) /\ \A p : of(p)' = of(p)
  BY <1>0, Constancy DEF SInv
<1>11. CASE Start
  <2>1. /\ UNCHANGED <<seekf, real, early>>
        /\ ~(apc \in SeekPhases /\ Positioning)
        /\ ~(apc \in SeekPhases /\ Positioning)'
    BY <1>11 DEF Begin, Start, Control, Positioning, app, ghost, AppPhases, StartPhases,
      SelectPhases, SeekPhases, FlushPhases, StopPhases
  <2> QED
    BY <1>1, <2>1 DEF SeekInv, seekf
<1>12. CASE StartSplitter
  <2>1. /\ UNCHANGED <<seekf, real, early>>
        /\ ~(apc \in SeekPhases /\ Positioning)
        /\ ~(apc \in SeekPhases /\ Positioning)'
    BY <1>12 DEF StartSplitter, Control, Positioning, app, ghost, AppPhases, StartPhases,
      SelectPhases, SeekPhases, FlushPhases, StopPhases
  <2> QED
    BY <1>1, <2>1 DEF SeekInv, seekf
<1>13. CASE Run
  <2>1. /\ UNCHANGED <<seekf, real, early>>
        /\ ~(apc \in SeekPhases /\ Positioning)
        /\ ~(apc \in SeekPhases /\ Positioning)'
    BY <1>13 DEF Idle, Run, Control, Positioning, app, ghost, AppPhases, StartPhases,
      SelectPhases, SeekPhases, FlushPhases, StopPhases
  <2> QED
    BY <1>1, <2>1 DEF SeekInv, seekf
<1>14. CASE Seek
  <2>1. /\ UNCHANGED <<seekf, real, early>>
        /\ apc = "idle"
        /\ apc' = "seeker"
        /\ aop' = "seek"
        /\ ak' = NoInput /\ position' \in Positions
    BY <1>14, Layout DEF Seek, Begin, PauseGraph, ghost, Types
  <2>2. Passed(s)' = {}
    BY <1>0, <2>1 DEF Passed, Seekers, NoInput
  <2>3. real[s] = 0 /\ s \notin early /\ position' # Nowhere
    BY <1>1, <2>1, Layout DEF SeekInv, AppPhases, StartPhases, SelectPhases, SeekPhases,
      FlushPhases, StopPhases, Positions, Nowhere, Types, Positioning
  <2> QED
    BY <1>1, <2>1, <2>2, <2>3 DEF SeekInv, seekf, AppPhases, StartPhases, SelectPhases,
      SeekPhases, FlushPhases, StopPhases
<1>15. ASSUME NEW n \in Inputs, Enable(n) PROVE SeekInv(s)'
  <2>1. /\ UNCHANGED <<seekf, real, early>> /\ apc = "idle" /\ apc' = "deselect"
    BY <1>15 DEF Enable, Begin, ghost
  <2> QED
    BY <1>1, <2>1 DEF SeekInv, seekf, AppPhases, StartPhases, SelectPhases, SeekPhases,
      FlushPhases, StopPhases
<1>16. CASE Deselect
  <2>1. /\ UNCHANGED <<seekf, real, early>>
        /\ ~(apc \in SeekPhases /\ Positioning)
        /\ ~(apc \in SeekPhases /\ Positioning)'
    BY <1>16 DEF Deselect, Selecting, Control, Positioning, app, ghost, AppPhases,
      StartPhases, SelectPhases, SeekPhases, FlushPhases, StopPhases
  <2> QED
    BY <1>1, <2>1 DEF SeekInv, seekf
<1>17. CASE OpenFirst
  <2>1. /\ UNCHANGED <<seekf, real, early>>
        /\ ~(apc \in SeekPhases /\ Positioning)
        /\ ~(apc \in SeekPhases /\ Positioning)'
    BY <1>17 DEF OpenFirst, Selecting, Control, Positioning, app, ghost, AppPhases,
      StartPhases, SelectPhases, SeekPhases, FlushPhases, StopPhases
  <2> QED
    BY <1>1, <2>1 DEF SeekInv, seekf
<1>18. CASE OpenNext
  <2>1. /\ UNCHANGED <<seekf, real, early>>
        /\ ~(apc \in SeekPhases /\ Positioning)
        /\ ~(apc \in SeekPhases /\ Positioning)'
    BY <1>18 DEF OpenNext, Selecting, Control, Positioning, app, ghost, AppPhases,
      StartPhases, SelectPhases, SeekPhases, FlushPhases, StopPhases
  <2> QED
    BY <1>1, <2>1 DEF SeekInv, seekf
<1>19. CASE CloseLast
  <2>1. /\ UNCHANGED <<seekf, real, early>>
        /\ ~(apc \in SeekPhases /\ Positioning)
        /\ ~(apc \in SeekPhases /\ Positioning)'
    BY <1>19 DEF CloseLast, Selecting, Control, Positioning, app, ghost, AppPhases,
      StartPhases, SelectPhases, SeekPhases, FlushPhases, StopPhases
  <2> QED
    BY <1>1, <2>1 DEF SeekInv, seekf
<1>20. CASE FlushOutput
  <2>1. /\ UNCHANGED <<seekf, real, early>>
        /\ ~(apc \in SeekPhases /\ Positioning)
        /\ ~(apc \in SeekPhases /\ Positioning)'
    BY <1>20 DEF DeliverBeginFlush, FlushOutput, Selecting, SinkForgets, Control,
      Positioning, app, ghost, AppPhases, StartPhases, SelectPhases, SeekPhases,
      FlushPhases, StopPhases
  <2> QED
    BY <1>1, <2>1 DEF SeekInv, seekf
<1>21. CASE EndFlushOutput
  <2>1. /\ UNCHANGED <<seekf, real, early>>
        /\ ~(apc \in SeekPhases /\ Positioning)
        /\ ~(apc \in SeekPhases /\ Positioning)'
    BY <1>21 DEF DeliverEndFlush, EndFlushOutput, Selecting, Control, Positioning, app,
      ghost, AppPhases, StartPhases, SelectPhases, SeekPhases, FlushPhases, StopPhases
  <2> QED
    BY <1>1, <2>1 DEF SeekInv, seekf
<1>22. CASE SetInput
  <2>1. /\ UNCHANGED <<seekf, real, early>>
        /\ ~(apc \in SeekPhases /\ Positioning)
        /\ ~(apc \in SeekPhases /\ Positioning)'
    BY <1>22 DEF SetInput, Control, Positioning, app, ghost, AppPhases, StartPhases,
      SelectPhases, SeekPhases, FlushPhases, StopPhases
  <2> QED
    BY <1>1, <2>1 DEF SeekInv, seekf
<1>23. CASE OpenNew
  <2>1. /\ UNCHANGED <<seekf, real, early, position>> /\ apc = "openNew" /\ apc' = "seeker"
        /\ ak' = NoInput /\ position \in Positions
    BY <1>23 DEF OpenNew, Selecting, ghost, Types, AppTypes
  <2>2. Passed(s)' = {}
    BY <1>0, <2>1 DEF Passed, Seekers, NoInput
  <2>3. real[s] = 0 /\ s \notin early /\ position' # Nowhere
    BY <1>1, <2>1, Layout DEF SeekInv, AppPhases, StartPhases, SelectPhases, SeekPhases,
      FlushPhases, StopPhases, Positions, Nowhere, Types, Positioning
  <2> QED
    BY <1>1, <2>1, <2>2, <2>3 DEF SeekInv, seekf, AppPhases, StartPhases, SelectPhases,
      SeekPhases, FlushPhases, StopPhases
<1>24. CASE SkipSeek
  <2>0. /\ apc = "seeker" /\ UNCHANGED <<aop, position>> /\ Positioning /\ Positioning'
        /\ apc \in SeekPhases
    BY <1>24 DEF SkipSeek, Control, SeekPhases, Positioning
  <2>1. /\ NextSeeker /\ UNCHANGED <<seekf, real>> /\ early' = early \cup {Current}
    BY <1>24 DEF SkipSeek
  <2>2. apc' \in {"seeker", "resume"} /\ early \subseteq early'
    BY <2>1 DEF NextSeeker
  <2>3. IF Current # s THEN Passed(s)' = Passed(s) ELSE Passed(s)' = Passed(s) \cup {ak}
    BY <1>0, <2>0, <2>1, PassedBy
  <2>4. apc' \in SeekPhases /\ apc' \notin FlushPhases
    BY <2>2 DEF SeekPhases, FlushPhases
  <2>5. CASE Current = s
    <3>1. s \in early' /\ Passed(s) \subseteq Passed(s)'
      BY <2>1, <2>3, <2>5
    <3> QED
      BY <1>1, <2>0, <2>1, <2>4, <3>1 DEF SeekInv, seekf
  <2>6. CASE Current # s
    <3>1. Passed(s)' = Passed(s)
      BY <2>3, <2>6
    <3> QED
      BY <1>1, <2>0, <2>1, <2>2, <2>4, <3>1 DEF SeekInv, seekf
  <2> QED
    BY <2>5, <2>6
<1>25. CASE DropSeek
  <2>0. /\ apc = "seeker" /\ UNCHANGED <<aop, position>> /\ Positioning /\ Positioning'
        /\ apc \in SeekPhases
    BY <1>25 DEF DropSeek, Control, SeekPhases, Positioning
  <2>1. /\ NextSeeker /\ UNCHANGED <<rtLastStart, real, early>> /\ Duplicate(Current)
        /\ lastSeekers' = [lastSeekers EXCEPT ![Current] = @ \cup {ak}]
    BY <1>25 DEF DropSeek, ghost
  <2>2. apc' \in {"seeker", "resume"}
    BY <2>1 DEF NextSeeker
  <2>3. /\ IF Current # s THEN Passed(s)' = Passed(s) ELSE Passed(s)' = Passed(s) \cup {ak}
        /\ ak \in Seekers /\ Current = IF ak = NoInput THEN 1 ELSE of(ak)
    BY <1>0, <2>0, <2>1, PassedBy
  <2>4. apc' \in SeekPhases /\ apc' \notin FlushPhases
    BY <2>2 DEF SeekPhases, FlushPhases
  <2>5. lastSeekers' [s] = IF s = Current THEN lastSeekers[s] \cup {ak} ELSE lastSeekers[s]
    BY <2>1 DEF Types, SeekTypes
  <2>6. \A k \in Seekers : of(k)' = of(k)
    BY <1>0 DEF of
  <2>7. \A k \in lastSeekers'[s] : k \in Seekers /\ s = IF k = NoInput THEN 1 ELSE of(k)'
    BY <1>1, <2>3, <2>5, <2>6 DEF SeekInv
  <2>8. CASE Current = s
    <3>1. rtLastStart[s] = position /\ ak \notin lastSeekers[s]
      BY <2>1, <2>8 DEF Duplicate
    <3>2. /\ real[s] = 1 => lastSeekers'[s] \subseteq Passed(s)'
          /\ real[s] = 0 /\ s \notin early => ~ lastSeekers'[s] \subseteq Passed(s)'
      BY <1>1, <2>0, <2>3, <2>5, <2>8, <3>1 DEF SeekInv
    <3> QED
      BY <1>1, <2>0, <2>1, <2>4, <2>5, <2>7, <2>8, <3>1, <3>2 DEF SeekInv
  <2>9. CASE Current # s
    <3>1. Passed(s)' = Passed(s) /\ lastSeekers'[s] = lastSeekers[s]
      BY <2>3, <2>5, <2>9
    <3> QED
      BY <1>1, <2>0, <2>1, <2>2, <2>4, <2>7, <3>1 DEF SeekInv
  <2> QED
    BY <2>8, <2>9
<1>26. CASE TakeSeek
  <2>0. /\ apc = "seeker" /\ UNCHANGED <<aop, position>> /\ Positioning /\ Positioning'
        /\ apc \in SeekPhases
    BY <1>26 DEF TakeSeek, Control, SeekPhases, Positioning
  <2>1. /\ ~Duplicate(Current) /\ UNCHANGED early
        /\ lastSeekers' = [lastSeekers EXCEPT ![Current] = {ak}]
        /\ rtLastStart' = [rtLastStart EXCEPT ![Current] = position]
        /\ real' = [real EXCEPT ![Current] = @ + 1]
        /\ \/ NextSeeker
           \/ apc' = "beginPin" /\ ak' = ak
    BY <1>26 DEF TakeSeek, LoopPins
  <2>2. apc' \in SeekPhases /\ Current \in Splitters /\ ak \in Seekers
    <3>1. apc' \in SeekPhases
      BY <2>1 DEF NextSeeker, SeekPhases, FlushPhases
    <3> QED
      BY <1>0, <2>0, <3>1, PassedBy
  <2>3. /\ real'[s] = IF s = Current THEN real[s] + 1 ELSE real[s]
        /\ rtLastStart'[s] = IF s = Current THEN position ELSE rtLastStart[s]
        /\ lastSeekers'[s] = IF s = Current THEN {ak} ELSE lastSeekers[s]
    BY <2>1 DEF Types, SeekTypes
  <2>4. CASE Current = s
    <3>1. real[s] = 0
      BY <1>0, <2>4, TakenOnce, <1>26
    <3>2. real'[s] = 1
      BY <2>3, <2>4, <3>1
    <3>3. ak \in Passed(s)' /\ s = IF ak = NoInput THEN 1 ELSE of(ak)
      <4>1. CASE NextSeeker
        BY <1>0, <2>0, <2>4, <4>1, PassedBy
      <4>2. CASE apc' = "beginPin" /\ ak' = ak
        BY <1>0, <2>0, <2>4, <4>2, PassedBy
      <4> QED
        BY <2>1, <4>1, <4>2
    <3>5. /\ rtLastStart'[s] = position' /\ lastSeekers'[s] = {ak}
      BY <2>0, <2>3, <2>4
    <3> QED
      BY <1>1, <2>0, <2>2, <3>2, <3>3, <3>5 DEF SeekInv
  <2>5. CASE Current # s
    <3>1. Passed(s)' = Passed(s)
      <4>1. CASE NextSeeker
        BY <1>0, <2>0, <2>5, <4>1, PassedBy
      <4>2. CASE apc' = "beginPin" /\ ak' = ak
        BY <1>0, <2>0, <2>5, <4>2, PassedBy
      <4> QED
        BY <2>1, <4>1, <4>2
    <3>2. apc' \in FlushPhases => Current' # s
      <4>1. CASE NextSeeker
        BY <4>1 DEF NextSeeker, FlushPhases
      <4>2. CASE apc' = "beginPin" /\ ak' = ak
        BY <1>0, <2>0, <2>5, <4>2 DEF Current, SplitterAt, of
      <4> QED
        BY <2>1, <4>1, <4>2
    <3>3. \A k \in lastSeekers[s] : of(k)' = of(k)
      BY <1>0 DEF of
    <3> QED
      BY <1>1, <2>0, <2>1, <2>2, <2>3, <2>5, <3>1, <3>2, <3>3 DEF SeekInv
  <2> QED
    BY <2>4, <2>5
<1>27. CASE ResumeGraph
  <2>1. UNCHANGED seekf /\ real' = [t \in Splitters |-> 0] /\ early' = {} /\ apc' = "idle"
    BY <1>27 DEF ResumeGraph, Idle
  <2> QED
    BY <1>1, <2>1 DEF SeekInv, seekf, AppPhases, StartPhases, SelectPhases, SeekPhases,
      FlushPhases, StopPhases
<1>28. CASE BeginFlushPin
  <2>1. /\ UNCHANGED <<seekf, real, early, aop, ak, position>>
        /\ apc \in FlushPhases
        /\ apc' \in FlushPhases
    BY <1>28 DEF AfterPin, BeginFlushPin, DeliverBeginFlush, Flushing, SinkForgets,
      FlushPhases, ghost
  <2>2. ASSUME Positioning PROVE Passed(s)' = Passed(s) /\ Current' = Current
    <3>1. apc \in SeekPhases /\ apc # "seeker" /\ apc' # "seeker" /\ Positioning'
      BY <2>1, <2>2 DEF SeekPhases, FlushPhases, Positioning
    <3> QED
      BY <1>0, <2>1, <2>2, <3>1, PassedBy DEF Current, SplitterAt, of
  <2> QED
    BY <1>1, <2>1, <2>2 DEF SeekInv, seekf, SeekPhases, Positioning
<1>29. CASE CallWorker
  <2>1. /\ UNCHANGED <<seekf, real, early, aop, ak, position>>
        /\ apc \in FlushPhases
        /\ apc' \in FlushPhases
    BY <1>29 DEF CallWorker, Calling, FlushPhases, ghost
  <2>2. ASSUME Positioning PROVE Passed(s)' = Passed(s) /\ Current' = Current
    <3>1. apc \in SeekPhases /\ apc # "seeker" /\ apc' # "seeker" /\ Positioning'
      BY <2>1, <2>2 DEF SeekPhases, FlushPhases, Positioning
    <3> QED
      BY <1>0, <2>1, <2>2, <3>1, PassedBy DEF Current, SplitterAt, of
  <2> QED
    BY <1>1, <2>1, <2>2 DEF SeekInv, seekf, SeekPhases, Positioning
<1>30. CASE CallReturns
  <2>1. /\ UNCHANGED <<seekf, real, early, aop, ak, position>>
        /\ apc \in FlushPhases
        /\ apc' \in FlushPhases
    BY <1>30 DEF CallReturns, LoopPins, FlushPhases, ghost
  <2>2. ASSUME Positioning PROVE Passed(s)' = Passed(s) /\ Current' = Current
    <3>1. apc \in SeekPhases /\ apc # "seeker" /\ apc' # "seeker" /\ Positioning'
      BY <2>1, <2>2 DEF SeekPhases, FlushPhases, Positioning
    <3> QED
      BY <1>0, <2>1, <2>2, <3>1, PassedBy DEF Current, SplitterAt, of
  <2> QED
    BY <1>1, <2>1, <2>2 DEF SeekInv, seekf, SeekPhases, Positioning
<1>31. CASE CallTimesOut
  <2>1. /\ UNCHANGED <<seekf, real, early, aop, ak, position>>
        /\ apc \in FlushPhases
        /\ apc' \in FlushPhases
    BY <1>31 DEF CallTimesOut, LoopPins, FlushPhases, ghost
  <2>2. ASSUME Positioning PROVE Passed(s)' = Passed(s) /\ Current' = Current
    <3>1. apc \in SeekPhases /\ apc # "seeker" /\ apc' # "seeker" /\ Positioning'
      BY <2>1, <2>2 DEF SeekPhases, FlushPhases, Positioning
    <3> QED
      BY <1>0, <2>1, <2>2, <3>1, PassedBy DEF Current, SplitterAt, of
  <2> QED
    BY <1>1, <2>1, <2>2 DEF SeekInv, seekf, SeekPhases, Positioning
<1>32. CASE EndFlushPin
  <2>1. /\ UNCHANGED <<seekf, real, early, aop, ak, position>>
        /\ apc \in FlushPhases
        /\ apc' \in FlushPhases
    BY <1>32 DEF AfterPin, DeliverEndFlush, EndFlushPin, Flushing, FlushPhases, ghost
  <2>2. ASSUME Positioning PROVE Passed(s)' = Passed(s) /\ Current' = Current
    <3>1. apc \in SeekPhases /\ apc # "seeker" /\ apc' # "seeker" /\ Positioning'
      BY <2>1, <2>2 DEF SeekPhases, FlushPhases, Positioning
    <3> QED
      BY <1>0, <2>1, <2>2, <3>1, PassedBy DEF Current, SplitterAt, of
  <2> QED
    BY <1>1, <2>1, <2>2 DEF SeekInv, seekf, SeekPhases, Positioning
<1>33. CASE EndFlushFilter
  <2>1. /\ UNCHANGED <<seekf, real, early, aop, position>>
        /\ apc = "endFilter"
        /\ apc \in SeekPhases
    BY <1>33 DEF EndFlushFilter, Flushing, FlushPhases, SeekPhases, ghost
  <2>2. CASE aop = "stop"
    BY <1>1, <2>1, <2>2 DEF SeekInv, seekf, Positioning
  <2>3. CASE aop # "stop"
    <3>1. Positioning /\ Positioning' /\ NextSeeker
      BY <2>1, <2>3, <1>33 DEF EndFlushFilter, Control, Positioning, FlushPhases
    <3>2. Passed(s)' = Passed(s)
      BY <1>0, <2>1, <3>1, PassedBy
    <3>3. apc' \in SeekPhases /\ apc' \notin FlushPhases
      BY <3>1 DEF NextSeeker, SeekPhases, FlushPhases
    <3>4. \A k \in lastSeekers[s] : of(k)' = of(k)
      BY <1>0 DEF of
    <3> QED
      BY <1>1, <2>1, <3>1, <3>2, <3>3, <3>4 DEF SeekInv, seekf
  <2> QED
    BY <2>2, <2>3
<1>34. CASE Stop
  <2>1. /\ UNCHANGED <<seekf, real, early>>
        /\ ~(apc \in SeekPhases /\ Positioning)
        /\ ~(apc \in SeekPhases /\ Positioning)'
    BY <1>34 DEF Begin, SinkForgets, Stop, Control, Positioning, app, ghost, AppPhases,
      StartPhases, SelectPhases, SeekPhases, FlushPhases, StopPhases
  <2> QED
    BY <1>1, <2>1 DEF SeekInv, seekf
<1>35. CASE StopSplitter
  <2>1. /\ UNCHANGED <<seekf, real, early>>
        /\ ~(apc \in SeekPhases /\ Positioning)
        /\ ~(apc \in SeekPhases /\ Positioning)'
    BY <1>35 DEF LoopPins, StopSplitter, Control, Positioning, app, ghost, AppPhases,
      StartPhases, SelectPhases, SeekPhases, FlushPhases, StopPhases
  <2> QED
    BY <1>1, <2>1 DEF SeekInv, seekf
<1>36. CASE Stopped
  <2>1. /\ UNCHANGED <<seekf, real, early>>
        /\ ~(apc \in SeekPhases /\ Positioning)
        /\ ~(apc \in SeekPhases /\ Positioning)'
    BY <1>36 DEF Idle, Stopped, Control, Positioning, app, ghost, AppPhases, StartPhases,
      SelectPhases, SeekPhases, FlushPhases, StopPhases
  <2> QED
    BY <1>1, <2>1 DEF SeekInv, seekf
<1>37. CASE Inactive
  <2>1. /\ UNCHANGED <<seekf, real, early>>
        /\ ~(apc \in SeekPhases /\ Positioning)
        /\ ~(apc \in SeekPhases /\ Positioning)'
    BY <1>37 DEF Calling, Inactive, Control, Positioning, app, ghost, AppPhases,
      StartPhases, SelectPhases, SeekPhases, FlushPhases, StopPhases
  <2> QED
    BY <1>1, <2>1 DEF SeekInv, seekf
<1>38. CASE InactiveReturns
  <2>1. /\ UNCHANGED <<seekf, real, early>>
        /\ ~(apc \in SeekPhases /\ Positioning)
        /\ ~(apc \in SeekPhases /\ Positioning)'
    BY <1>38 DEF AfterPin, InactiveReturns, NextInactive, Control, Positioning, app, ghost,
      AppPhases, StartPhases, SelectPhases, SeekPhases, FlushPhases, StopPhases
  <2> QED
    BY <1>1, <2>1 DEF SeekInv, seekf
<1>39. CASE InactiveTimesOut
  <2>1. /\ UNCHANGED <<seekf, real, early>>
        /\ ~(apc \in SeekPhases /\ Positioning)
        /\ ~(apc \in SeekPhases /\ Positioning)'
    BY <1>39 DEF AfterPin, InactiveTimesOut, NextInactive, Control, Positioning, app, ghost,
      AppPhases, StartPhases, SelectPhases, SeekPhases, FlushPhases, StopPhases
  <2> QED
    BY <1>1, <2>1 DEF SeekInv, seekf
<1>40. ASSUME NEW t \in Splitters, Demuxer(t) \/ ReadOn(t) PROVE SeekInv(s)'
  <2>1. UNCHANGED <<app, rtLastStart, lastSeekers, real, early>>
    BY <1>40, DemuxFrame DEF seekf, ghost
  <2>2. /\ Passed(s)' = Passed(s) /\ Current' = Current /\ \A k : of(k)' = of(k)
    BY <1>0, <2>1 DEF Passed, SplitterAt, Current, of, app
  <2> QED
    BY <1>1, <2>1, <2>2 DEF SeekInv, Positioning, app
<1>41. ASSUME NEW p \in Inputs, PinThread(p) PROVE SeekInv(s)'
  <2>1. UNCHANGED <<app, rtLastStart, lastSeekers, real, early>>
    BY <1>41, PinFrame DEF seekf, ghost
  <2>2. /\ Passed(s)' = Passed(s) /\ Current' = Current /\ \A k : of(k)' = of(k)
    BY <1>0, <2>1 DEF Passed, SplitterAt, Current, of, app
  <2> QED
    BY <1>1, <2>1, <2>2 DEF SeekInv, Positioning, app
<1>42. CASE UNCHANGED vars
  <2>1. UNCHANGED <<app, rtLastStart, lastSeekers, real, early>>
    BY <1>42 DEF vars, seekf, ghost
  <2>2. /\ Passed(s)' = Passed(s) /\ Current' = Current /\ \A k : of(k)' = of(k)
    BY <1>0, <2>1 DEF Passed, SplitterAt, Current, of, app
  <2> QED
    BY <1>1, <2>1, <2>2 DEF SeekInv, Positioning, app
<1> QED
  BY <1>11, <1>12, <1>13, <1>14, <1>15, <1>16, <1>17, <1>18, <1>19, <1>20, <1>21, <1>22,
    <1>23, <1>24, <1>25, <1>26, <1>27, <1>28, <1>29, <1>30, <1>31, <1>32, <1>33, <1>34,
    <1>35, <1>36, <1>37, <1>38, <1>39, <1>40, <1>41, <1>42 DEF Next, App, Demuxer, PinThread

\* Every step keeps CMD_SEEK pending only while it is waited for or given up.
LEMMA RequestInvStep ==
  ASSUME Types, Control, SInv, [Next]_vars, NEW s \in Splitters
  PROVE  RequestInv(s)'
<1>0. layout' = layout
  BY SameLayout
<1>1. SeekInv(s) /\ RequestInv(s)
  BY DEF SInv
<1>2. \A p : of(p)' = of(p)
  BY <1>0, Constancy
<1>11. CASE Start
  <2>1. UNCHANGED <<fReq, fDone>> /\ apc = "idle" /\ "gaveUp" \notin lost
    BY <1>11 DEF Start, Begin, demux
  <2> QED
    BY <1>1, <2>1 DEF RequestInv
<1>12. CASE StartSplitter
  <2>1. UNCHANGED <<fReq, fDone>> /\ apc # "idle" /\ ~(apc \in SeekPhases /\ Positioning)
    BY <1>12 DEF StartSplitter, Control, Positioning, demux, AppPhases, StartPhases,
      SelectPhases, SeekPhases, FlushPhases, StopPhases
  <2> QED
    BY <1>1, <2>1 DEF RequestInv
<1>13. CASE Run
  <2>1. UNCHANGED <<fReq, fDone>> /\ apc # "idle" /\ ~(apc \in SeekPhases /\ Positioning)
    BY <1>13 DEF Idle, Run, Control, Positioning, demux, AppPhases, StartPhases,
      SelectPhases, SeekPhases, FlushPhases, StopPhases
  <2> QED
    BY <1>1, <2>1 DEF RequestInv
<1>14. CASE Seek
  <2>1. UNCHANGED <<fReq, fDone>> /\ apc = "idle" /\ "gaveUp" \notin lost
    BY <1>14 DEF Seek, Begin, demux
  <2> QED
    BY <1>1, <2>1 DEF RequestInv
<1>15. ASSUME NEW n \in Inputs, Enable(n) PROVE RequestInv(s)'
  <2>1. UNCHANGED <<fReq, fDone>> /\ apc = "idle" /\ "gaveUp" \notin lost
    BY <1>15 DEF Enable, Begin, demux
  <2> QED
    BY <1>1, <2>1 DEF RequestInv
<1>16. CASE Deselect
  <2>1. UNCHANGED <<fReq, fDone>> /\ apc # "idle" /\ ~(apc \in SeekPhases /\ Positioning)
    BY <1>16 DEF Deselect, Selecting, Control, Positioning, demux, AppPhases, StartPhases,
      SelectPhases, SeekPhases, FlushPhases, StopPhases
  <2> QED
    BY <1>1, <2>1 DEF RequestInv
<1>17. CASE OpenFirst
  <2>1. UNCHANGED <<fReq, fDone>> /\ apc # "idle" /\ ~(apc \in SeekPhases /\ Positioning)
    BY <1>17 DEF OpenFirst, Selecting, Control, Positioning, demux, AppPhases, StartPhases,
      SelectPhases, SeekPhases, FlushPhases, StopPhases
  <2> QED
    BY <1>1, <2>1 DEF RequestInv
<1>18. CASE OpenNext
  <2>1. UNCHANGED <<fReq, fDone>> /\ apc # "idle" /\ ~(apc \in SeekPhases /\ Positioning)
    BY <1>18 DEF OpenNext, Selecting, Control, Positioning, demux, AppPhases, StartPhases,
      SelectPhases, SeekPhases, FlushPhases, StopPhases
  <2> QED
    BY <1>1, <2>1 DEF RequestInv
<1>19. CASE CloseLast
  <2>1. UNCHANGED <<fReq, fDone>> /\ apc # "idle" /\ ~(apc \in SeekPhases /\ Positioning)
    BY <1>19 DEF CloseLast, Selecting, Control, Positioning, demux, AppPhases, StartPhases,
      SelectPhases, SeekPhases, FlushPhases, StopPhases
  <2> QED
    BY <1>1, <2>1 DEF RequestInv
<1>20. CASE FlushOutput
  <2>1. UNCHANGED <<fReq, fDone>> /\ apc # "idle" /\ ~(apc \in SeekPhases /\ Positioning)
    BY <1>20 DEF DeliverBeginFlush, FlushOutput, Selecting, SinkForgets, Control,
      Positioning, demux, AppPhases, StartPhases, SelectPhases, SeekPhases, FlushPhases,
      StopPhases
  <2> QED
    BY <1>1, <2>1 DEF RequestInv
<1>21. CASE EndFlushOutput
  <2>1. UNCHANGED <<fReq, fDone>> /\ apc # "idle" /\ ~(apc \in SeekPhases /\ Positioning)
    BY <1>21 DEF DeliverEndFlush, EndFlushOutput, Selecting, Control, Positioning, demux,
      AppPhases, StartPhases, SelectPhases, SeekPhases, FlushPhases, StopPhases
  <2> QED
    BY <1>1, <2>1 DEF RequestInv
<1>22. CASE SetInput
  <2>1. UNCHANGED <<fReq, fDone>> /\ apc # "idle" /\ ~(apc \in SeekPhases /\ Positioning)
    BY <1>22 DEF SetInput, Control, Positioning, demux, AppPhases, StartPhases,
      SelectPhases, SeekPhases, FlushPhases, StopPhases
  <2> QED
    BY <1>1, <2>1 DEF RequestInv
<1>23. CASE OpenNew
  <2>1. UNCHANGED <<fReq, fDone>> /\ apc # "idle" /\ ~(apc \in SeekPhases /\ Positioning)
    BY <1>23 DEF OpenNew, Selecting, Control, Positioning, demux, AppPhases, StartPhases,
      SelectPhases, SeekPhases, FlushPhases, StopPhases
  <2> QED
    BY <1>1, <2>1 DEF RequestInv
<1>24. CASE SkipSeek
  <2>1. /\ UNCHANGED <<fReq, fDone, real, lost, aop>> /\ apc = "seeker" /\ NextSeeker
    BY <1>24 DEF SkipSeek, demux, ghost
  <2>2. apc' \in {"seeker", "resume"}
    BY <2>1 DEF NextSeeker
  <2> QED
    BY <1>1, <2>1, <2>2 DEF RequestInv, Positioning, SeekPhases, FlushPhases
<1>25. CASE DropSeek
  <2>1. /\ UNCHANGED <<fReq, fDone, real, lost, aop>> /\ apc = "seeker" /\ NextSeeker
    BY <1>25 DEF DropSeek, demux, ghost
  <2>2. apc' \in {"seeker", "resume"}
    BY <2>1 DEF NextSeeker
  <2> QED
    BY <1>1, <2>1, <2>2 DEF RequestInv, Positioning, SeekPhases, FlushPhases
<1>26. CASE TakeSeek
  <2>1. /\ UNCHANGED <<fReq, fDone, lost, aop>> /\ apc = "seeker"
        /\ real' = [real EXCEPT ![Current] = @ + 1]
        /\ NextSeeker \/ (apc' = "beginPin" /\ ak' = ak)
    BY <1>26 DEF TakeSeek, LoopPins
  <2>2. Current \in Splitters /\ real[Current] = 0 /\ Positioning
    BY <1>0, <1>26, TakenOnce
  <2>3. CASE s = Current
    BY <1>1, <2>1, <2>2, <2>3 DEF RequestInv
  <2>4. CASE s # Current
    <3>1. real'[s] = real[s]
      BY <2>1, <2>4 DEF Types, SeekTypes
    <3>2. apc' \in {"seeker", "resume"} \/ (apc' = "beginPin" /\ Current' = Current)
      BY <1>2, <2>1 DEF NextSeeker, Current, SplitterAt
    <3> QED
      BY <1>1, <2>1, <2>2, <2>4, <3>1, <3>2 DEF RequestInv, Positioning, SeekPhases,
        FlushPhases
  <2> QED
    BY <2>3, <2>4
<1>27. CASE ResumeGraph
  <2>1. UNCHANGED <<fReq, fDone, lost>> /\ apc = "resume" /\ apc' = "idle"
    BY <1>27 DEF ResumeGraph, Idle, demux
  <2> QED
    BY <1>1, <2>1 DEF RequestInv
<1>28. CASE BeginFlushPin
  <2>1. /\ UNCHANGED <<fReq, fDone, real, lost, aop, ak>>
        /\ apc = "beginPin"
        /\ apc' \in {"beginPin", "call"}
    BY <1>28 DEF BeginFlushPin, Flushing, AfterPin, ghost
  <2>2. Current' = Current
    BY <2>1, <1>2 DEF Current, SplitterAt
  <2> QED
    BY <1>1, <2>1, <2>2 DEF RequestInv, Positioning, SeekPhases, FlushPhases
<1>29. CASE CallWorker
  <2>1. /\ apc = "call" /\ apc' = "wait" /\ UNCHANGED <<aop, ak, lost, real>>
        /\ fReq' = [fReq EXCEPT ![Current] = IF aop = "stop" THEN "exit" ELSE "seek"]
        /\ fDone' = [fDone EXCEPT ![Current] = FALSE]
    BY <1>29 DEF CallWorker, Calling
  <2>2. /\ Current' = Current
        /\ fReq'[s] = IF Current = s THEN (IF aop = "stop" THEN "exit" ELSE "seek") ELSE fReq[s]
        /\ fDone'[s] = IF Current = s THEN FALSE ELSE fDone[s]
    BY <1>2, <2>1 DEF Current, SplitterAt, Types, ThreadTypes
  <2>3. CASE Current # s
    BY <1>1, <2>1, <2>2, <2>3 DEF RequestInv, Positioning, SeekPhases, FlushPhases
  <2>4. CASE Current = s
    <3>1. aop # "stop" => Positioning /\ Positioning' /\ real[s] = 1
      BY <1>1, <2>1, <2>4 DEF SeekInv, Control, Positioning, SeekPhases, FlushPhases
    <3>2. ~ fDone'[s] /\ (fReq'[s] = "seek" => aop # "stop")
      BY <2>1, <2>4 DEF Types, ThreadTypes
    <3>3. apc' = "wait" /\ Current' = s /\ real'[s] = real[s] /\ apc' \in SeekPhases
      BY <2>1, <2>2, <2>4 DEF SeekPhases, FlushPhases
    <3> QED
      BY <3>1, <3>2, <3>3 DEF RequestInv
  <2> QED
    BY <2>3, <2>4
<1>30. CASE CallReturns
  <2>1. /\ UNCHANGED <<fReq, real, lost, aop, ak>>
        /\ apc = "wait"
        /\ apc' = "endPin"
        /\ fDone[Current]
        /\ fDone' = [fDone EXCEPT ![Current] = FALSE]
    BY <1>30 DEF CallReturns, LoopPins, ghost
  <2>2. fDone'[s] => fDone[s]
    BY <2>1 DEF Types, ThreadTypes
  <2> QED
    BY <1>1, <2>1, <2>2 DEF RequestInv, Positioning, SeekPhases, FlushPhases
<1>31. CASE CallTimesOut
  <2>1. /\ UNCHANGED <<fReq, fDone, real, aop, ak>> /\ apc = "wait" /\ apc' = "endPin"
        /\ "gaveUp" \in lost'
    BY <1>31 DEF CallTimesOut, LoopPins, demux
  <2> QED
    BY <1>1, <2>1 DEF RequestInv, Positioning, SeekPhases, FlushPhases
<1>32. CASE EndFlushPin
  <2>1. /\ UNCHANGED <<fReq, fDone, real, lost, aop, ak>>
        /\ apc = "endPin"
        /\ apc' \in {"endPin", "endFilter"}
    BY <1>32 DEF EndFlushPin, Flushing, AfterPin, ghost
  <2> QED
    BY <1>1, <2>1 DEF RequestInv, Positioning, SeekPhases, FlushPhases
<1>33. CASE EndFlushFilter
  <2>1. /\ UNCHANGED <<fReq, fDone, real, lost, aop>> /\ apc = "endFilter"
        /\ aop = "stop" \/ NextSeeker
    BY <1>33 DEF EndFlushFilter, Flushing, ghost
  <2>2. CASE aop = "stop"
    BY <1>1, <2>1, <2>2 DEF RequestInv, Positioning
  <2>3. CASE NextSeeker
    <3>1. apc' \in {"seeker", "resume"}
      BY <2>3 DEF NextSeeker
    <3> QED
      BY <1>1, <2>1, <3>1 DEF RequestInv, Positioning, SeekPhases, FlushPhases
  <2> QED
    BY <2>1, <2>2, <2>3
<1>34. CASE Stop
  <2>1. UNCHANGED <<fReq, fDone>> /\ apc = "idle" /\ "gaveUp" \notin lost
    BY <1>34 DEF Stop, Begin, demux
  <2> QED
    BY <1>1, <2>1 DEF RequestInv
<1>35. CASE StopSplitter
  <2>1. UNCHANGED <<fReq, fDone>> /\ apc # "idle" /\ ~(apc \in SeekPhases /\ Positioning)
    BY <1>35 DEF LoopPins, StopSplitter, Control, Positioning, demux, AppPhases,
      StartPhases, SelectPhases, SeekPhases, FlushPhases, StopPhases
  <2> QED
    BY <1>1, <2>1 DEF RequestInv
<1>36. CASE Stopped
  <2>1. UNCHANGED <<fReq, fDone>> /\ apc # "idle" /\ ~(apc \in SeekPhases /\ Positioning)
    BY <1>36 DEF Idle, Stopped, Control, Positioning, demux, AppPhases, StartPhases,
      SelectPhases, SeekPhases, FlushPhases, StopPhases
  <2> QED
    BY <1>1, <2>1 DEF RequestInv
<1>37. CASE Inactive
  <2>1. UNCHANGED <<fReq, fDone>> /\ apc # "idle" /\ ~(apc \in SeekPhases /\ Positioning)
    BY <1>37 DEF Calling, Inactive, Control, Positioning, demux, AppPhases, StartPhases,
      SelectPhases, SeekPhases, FlushPhases, StopPhases
  <2> QED
    BY <1>1, <2>1 DEF RequestInv
<1>38. CASE InactiveReturns
  <2>1. UNCHANGED <<fReq, fDone>> /\ apc # "idle" /\ ~(apc \in SeekPhases /\ Positioning)
    BY <1>38 DEF AfterPin, InactiveReturns, NextInactive, Control, Positioning, demux,
      AppPhases, StartPhases, SelectPhases, SeekPhases, FlushPhases, StopPhases
  <2> QED
    BY <1>1, <2>1 DEF RequestInv
<1>39. CASE InactiveTimesOut
  <2>1. UNCHANGED <<fReq, fDone>> /\ apc # "idle" /\ ~(apc \in SeekPhases /\ Positioning)
    BY <1>39 DEF AfterPin, InactiveTimesOut, NextInactive, Control, Positioning, demux,
      AppPhases, StartPhases, SelectPhases, SeekPhases, FlushPhases, StopPhases
  <2> QED
    BY <1>1, <2>1 DEF RequestInv
<1>40. ASSUME NEW t \in Splitters, Demuxer(t) \/ ReadOn(t) PROVE RequestInv(s)'
  <2>1. UNCHANGED <<app, real, lost>>
    <3>1. UNCHANGED <<app, real>>
      BY <1>40, DemuxFrame
    <3>2. lost' = lost
      BY Zenon, <1>40 DEF Demuxer, WaitEndFlush, SkipPin, UsePin, NewSegment, StartDemux,
        GetRequest, ReadOn
    <3> QED
      BY <3>1, <3>2
  <2>2. Current' = Current
    BY <1>2, <2>1 DEF app, Current, SplitterAt
  <2>3. \/ UNCHANGED <<fReq, fDone>>
        \/ fReq' = [fReq EXCEPT ![t] = "none"] /\ fDone' = [fDone EXCEPT ![t] = TRUE]
    BY Zenon, <1>40 DEF Demuxer, WaitEndFlush, SkipPin, UsePin, NewSegment, StartDemux,
      GetRequest, ReadOn
  <2>4. fReq'[s] = "none" \/ (fReq'[s] = fReq[s] /\ fDone'[s] = fDone[s])
    BY <2>3 DEF Types, ThreadTypes
  <2> QED
    BY <1>1, <2>1, <2>2, <2>4 DEF RequestInv, Positioning, app
<1>41. ASSUME NEW p \in Inputs, PinThread(p) PROVE RequestInv(s)'
  <2>1. UNCHANGED <<app, fReq, fDone, real, lost>>
    BY <1>41, PinFrame DEF demux, ghost
  <2>2. Current' = Current
    BY <1>2, <2>1 DEF app, Current, SplitterAt
  <2> QED
    BY <1>1, <2>1, <2>2 DEF RequestInv, Positioning, app
<1>42. CASE UNCHANGED vars
  <2>1. UNCHANGED <<app, fReq, fDone, real, lost>>
    BY <1>42 DEF vars, demux, ghost
  <2>2. Current' = Current
    BY <1>2, <2>1 DEF app, Current, SplitterAt
  <2> QED
    BY <1>1, <2>1, <2>2 DEF RequestInv, Positioning, app
<1> QED
  BY <1>11, <1>12, <1>13, <1>14, <1>15, <1>16, <1>17, <1>18, <1>19, <1>20, <1>21, <1>22,
    <1>23, <1>24, <1>25, <1>26, <1>27, <1>28, <1>29, <1>30, <1>31, <1>32, <1>33, <1>34,
    <1>35, <1>36, <1>37, <1>38, <1>39, <1>40, <1>41, <1>42 DEF Next, App, Demuxer, PinThread

\* The two together, for every splitter.
LEMMA SInvStep ==
  ASSUME Types, Control, SInv, [Next]_vars
  PROVE  SInv'
  BY SeekInvStep, RequestInvStep DEF SInv, Splitters

------------------------------------------------------------------------------
(* The queues.                                                             *)
\* A seek becomes due for a pin only when BeginFlush empties its queue.
LEMMA SeekComesStep ==
  ASSUME Types, Control, [Next]_vars, NEW p \in Inputs
  PROVE  SeekComes(p)' => SeekComes(p) \/ (BeginFlushPin /\ p = apin)
<1>0. layout' = layout
  BY SameLayout
<1>1. of(p)' = of(p) /\ of(p) \in Splitters /\ \A q : of(q)' = of(q)
  BY <1>0, Constancy, Layout DEF Types
<1>11. CASE Start
  <2>1. fReq' = fReq /\ apc' \notin {"beginPin", "call"}
    BY <1>11 DEF Begin, Start, demux
  <2> QED
    BY <1>1, <2>1 DEF SeekComes
<1>12. CASE StartSplitter
  <2>1. fReq' = fReq /\ apc' \notin {"beginPin", "call"}
    BY <1>12 DEF StartSplitter, demux
  <2> QED
    BY <1>1, <2>1 DEF SeekComes
<1>13. CASE Run
  <2>1. fReq' = fReq /\ apc' \notin {"beginPin", "call"}
    BY <1>13 DEF Idle, Run, demux
  <2> QED
    BY <1>1, <2>1 DEF SeekComes
<1>14. CASE Seek
  <2>1. fReq' = fReq /\ apc' \notin {"beginPin", "call"}
    BY <1>14 DEF Begin, Seek, demux
  <2> QED
    BY <1>1, <2>1 DEF SeekComes
<1>15. ASSUME NEW n \in Inputs, Enable(n)
       PROVE SeekComes(p)' => SeekComes(p) \/ (BeginFlushPin /\ p = apin)
  <2>1. fReq' = fReq /\ apc' \notin {"beginPin", "call"}
    BY <1>15 DEF Begin, Enable, demux
  <2> QED
    BY <1>1, <2>1 DEF SeekComes
<1>16. CASE Deselect
  <2>1. fReq' = fReq /\ apc' \notin {"beginPin", "call"}
    BY <1>16 DEF Deselect, Selecting, demux
  <2> QED
    BY <1>1, <2>1 DEF SeekComes
<1>17. CASE OpenFirst
  <2>1. fReq' = fReq /\ apc' \notin {"beginPin", "call"}
    BY <1>17 DEF OpenFirst, Selecting, demux
  <2> QED
    BY <1>1, <2>1 DEF SeekComes
<1>18. CASE OpenNext
  <2>1. fReq' = fReq /\ apc' \notin {"beginPin", "call"}
    BY <1>18 DEF OpenNext, Selecting, demux
  <2> QED
    BY <1>1, <2>1 DEF SeekComes
<1>19. CASE CloseLast
  <2>1. fReq' = fReq /\ apc' \notin {"beginPin", "call"}
    BY <1>19 DEF CloseLast, Selecting, demux
  <2> QED
    BY <1>1, <2>1 DEF SeekComes
<1>20. CASE FlushOutput
  <2>1. fReq' = fReq /\ apc' \notin {"beginPin", "call"}
    BY <1>20 DEF FlushOutput, Selecting, demux
  <2> QED
    BY <1>1, <2>1 DEF SeekComes
<1>21. CASE EndFlushOutput
  <2>1. fReq' = fReq /\ apc' \notin {"beginPin", "call"}
    BY <1>21 DEF EndFlushOutput, Selecting, demux
  <2> QED
    BY <1>1, <2>1 DEF SeekComes
<1>22. CASE SetInput
  <2>1. fReq' = fReq /\ apc' \notin {"beginPin", "call"}
    BY <1>22 DEF SetInput, demux
  <2> QED
    BY <1>1, <2>1 DEF SeekComes
<1>23. CASE OpenNew
  <2>1. fReq' = fReq /\ apc' \notin {"beginPin", "call"}
    BY <1>23 DEF OpenNew, Selecting, demux
  <2> QED
    BY <1>1, <2>1 DEF SeekComes
<1>24. CASE SkipSeek
  <2>1. fReq' = fReq /\ apc' \notin {"beginPin", "call"}
    BY <1>24 DEF NextSeeker, SkipSeek, demux
  <2> QED
    BY <1>1, <2>1 DEF SeekComes
<1>25. CASE DropSeek
  <2>1. fReq' = fReq /\ apc' \notin {"beginPin", "call"}
    BY <1>25 DEF DropSeek, NextSeeker, demux
  <2> QED
    BY <1>1, <2>1 DEF SeekComes
<1>26. CASE TakeSeek
  <2>1. /\ fReq' = fReq /\ aop' = aop
        /\ NextSeeker \/ (apc' = "beginPin" /\ apin' = FirstPin(Current) /\ ak' = ak)
    BY <1>26 DEF TakeSeek, LoopPins
  <2>2. CASE NextSeeker
    BY <1>1, <2>1, <2>2 DEF NextSeeker, SeekComes
  <2>3. CASE apc' = "beginPin" /\ apin' = FirstPin(Current) /\ ak' = ak
    <3>1. Current' = Current
      BY <1>1, <2>1, <2>3 DEF Current, SplitterAt
    <3>2. CASE Current = of(p)
      <4>1. p \in PinsOf(Current) /\ PinsOf(Current) \in SUBSET Nat
        BY <3>2 DEF PinsOf, Inputs
      <4>2. FirstPin(Current) \in PinsOf(Current) /\ FirstPin(Current) <= p
        BY <4>1, FirstPinIs
      <4>3. ~(p < apin')
        BY <2>3, <4>1, <4>2
      <4> QED
        BY <1>1, <2>1, <2>3, <4>3 DEF SeekComes
    <3> QED
      BY <1>1, <2>1, <3>1, <3>2 DEF SeekComes
  <2> QED
    BY <2>1, <2>2, <2>3
<1>27. CASE ResumeGraph
  <2>1. fReq' = fReq /\ apc' \notin {"beginPin", "call"}
    BY <1>27 DEF Idle, ResumeGraph, demux
  <2> QED
    BY <1>1, <2>1 DEF SeekComes
<1>28. CASE BeginFlushPin
  <2>1. UNCHANGED <<fReq, aop, ak>> /\ apc = "beginPin" /\ AfterPin("beginPin", "call")
    BY <1>28 DEF BeginFlushPin, Flushing
  <2>2. apin \in PinsOf(Current) /\ Current' = Current /\ apin \in Nat
    BY <2>1, <1>1 DEF Control, Current, SplitterAt, PinsOf, Inputs
  <2>3. \/ apc' = "call" /\ \A q \in PinsOf(Current) : q <= apin
        \/ apc' = "beginPin" /\ \A q \in PinsOf(Current) : q < apin' => q <= apin
    BY <2>1, <2>2, AfterPinIs
  <2>4. CASE Current = of(p) /\ Positioning
    <3>1. p \in PinsOf(Current) /\ p \in Nat /\ (apc' = "call" \/ p < apin' => p <= apin)
      BY <2>3, <2>4 DEF PinsOf, Inputs
    <3>2. apc' = "call" \/ p < apin' => p < apin \/ p = apin
      BY <3>1, <2>2
    <3> QED
      BY <1>1, <2>1, <2>2, <2>4, <3>1, <3>2, <1>28 DEF SeekComes, FlushPhases
  <2>5. CASE ~(Current = of(p) /\ Positioning)
    BY <1>1, <2>1, <2>2, <2>5 DEF SeekComes, Positioning
  <2> QED
    BY <2>4, <2>5
<1>29. CASE CallWorker
  <2>1. /\ apc = "call" /\ apc' = "wait"
        /\ fReq' = [fReq EXCEPT ![Current] = IF aop = "stop" THEN "exit" ELSE "seek"]
    BY <1>29 DEF CallWorker, Calling
  <2>2. SeekComes(p)' => fReq'[of(p)] = "seek"
    BY <1>1, <2>1 DEF SeekComes
  <2>3. CASE of(p) # Current
    BY <2>1, <2>2, <2>3 DEF SeekComes, Types, ThreadTypes
  <2>4. CASE of(p) = Current
    <3>1. aop = "stop" => fReq'[of(p)] # "seek"
      BY <1>1, <2>1, <2>4 DEF Types, ThreadTypes
    <3>2. aop # "stop" => Positioning
      BY <2>1 DEF Control, FlushPhases
    <3> QED
      BY <2>1, <2>2, <2>4, <3>1, <3>2 DEF SeekComes, FlushPhases
  <2> QED
    BY <2>3, <2>4
<1>30. CASE CallReturns
  <2>1. fReq' = fReq /\ apc' \notin {"beginPin", "call"}
    BY <1>30 DEF CallReturns, LoopPins, demux
  <2> QED
    BY <1>1, <2>1 DEF SeekComes
<1>31. CASE CallTimesOut
  <2>1. fReq' = fReq /\ apc' \notin {"beginPin", "call"}
    BY <1>31 DEF CallTimesOut, LoopPins, demux
  <2> QED
    BY <1>1, <2>1 DEF SeekComes
<1>32. CASE EndFlushPin
  <2>1. fReq' = fReq /\ apc' \notin {"beginPin", "call"}
    BY <1>32 DEF AfterPin, EndFlushPin, Flushing, demux
  <2> QED
    BY <1>1, <2>1 DEF SeekComes
<1>33. CASE EndFlushFilter
  <2>1. fReq' = fReq /\ apc' \notin {"beginPin", "call"}
    BY <1>33 DEF EndFlushFilter, Flushing, LoopPins, NextSeeker, demux
  <2> QED
    BY <1>1, <2>1 DEF SeekComes
<1>34. CASE Stop
  <2>1. fReq' = fReq /\ apc' \notin {"beginPin", "call"}
    BY <1>34 DEF Begin, Stop, demux
  <2> QED
    BY <1>1, <2>1 DEF SeekComes
<1>35. CASE StopSplitter
  <2>1. fReq' = fReq /\ ~ Positioning'
    BY <1>35 DEF StopSplitter, Control, StopPhases, Positioning
  <2> QED
    BY <1>1, <2>1 DEF SeekComes
<1>36. CASE Stopped
  <2>1. fReq' = fReq /\ apc' \notin {"beginPin", "call"}
    BY <1>36 DEF Idle, Stopped, demux
  <2> QED
    BY <1>1, <2>1 DEF SeekComes
<1>37. CASE Inactive
  <2>1. fReq' = fReq /\ apc' \notin {"beginPin", "call"}
    BY <1>37 DEF Calling, Inactive, demux
  <2> QED
    BY <1>1, <2>1 DEF SeekComes
<1>38. CASE InactiveReturns
  <2>1. fReq' = fReq /\ apc' \notin {"beginPin", "call"}
    BY <1>38 DEF AfterPin, InactiveReturns, NextInactive, demux
  <2> QED
    BY <1>1, <2>1 DEF SeekComes
<1>39. CASE InactiveTimesOut
  <2>1. fReq' = fReq /\ apc' \notin {"beginPin", "call"}
    BY <1>39 DEF AfterPin, InactiveTimesOut, NextInactive, demux
  <2> QED
    BY <1>1, <2>1 DEF SeekComes
<1>40. ASSUME NEW s \in Splitters, Demuxer(s) \/ ReadOn(s)
       PROVE SeekComes(p)' => SeekComes(p) \/ (BeginFlushPin /\ p = apin)
  <2>1. UNCHANGED app /\ \A t \in Splitters : fReq'[t] = "seek" => fReq[t] = "seek"
    <3>1. UNCHANGED app
      BY <1>40, DemuxFrame
    <3>2. fReq' = fReq \/ fReq' = [fReq EXCEPT ![s] = "none"]
      BY Zenon, <1>40 DEF Demuxer, WaitEndFlush, SkipPin, UsePin, NewSegment, StartDemux,
        GetRequest, ReadOn
    <3> QED
      BY <3>1, <3>2 DEF Types, ThreadTypes
  <2> QED
    BY <1>1, <2>1 DEF SeekComes, Positioning, Current, SplitterAt, app
<1>41. ASSUME NEW q \in Inputs, PinThread(q)
       PROVE SeekComes(p)' => SeekComes(p) \/ (BeginFlushPin /\ p = apin)
  <2>1. UNCHANGED <<app, fReq>>
    BY <1>41, PinFrame DEF demux
  <2> QED
    BY <1>1, <2>1 DEF SeekComes, Positioning, Current, SplitterAt, app
<1>42. CASE UNCHANGED vars
  <2>1. UNCHANGED <<app, fReq>>
    BY <1>42 DEF vars, demux
  <2> QED
    BY <1>1, <2>1 DEF SeekComes, Positioning, Current, SplitterAt, app
<1> QED
  BY <1>11, <1>12, <1>13, <1>14, <1>15, <1>16, <1>17, <1>18, <1>19, <1>20, <1>21, <1>22,
    <1>23, <1>24, <1>25, <1>26, <1>27, <1>28, <1>29, <1>30, <1>31, <1>32, <1>33, <1>34,
    <1>35, <1>36, <1>37, <1>38, <1>39, <1>40, <1>41, <1>42 DEF Next, App, Demuxer, PinThread

\* Only Pause and DeliverBeginFlush touch the queues and the pins' threads from
\* the application's thread.
LEMMA CursorKept ==
  ASSUME App, ~ StartSplitter, ~ BeginFlushPin
  PROVE  UNCHANGED <<cursor, behind, ppc, fresh>>
<1> USE DEF demux, preq, pflags, plocal
<1>1. CASE Start
  BY <1>1 DEF Start, Begin
<1>2. CASE Run
  BY <1>2 DEF Run
<1>3. CASE Seek
  BY <1>3 DEF Seek, Begin, PauseGraph
<1>4. ASSUME NEW n \in Inputs, Enable(n) PROVE UNCHANGED <<cursor, behind, ppc, fresh>>
  BY <1>4 DEF Enable, Begin, PauseGraph
<1>5. CASE Deselect
  BY <1>5 DEF Deselect, Selecting
<1>6. CASE OpenFirst
  BY <1>6 DEF OpenFirst, Selecting
<1>7. CASE OpenNext
  BY <1>7 DEF OpenNext, Selecting
<1>8. CASE CloseLast
  BY <1>8 DEF CloseLast, Selecting
<1>9. CASE FlushOutput
  BY <1>9 DEF FlushOutput, Selecting
<1>10. CASE EndFlushOutput
  BY <1>10 DEF EndFlushOutput, Selecting
<1>11. CASE SetInput
  BY <1>11 DEF SetInput
<1>12. CASE OpenNew
  BY <1>12 DEF OpenNew, Selecting
<1>13. CASE SkipSeek
  BY <1>13 DEF SkipSeek
<1>14. CASE DropSeek
  BY <1>14 DEF DropSeek
<1>15. CASE TakeSeek
  BY <1>15 DEF TakeSeek
<1>16. CASE ResumeGraph
  BY <1>16 DEF ResumeGraph
<1>17. CASE CallWorker
  BY <1>17 DEF CallWorker, Calling
<1>18. CASE CallReturns
  BY <1>18 DEF CallReturns
<1>19. CASE CallTimesOut
  BY <1>19 DEF CallTimesOut
<1>20. CASE EndFlushPin
  BY <1>20 DEF EndFlushPin, Flushing
<1>21. CASE EndFlushFilter
  BY <1>21 DEF EndFlushFilter, Flushing
<1>22. CASE Stop
  BY <1>22 DEF Stop, Begin
<1>23. CASE StopSplitter
  BY <1>23 DEF StopSplitter
<1>24. CASE Stopped
  BY <1>24 DEF Stopped
<1>25. CASE Inactive
  BY <1>25 DEF Inactive, Calling
<1>26. CASE InactiveReturns
  BY <1>26 DEF InactiveReturns
<1>27. CASE InactiveTimesOut
  BY <1>27 DEF InactiveTimesOut
<1> QED
  BY <1>1, <1>2, <1>3, <1>4, <1>5, <1>6, <1>7, <1>8, <1>9, <1>10, <1>11, <1>12, <1>13,
    <1>14, <1>15, <1>16, <1>17, <1>18, <1>19, <1>20, <1>21, <1>22, <1>23, <1>24, <1>25,
    <1>26, <1>27 DEF App

\* The demuxing thread that takes CMD_SEEK makes the seek that was due, and is not
\* being flushed for another.
LEMMA RequestMet ==
  ASSUME Types, Control, SInv, [Next]_vars, NEW s \in Splitters, GetRequest(s),
         NEW p \in Inputs, of(p) = s, fReq[s] = "seek"
  PROVE  SeekComes(p) /\ ~ SeekComes(p)'
<1>1. UNCHANGED <<app, layout>> /\ fReq' = [fReq EXCEPT ![s] = "none"]
  BY DEF GetRequest, Demuxing
<1>2. fReq'[of(p)] = "none" /\ \A q : of(q)' = of(q)
  BY <1>1, Constancy DEF Types, ThreadTypes
<1>3. apc \in {"beginPin", "call"} => Current # of(p)
  BY DEF SInv, RequestInv
<1>4. ~ SeekComes(p)'
  BY <1>1, <1>2, <1>3 DEF SeekComes, Current, SplitterAt, app
<1> QED
  BY <1>4 DEF SeekComes

\* Every step keeps the queue of a pin empty while a seek is due.
LEMMA CursorInvStep ==
  ASSUME Types, Control, SInv, [Next]_vars, NEW p \in Inputs, CursorInv(p)
  PROVE  CursorInv(p)'
<1>1. /\ cursor \in [Inputs -> Nat] /\ fReq \in [Splitters -> {"none", "seek", "exit"}]
      /\ PacketsPerPin \in Nat /\ of(p) \in Splitters /\ of(p)' = of(p) /\ Eos' = Eos
  BY SameLayout, Constancy, Layout DEF Types, ThreadTypes, Eos
<1>2. SeekComes(p)' => SeekComes(p) \/ (BeginFlushPin /\ p = apin)
  BY SeekComesStep
<1>3. CASE StartSplitter
  <2>1. fReq' = fReq /\ apc' \notin {"beginPin", "call"} /\ apc = "startSplitter"
    BY <1>3 DEF StartSplitter
  <2>2. fReq[of(p)] # "seek"
    BY <1>1, <2>1 DEF SInv, RequestInv, SeekPhases, FlushPhases
  <2>3. ~ SeekComes(p)'
    BY <1>1, <2>1, <2>2 DEF SeekComes
  <2> QED
    BY <2>3 DEF CursorInv
<1>4. CASE BeginFlushPin
  <2>1. cursor' = [cursor EXCEPT ![apin] = Eos + 1]
    BY <1>4 DEF BeginFlushPin
  <2>2. cursor'[p] = IF p = apin THEN Eos + 1 ELSE cursor[p]
    BY <1>1, <2>1
  <2>3. Eos \in Nat
    BY <1>1 DEF Eos
  <2> QED
    BY <1>1, <1>2, <2>2, <2>3 DEF CursorInv
<1>5. CASE App /\ ~ StartSplitter /\ ~ BeginFlushPin
  BY <1>1, <1>2, <1>5, CursorKept DEF CursorInv
<1>6. ASSUME NEW s \in Splitters, ~ BeginFlushPin, Demuxer(s) \/ ReadOn(s)
      PROVE CursorInv(p)'
  <2>1. CASE GetRequest(s)
    <3>1. CASE of(p) = s /\ fReq[s] = "seek"
      BY <2>1, <3>1, RequestMet DEF CursorInv
    <3>2. CASE fReq[s] = "exit"
      <4>1. cursor' = cursor
        BY <2>1, <3>2 DEF GetRequest
      <4> QED
        BY <1>1, <1>2, <1>6, <4>1 DEF CursorInv
    <3>3. CASE of(p) # s
      <4>1. cursor'[p] = cursor[p]
        BY <1>1, <2>1, <3>3 DEF GetRequest
      <4> QED
        BY <1>1, <1>2, <1>6, <4>1 DEF CursorInv
    <3>4. fReq[s] \in {"seek", "exit"}
      BY <1>1, <2>1 DEF GetRequest
    <3> QED
      BY <3>1, <3>2, <3>3, <3>4
  <2>2. CASE ~ GetRequest(s)
    <3>1. cursor' = cursor
      BY Zenon, <1>6, <2>2 DEF Demuxer, WaitEndFlush, SkipPin, UsePin, NewSegment,
        StartDemux, ReadOn
    <3> QED
      BY <1>1, <1>2, <1>6, <3>1 DEF CursorInv
  <2> QED
    BY <2>1, <2>2
<1>7. ASSUME NEW q \in Inputs, ~ BeginFlushPin, PinThread(q) PROVE CursorInv(p)'
  <2>1. CASE Take(q)
    <3>1. cursor' = [cursor EXCEPT ![q] = @ + 1]
      BY <2>1 DEF Take
    <3>2. cursor'[p] \in {cursor[p], cursor[p] + 1} /\ cursor[p] \in Nat /\ Eos \in Nat
      BY <1>1, <3>1 DEF Eos
    <3> QED
      BY <1>1, <1>2, <1>7, <3>2 DEF CursorInv
  <2>2. CASE ~ Take(q)
    <3>1. cursor' = cursor
      BY Zenon, <1>7, <2>2 DEF PinThread, Step, Return, plocal, AwaitEndFlush, Exit,
        TakeLate, TestResult, PassGate, EnterActive, RefuseInactive, NotStreaming, KeepBuffers, GrowBuffers,
        EndGrowBuffers, SendSample, EnterEnd, InactiveEnd, SendEnd
    <3> QED
      BY <1>1, <1>2, <1>7, <3>1 DEF CursorInv
  <2> QED
    BY <2>1, <2>2
<1>8. CASE ~ BeginFlushPin /\ UNCHANGED vars
  <2>1. cursor' = cursor
    BY <1>8 DEF vars, plocal
  <2> QED
    BY <1>1, <1>2, <1>8, <2>1 DEF CursorInv
<1> QED
  BY <1>3, <1>4, <1>5, <1>6, <1>7, <1>8 DEF Next

\* A step that leaves what the renderer has and m_pInput alone, and does not lead
\* out of the window, nor past SelectInput's flush.
Steady ==
    /\ UNCHANGED <<mInput, from, strays>>
    /\ ~ InWindow' => ~ InWindow
    /\ apc' \in {"endFlush", "setInput"} => apc \in {"endFlush", "setInput"}

------------------------------------------------------------------------------
(* The samples.                                                            *)
\* The other operations are steady.
LEMMA AppSteady ==
  ASSUME App, ~ StartSplitter, ~ BeginFlushPin, ~ Deselect, ~ SetInput, ~ FlushOutput, ~ Stop
  PROVE  Steady
<1> USE DEF Steady, InWindow, switch, render
<1>1. CASE Start
  BY <1>1 DEF Begin, Start
<1>2. CASE Run
  BY <1>2 DEF Idle, Run
<1>3. CASE Seek
  BY <1>3 DEF Begin, PauseGraph, Seek
<1>4. ASSUME NEW n \in Inputs, Enable(n) PROVE Steady
  BY <1>4 DEF Begin, Enable, PauseGraph
<1>5. CASE OpenFirst
  BY <1>5 DEF OpenFirst, Selecting
<1>6. CASE OpenNext
  BY <1>6 DEF OpenNext, Selecting
<1>7. CASE CloseLast
  BY <1>7 DEF CloseLast, Selecting
<1>8. CASE EndFlushOutput
  BY <1>8 DEF DeliverEndFlush, EndFlushOutput, Selecting
<1>9. CASE OpenNew
  BY <1>9 DEF OpenNew, Selecting
<1>10. CASE SkipSeek
  BY <1>10 DEF NextSeeker, SkipSeek
<1>11. CASE DropSeek
  BY <1>11 DEF DropSeek, NextSeeker
<1>12. CASE TakeSeek
  BY <1>12 DEF LoopPins, NextSeeker, TakeSeek
<1>13. CASE ResumeGraph
  BY <1>13 DEF Idle, ResumeGraph
<1>14. CASE CallWorker
  BY <1>14 DEF CallWorker, Calling
<1>15. CASE CallReturns
  BY <1>15 DEF CallReturns, LoopPins
<1>16. CASE CallTimesOut
  BY <1>16 DEF CallTimesOut, LoopPins
<1>17. CASE EndFlushPin
  BY <1>17 DEF AfterPin, DeliverEndFlush, EndFlush, EndFlushPin, Flushing
<1>18. CASE EndFlushFilter
  BY <1>18 DEF EndFlushFilter, Flushing, LoopPins, NextSeeker
<1>19. CASE StopSplitter
  BY <1>19 DEF LoopPins, StopSplitter
<1>20. CASE Stopped
  BY <1>20 DEF Idle, Stopped
<1>21. CASE Inactive
  BY <1>21 DEF Calling, Inactive
<1>22. CASE InactiveReturns
  BY <1>22 DEF AfterPin, InactiveReturns, NextInactive
<1>23. CASE InactiveTimesOut
  BY <1>23 DEF AfterPin, InactiveTimesOut, NextInactive
<1> QED
  BY <1>1, <1>2, <1>3, <1>4, <1>5, <1>6, <1>7, <1>8, <1>9, <1>10, <1>11, <1>12, <1>13,
    <1>14, <1>15, <1>16, <1>17, <1>18, <1>19, <1>20, <1>21, <1>22, <1>23 DEF App

\* Each of the two packets counts once.
LEMMA Counts ==
  ASSUME NEW p
  PROVE  /\ Held(p) \in {0, 1} /\ Queued(p) \in {0, 1}
         /\ Held(p)' \in {0, 1} /\ Queued(p)' \in {0, 1}
  BY DEF Held, Queued

\* A steady step that lets no other Receive in and brings no new packet of an older
\* round keeps the samples of p accounted for.
LEMMA SampleKept ==
  ASSUME NEW p \in Inputs, SampleInv(p), Steady, strays[p] \in Nat,
         Receiving(p)' => Receiving(p) \/ IsActive(p),
         Held(p)' + Queued(p)' <= Held(p) + Queued(p)
  PROVE  SampleInv(p)'
<1>1. IsActive(p)' = IsActive(p) /\ strays'[p] = strays[p] /\ from' = from
  BY DEF Steady, IsActive
<1>2. /\ Held(p) \in {0, 1} /\ Queued(p) \in {0, 1}
      /\ Held(p)' \in {0, 1} /\ Queued(p)' \in {0, 1}
  BY Counts
<1>3. ASSUME ~ InWindow, strays[p] + Held(p) + Queued(p) <= 2
      PROVE  strays'[p] + Held(p)' + Queued(p)' <= 2
  BY <1>1, <1>2, <1>3
<1> QED
  BY <1>1, <1>3 DEF SampleInv, Steady

\* A pin whose thread and queue are left alone: what the thread holds is of an older
\* round only if it was, or if a seek has become due.
LEMMA HeldKept ==
  ASSUME NEW p \in Inputs, SeekComes(p)' => SeekComes(p),
         ppc'[p] = ppc[p], fresh'[p] = fresh[p], behind'[p] = behind[p]
  PROVE  /\ Held(p)' + Queued(p)' <= Held(p) + Queued(p)
         /\ Receiving(p)' = Receiving(p)
<1>1. Queued(p)' = Queued(p) /\ Receiving(p)' = Receiving(p)
  BY DEF Queued, Receiving
<1>2. Held(p)' = 1 => Held(p) = 1
  BY DEF Held
<1> QED
  BY <1>1, <1>2, Counts

\* A flush of the renderer accounts for all of them.
LEMMA SampleReset ==
  ASSUME NEW p \in Inputs, SinkForgets
  PROVE  SampleInv(p)'
<1>1. strays'[p] = 0 /\ from' = {}
  BY DEF SinkForgets
<1>2. Held(p)' \in {0, 1} /\ Queued(p)' \in {0, 1}
  BY Counts
<1> QED
  BY <1>1, <1>2 DEF SampleInv

\* A step of a pin's thread keeps them accounted for: a sample it sends is refused
\* by the test of m_pInput, is of the current round, or is one of the two strays.
LEMMA PinSample ==
  ASSUME Types, NEW p \in Inputs, NEW q \in Inputs, PinThread(q), CursorInv(p), SampleInv(p),
         SeekComes(p)' => SeekComes(p)
  PROVE  SampleInv(p)'
<1>1. /\ ppc \in [Inputs -> PinPlaces]
      /\ fresh \in [Inputs -> BOOLEAN]
      /\ strays \in [Inputs -> Nat] /\ behind \in [Inputs -> Nat]
      /\ cursor \in [Inputs -> Nat] /\ p # NoInput /\ Eos \in Nat
  BY Layout DEF Types, ThreadTypes, SwitchTypes, NoInput, Inputs, Eos
<1>2. /\ Held(p) \in {0, 1} /\ Queued(p) \in {0, 1}
      /\ Held(p)' \in {0, 1} /\ Queued(p)' \in {0, 1}
  BY Counts
<1>3. mInput' = mInput /\ apc' = apc /\ InWindow' = InWindow
  BY PinFrame DEF app, InWindow
<1>4. UNCHANGED <<from, strays>> => Steady
  BY <1>3 DEF Steady
<1>5. CASE p # q
  <2>1. ppc'[p] = ppc[p] /\ fresh'[p] = fresh[p] /\ behind'[p] = behind[p]
    <3>1. \E then \in PinPlaces : ppc' = [ppc EXCEPT ![q] = then]
      BY DEF PinThread, AwaitEndFlush, Exit, Remove, TakeLate, Take, TestResult, PassGate,
        EnterActive, RefuseInactive, NotStreaming, KeepBuffers, GrowBuffers, EndGrowBuffers,
        SendSample, EnterEnd, InactiveEnd, SendEnd, Step, Return, PinPlaces, AheadPlaces,
        ReceivePlaces
    <3>2. /\ fresh' = fresh \/ \E b \in BOOLEAN : fresh' = [fresh EXCEPT ![q] = b]
          /\ behind' = behind \/ behind' = [behind EXCEPT ![q] = 0]
      BY DEF PinThread, AwaitEndFlush, Exit, Remove, TakeLate, Take, TestResult, PassGate,
        EnterActive, RefuseInactive, NotStreaming, KeepBuffers, GrowBuffers, EndGrowBuffers,
        SendSample, EnterEnd, InactiveEnd, SendEnd, Step, Return, plocal
    <3> QED
      BY <1>1, <1>5, <3>1, <3>2
  <2>2. \/ UNCHANGED <<from, strays>> \/ SinkForgets
        \/ /\ from' \subseteq from \cup {q}
           /\ \E n : strays' = [strays EXCEPT ![q] = n]
    BY DEF PinThread, AwaitEndFlush, Exit, Remove, TakeLate, Take, TestResult, PassGate,
      EnterActive, RefuseInactive, NotStreaming, KeepBuffers, GrowBuffers, EndGrowBuffers,
      SendSample, EnterEnd, InactiveEnd, SendEnd, Step, Return, DeliverBeginFlush,
      DeliverEndFlush, sinks
  <2>3. CASE SinkForgets
    BY <2>3, SampleReset
  <2>4. CASE ~ SinkForgets
    <3>1. strays'[p] = strays[p] /\ (p \in from' => p \in from)
      BY <1>1, <1>5, <2>2, <2>4
    <3>2. /\ IsActive(p)' = IsActive(p) /\ Receiving(p)' = Receiving(p)
          /\ Held(p)' + Queued(p)' <= Held(p) + Queued(p)
      BY <1>3, <2>1, HeldKept DEF IsActive
    <3>3. strays[p] + Held(p) + Queued(p) <= 2 => strays'[p] + Held(p)' + Queued(p)' <= 2
      BY <1>1, <1>2, <3>1, <3>2
    <3> QED
      BY <1>3, <3>1, <3>2, <3>3 DEF SampleInv
  <2> QED
    BY <2>3, <2>4
\* Its own thread: it ends a call, goes on with one, or gives the renderer something.
<1>6. ASSUME UNCHANGED <<from, strays, behind>>,
             \E then \in {"top", "none", "endWait"} : ppc' = [ppc EXCEPT ![p] = then]
      PROVE  SampleInv(p)'
  <2>1. ppc'[p] \in {"top", "none", "endWait"}
    BY <1>1, <1>6
  <2>2. ~ Receiving(p)' /\ Held(p)' = 0 /\ Queued(p)' = Queued(p)
    BY <1>6, <2>1 DEF Receiving, Held, Queued, AheadPlaces, ReceivePlaces
  <2>3. Held(p)' + Queued(p)' <= Held(p) + Queued(p)
    BY <1>2, <2>2
  <2> QED
    BY <1>1, <1>4, <1>6, <2>2, <2>3, SampleKept
<1>7. ASSUME UNCHANGED <<from, strays, behind, fresh>>, ppc[p] \in AheadPlaces,
             NEW then \in AheadPlaces, ppc' = [ppc EXCEPT ![p] = then],
             then \in ReceivePlaces => Receiving(p) \/ IsActive(p)
      PROVE  SampleInv(p)'
  <2>1. ppc'[p] = then
    BY <1>1, <1>7
  <2>2. Held(p)' = 1 => Held(p) = 1
    BY <1>7 DEF Held
  <2>3. Held(p)' + Queued(p)' <= Held(p) + Queued(p)
    BY <1>2, <1>7, <2>2 DEF Queued
  <2>4. Receiving(p)' => Receiving(p) \/ IsActive(p)
    BY <1>7, <2>1 DEF Receiving, ReceivePlaces
  <2> QED
    BY <1>1, <1>4, <1>7, <2>3, <2>4, SampleKept
<1>8. ASSUME Receiving(p), behind' = behind,
             \E then \in {"top", "none", "endWait"} : ppc' = [ppc EXCEPT ![p] = then],
             from' \subseteq from \cup {p},
             strays' = [strays EXCEPT ![p] = IF Stray(p) THEN @ + 1 ELSE @]
      PROVE  SampleInv(p)'
  <2>1. ppc'[p] \in {"top", "none", "endWait"}
    BY <1>1, <1>8
  <2>2. strays'[p] = IF Stray(p) THEN strays[p] + 1 ELSE strays[p]
    BY <1>1, <1>8
  <2>3. /\ ~ Receiving(p)' /\ Held(p)' = 0 /\ Queued(p)' = Queued(p)
        /\ IsActive(p)' = IsActive(p)
    BY <1>3, <1>8, <2>1 DEF Receiving, Held, Queued, AheadPlaces, ReceivePlaces, IsActive
  <2>4. CASE InWindow
    BY <1>3, <2>4 DEF SampleInv
  <2>5. CASE ~ InWindow /\ ~ IsActive(p)
    <3>1. strays[p] = 0
      BY <1>1, <1>8, <2>5 DEF SampleInv
    <3>2. strays'[p] = 1
      BY <2>2, <2>5, <3>1 DEF Stray
    <3> QED
      BY <1>2, <2>3, <2>5, <3>2 DEF SampleInv
  <2>6. CASE ~ InWindow /\ IsActive(p)
    <3>1. Stray(p) => Held(p) = 1
      BY <1>8, <2>6 DEF Stray, Held, Receiving, AheadPlaces, ReceivePlaces
    <3>2. strays[p] + Held(p) + Queued(p) <= 2
      BY <2>6 DEF SampleInv
    <3>3. strays'[p] + Held(p)' + Queued(p)' <= 2 /\ strays'[p] <= 2
      BY <1>1, <1>2, <2>2, <2>3, <3>1, <3>2
    <3> QED
      BY <2>3, <2>6, <3>3 DEF SampleInv
  <2> QED
    BY <2>4, <2>5, <2>6
<1>9. CASE p = q
  <2> USE DEF sinks, plocal
  <2>1. CASE AwaitEndFlush(p)
    BY <1>6, <2>1 DEF AwaitEndFlush, Return
  <2>2. CASE Exit(p)
    BY <1>6, <2>2 DEF Exit
  <2>3. CASE TakeLate(p)
    <3>1. UNCHANGED <<from, strays>> /\ ppc[p] = "top" /\ behind[p] # 0 /\ behind'[p] = 0
      BY <1>1, <2>3 DEF TakeLate, Remove
    <3>2. ppc'[p] \in {"test", "eosTest"}
      BY <1>1, <2>3 DEF TakeLate, Remove
    <3>3. Held(p) = 0 /\ Queued(p) = 1 /\ Queued(p)' = 0 /\ ~ Receiving(p)'
      BY <3>1, <3>2 DEF Held, Queued, Receiving, AheadPlaces, ReceivePlaces
    <3>4. Held(p)' + Queued(p)' <= Held(p) + Queued(p)
      BY <1>2, <3>3
    <3> QED
      BY <1>1, <1>4, <3>1, <3>3, <3>4, SampleKept
  <2>4. CASE Take(p)
    <3>1. /\ UNCHANGED <<from, strays, behind>>
          /\ cursor[p] <= Eos
          /\ fresh' = [fresh EXCEPT ![p] = TRUE]
      BY <2>4 DEF Take, Remove
    <3>2. ppc'[p] \in {"test", "eosTest"}
      BY <1>1, <2>4 DEF Take, Remove
    <3>3. fresh'[p] /\ ~ SeekComes(p)'
      BY <1>1, <3>1 DEF CursorInv
    <3>4. Held(p)' = 0 /\ Queued(p)' = Queued(p) /\ ~ Receiving(p)'
      BY <3>1, <3>2, <3>3 DEF Held, Queued, Receiving
    <3>5. Held(p)' + Queued(p)' <= Held(p) + Queued(p)
      BY <1>2, <3>4
    <3> QED
      BY <1>1, <1>4, <3>1, <3>4, <3>5, SampleKept
  <2>5. CASE TestResult(p)
    <3>1. UNCHANGED <<from, strays, behind>> /\ ppc[p] \in AheadPlaces
      BY <2>5 DEF TestResult, AheadPlaces
    <3>2. CASE hrDeliver[p]
      <4>1. /\ fresh' = fresh
            /\ \E then \in {"eos", "gate", "active"} : ppc' = [ppc EXCEPT ![p] = then]
        BY <2>5, <3>2 DEF TestResult
      <4> QED
        BY <1>7, <3>1, <4>1 DEF AheadPlaces, ReceivePlaces
    <3>3. CASE ~ hrDeliver[p]
      BY <1>6, <2>5, <3>1, <3>3 DEF TestResult
    <3> QED
      BY <3>2, <3>3
  <2>6. CASE PassGate(p)
    BY <1>7, <2>6 DEF PassGate, Step, AheadPlaces, ReceivePlaces
  <2>7. CASE EnterActive(p)
    BY <1>7, <2>7 DEF EnterActive, Step, AheadPlaces, ReceivePlaces
  <2>8. CASE RefuseInactive(p)
    BY <1>6, <2>8 DEF RefuseInactive, Return
  <2>9. CASE NotStreaming(p)
    BY <1>6, <2>9 DEF NotStreaming, Return
  <2>10. CASE KeepBuffers(p)
    BY <1>7, <2>10 DEF KeepBuffers, Step, Receiving, AheadPlaces, ReceivePlaces
  <2>11. CASE GrowBuffers(p)
    BY <2>11, SampleReset DEF GrowBuffers, DeliverBeginFlush
  <2>12. CASE EndGrowBuffers(p)
    BY <1>7, <2>12 DEF EndGrowBuffers, DeliverEndFlush, Step, Receiving, AheadPlaces,
      ReceivePlaces
  <2>13. CASE SendSample(p)
    <3>1. /\ Receiving(p) /\ behind' = behind
          /\ \E then \in {"top", "none", "endWait"} : ppc' = [ppc EXCEPT ![p] = then]
      BY <2>13 DEF SendSample, Return, Receiving
    <3>2. \/ UNCHANGED <<from, strays>>
          \/ /\ from' \subseteq from \cup {p}
             /\ strays' = [strays EXCEPT ![p] = IF Stray(p) THEN @ + 1 ELSE @]
      BY <2>13 DEF SendSample
    <3> QED
      BY <1>6, <1>8, <3>1, <3>2
  <2>14. CASE EnterEnd(p)
    BY <1>7, <2>14 DEF EnterEnd, Step, AheadPlaces, ReceivePlaces
  <2>15. CASE InactiveEnd(p)
    BY <1>6, <2>15 DEF InactiveEnd, Return
  <2>16. CASE SendEnd(p)
    <3>1. /\ Receiving(p) /\ behind' = behind
          /\ \E then \in {"top", "none", "endWait"} : ppc' = [ppc EXCEPT ![p] = then]
      BY <2>16 DEF SendEnd, Return, Receiving
    <3>2. \/ UNCHANGED <<from, strays>>
          \/ /\ from' \subseteq from \cup {p}
             /\ strays' = [strays EXCEPT ![p] = IF Stray(p) THEN @ + 1 ELSE @]
      BY <2>16 DEF SendEnd
    <3> QED
      BY <1>6, <1>8, <3>1, <3>2
  <2> QED
    BY <1>9, <2>1, <2>2, <2>3, <2>4, <2>5, <2>6, <2>7, <2>8, <2>9, <2>10, <2>11, <2>12,
      <2>13, <2>14, <2>15, <2>16 DEF PinThread
<1> QED
  BY <1>5, <1>9

\* Every step keeps the samples accounted for.
LEMMA SampleStep ==
  ASSUME Types, Control, SInv, [Next]_vars, NEW p \in Inputs, CursorInv(p), SampleInv(p)
  PROVE  SampleInv(p)'
<1>0. SeekComes(p)' => SeekComes(p) \/ (BeginFlushPin /\ p = apin)
  BY SeekComesStep
<1>1. /\ ppc \in [Inputs -> PinPlaces]
      /\ fresh \in [Inputs -> BOOLEAN]
      /\ strays \in [Inputs -> Nat] /\ behind \in [Inputs -> Nat]
      /\ cursor \in [Inputs -> Nat] /\ p # NoInput /\ Eos \in Nat
  BY Layout DEF Types, ThreadTypes, SwitchTypes, NoInput, Inputs, Eos
<1>2. CASE StartSplitter
  <2>1. ppc'[p] = ppc[p] \/ ppc'[p] = "top"
    BY <1>1, <1>2 DEF StartSplitter
  <2>2. /\ UNCHANGED <<fresh, behind, mInput, from, strays>>
        /\ apc = "startSplitter"
        /\ apc' \in {"startSplitter", "run"}
    BY <1>2 DEF StartSplitter, render, switch
  <2>3. SeekComes(p)' => SeekComes(p)
    BY <1>0, <2>2 DEF BeginFlushPin, Flushing
  <2>4. Steady
    BY <2>2 DEF Steady, InWindow
  <2>5. CASE ppc'[p] = "top"
    <3>1. ~ Receiving(p)' /\ Held(p)' = 0 /\ Queued(p)' = Queued(p)
      BY <2>2, <2>5 DEF Receiving, Held, Queued, AheadPlaces, ReceivePlaces
    <3>2. Held(p)' + Queued(p)' <= Held(p) + Queued(p)
      BY <3>1, Counts
    <3> QED
      BY <1>1, <2>4, <3>1, <3>2, SampleKept
  <2>6. CASE ppc'[p] = ppc[p]
    BY <1>1, <2>2, <2>3, <2>4, <2>6, HeldKept, SampleKept
  <2> QED
    BY <2>1, <2>5, <2>6
<1>3. CASE BeginFlushPin
  <2>1. /\ UNCHANGED <<ppc, fresh, mInput>>
        /\ apc = "beginPin"
        /\ apc' \in {"beginPin", "call"}
        /\ \E n : behind' = [behind EXCEPT ![apin] = n]
    BY <1>3 DEF BeginFlushPin, Flushing, AfterPin, preq
  <2>2. CASE IsActive(apin)
    BY <1>3, <2>2, SampleReset DEF BeginFlushPin, BeginFlush, DeliverBeginFlush
  <2>3. CASE ~ IsActive(apin)
    <3>1. UNCHANGED <<from, strays>>
      BY <1>3, <2>3 DEF BeginFlushPin, BeginFlush, render
    <3>2. Steady
      BY <2>1, <3>1 DEF Steady, InWindow
    <3>3. CASE p # apin
      <4>1. behind'[p] = behind[p]
        BY <1>1, <2>1, <3>3
      <4> QED
        BY <1>0, <1>1, <2>1, <3>2, <3>3, <4>1, HeldKept, SampleKept
    <3>4. CASE p = apin
      <4>1. ~ IsActive(p)' /\ ~ IsActive(p) /\ Receiving(p)' = Receiving(p)
        BY <2>1, <2>3, <3>4 DEF IsActive, Receiving
      <4> QED
        BY <2>1, <3>2, <4>1 DEF SampleInv, Steady
    <3> QED
      BY <3>3, <3>4
  <2> QED
    BY <2>2, <2>3
<1>4. CASE Deselect
  BY <1>4 DEF Deselect, Selecting, SampleInv, InWindow
<1>5. CASE SetInput
  <2>1. /\ apc = "setInput" /\ apc' = "openNew"
        /\ UNCHANGED <<ppc, fresh, behind, from, strays>>
    BY <1>5 DEF SetInput, preq, plocal, render
  <2>2. mInput = NoInput
    BY <2>1 DEF Control
  <2>3. ~ IsActive(p)
    BY <1>1, <2>2 DEF IsActive
  <2>4. SeekComes(p)' => SeekComes(p)
    BY <1>0, <2>1 DEF BeginFlushPin, Flushing
  <2>5. /\ Held(p)' + Queued(p)' <= Held(p) + Queued(p)
        /\ Receiving(p)' = Receiving(p)
    BY <2>1, <2>4, HeldKept
  <2>6. strays[p] <= 1 /\ strays[p] + Held(p) + Queued(p) <= 2
    BY <2>1, <2>3 DEF SampleInv, InWindow
  <2>7. strays'[p] <= 1 /\ strays'[p] <= 2 /\ strays'[p] + Held(p)' + Queued(p)' <= 2
    BY <1>1, <2>1, <2>5, <2>6, Counts
  <2> QED
    BY <2>1, <2>3, <2>5, <2>7 DEF SampleInv, InWindow
<1>6. CASE FlushOutput
  BY <1>6, SampleReset DEF FlushOutput, DeliverBeginFlush
<1>7. CASE Stop
  BY <1>7, SampleReset DEF Stop
<1>8. ASSUME App, ~ StartSplitter, ~ BeginFlushPin, ~ Deselect, ~ SetInput, ~ FlushOutput,
             ~ Stop
      PROVE SampleInv(p)'
  <2>1. UNCHANGED <<ppc, fresh, behind>>
    BY <1>8, CursorKept
  <2> QED
    BY <1>0, <1>1, <1>8, <2>1, AppSteady, HeldKept, SampleKept
<1>9. ASSUME NEW s \in Splitters, ~ BeginFlushPin, Demuxer(s) \/ ReadOn(s)
      PROVE SampleInv(p)'
  <2>1. Steady
    BY <1>9, DemuxFrame DEF Steady, InWindow, app, switch, render
  <2>2. UNCHANGED <<ppc, behind>>
    BY Zenon, <1>9 DEF Demuxer, Demuxing, preq, WaitEndFlush, SkipPin, UsePin, NewSegment,
      StartDemux, GetRequest, ReadOn
  <2>3. CASE fresh'[p] = fresh[p]
    BY <1>0, <1>1, <1>9, <2>1, <2>2, <2>3, HeldKept, SampleKept
  <2>4. CASE fresh'[p] # fresh[p]
    <3>1. GetRequest(s)
      BY Zenon, <1>9, <2>4 DEF Demuxer, WaitEndFlush, SkipPin, UsePin, NewSegment,
        StartDemux, ReadOn
    <3>2. of(p) = s /\ fReq[s] = "seek"
      <4>1. /\ fReq[s] # "exit"
            /\ fReq[s] # "none"
            /\ fresh' = [q \in Inputs |-> of(q) # s /\ fresh[q]]
        BY <2>4, <3>1 DEF GetRequest
      <4>2. of(p) = s
        BY <1>1, <2>4, <4>1
      <4> QED
        BY <4>1, <4>2 DEF Types, ThreadTypes
    <3>3. SeekComes(p)
      BY <3>1, <3>2, RequestMet
    <3>4. Receiving(p)' = Receiving(p) /\ Queued(p)' = Queued(p)
      BY <2>2 DEF Receiving, Queued
    <3>5. Held(p)' = 1 => Held(p) = 1
      BY <2>2, <3>3 DEF Held
    <3>6. Held(p)' + Queued(p)' <= Held(p) + Queued(p)
      BY <3>4, <3>5, Counts
    <3> QED
      BY <1>1, <2>1, <3>4, <3>6, SampleKept
  <2> QED
    BY <2>3, <2>4
<1>10. ASSUME NEW q \in Inputs, ~ BeginFlushPin, PinThread(q) PROVE SampleInv(p)'
  BY <1>0, <1>10, PinSample
<1>11. CASE ~ BeginFlushPin /\ UNCHANGED vars
  <2>1. Steady /\ UNCHANGED <<ppc, fresh, behind>>
    BY <1>11 DEF vars, Steady, InWindow, app, switch, render, preq, plocal
  <2> QED
    BY <1>0, <1>1, <1>11, <2>1, HeldKept, SampleKept
<1> QED
  BY <1>2, <1>3, <1>4, <1>5, <1>6, <1>7, <1>8, <1>9, <1>10, <1>11 DEF Next

------------------------------------------------------------------------------
(* The invariant and what follows from it.                                 *)
\* Every step keeps the remaining types.
LEMMA OutputTypesStep ==
  ASSUME OutputTypes, [Next]_vars
  PROVE  OutputTypes'
<1> USE DEF OutputTypes, render, ghost
<1>0. layout' = layout
  BY SameLayout
<1>11. CASE Start
  BY <1>0, <1>11 DEF Start, Begin
<1>12. CASE StartSplitter
  BY <1>0, <1>12 DEF StartSplitter
<1>13. CASE Run
  BY <1>0, <1>13 DEF Run, Idle
<1>14. CASE Seek
  BY <1>0, <1>14 DEF Seek, Begin, PauseGraph
<1>15. ASSUME NEW n \in Inputs, Enable(n) PROVE OutputTypes'
  BY <1>0, <1>15 DEF Enable, Begin, PauseGraph
<1>16. CASE Deselect
  BY <1>0, <1>16 DEF Deselect, Selecting
<1>17. CASE OpenFirst
  BY <1>0, <1>17 DEF OpenFirst, Selecting
<1>18. CASE OpenNext
  BY <1>0, <1>18 DEF OpenNext, Selecting
<1>19. CASE CloseLast
  BY <1>0, <1>19 DEF CloseLast, Selecting
<1>20. CASE FlushOutput
  BY <1>0, <1>20 DEF FlushOutput, Selecting, DeliverBeginFlush, SinkForgets
<1>21. CASE EndFlushOutput
  BY <1>0, <1>21 DEF EndFlushOutput, Selecting, DeliverEndFlush
<1>22. CASE SetInput
  BY <1>0, <1>22 DEF SetInput
<1>23. CASE OpenNew
  BY <1>0, <1>23 DEF OpenNew, Selecting
<1>24. CASE SkipSeek
  BY <1>0, <1>24 DEF SkipSeek, NextSeeker
<1>25. CASE DropSeek
  BY <1>0, <1>25 DEF DropSeek, NextSeeker
<1>26. CASE TakeSeek
  BY <1>0, <1>26 DEF TakeSeek, NextSeeker
<1>27. CASE ResumeGraph
  BY <1>0, <1>27 DEF ResumeGraph, Idle
<1>28. CASE BeginFlushPin
  BY <1>0, <1>28 DEF BeginFlushPin, Flushing, BeginFlush, DeliverBeginFlush, SinkForgets
<1>29. CASE CallWorker
  BY <1>0, <1>29 DEF CallWorker, Calling
<1>30. CASE CallReturns
  BY <1>0, <1>30 DEF CallReturns
<1>31. CASE CallTimesOut
  BY <1>0, <1>31 DEF CallTimesOut
<1>32. CASE EndFlushPin
  BY <1>0, <1>32 DEF EndFlushPin, Flushing, EndFlush, DeliverEndFlush
<1>33. CASE EndFlushFilter
  BY <1>0, <1>33 DEF EndFlushFilter, Flushing, NextSeeker
<1>34. CASE Stop
  BY <1>0, <1>34 DEF Stop, Begin, SinkForgets
<1>35. CASE StopSplitter
  BY <1>0, <1>35 DEF StopSplitter
<1>36. CASE Stopped
  BY <1>0, <1>36 DEF Stopped, Idle
<1>37. CASE Inactive
  BY <1>0, <1>37 DEF Inactive, Calling
<1>38. CASE InactiveReturns
  BY <1>0, <1>38 DEF InactiveReturns, NextInactive
<1>39. CASE InactiveTimesOut
  BY <1>0, <1>39 DEF InactiveTimesOut, NextInactive
<1>40. ASSUME NEW s \in Splitters, WaitEndFlush(s) PROVE OutputTypes'
  BY <1>0, <1>40 DEF WaitEndFlush, Demuxing
<1>41. ASSUME NEW s \in Splitters, SkipPin(s) PROVE OutputTypes'
  BY <1>0, <1>41 DEF SkipPin, Demuxing
<1>42. ASSUME NEW s \in Splitters, UsePin(s) PROVE OutputTypes'
  BY <1>0, <1>42 DEF UsePin, Demuxing
<1>43. ASSUME NEW s \in Splitters, NewSegment(s) PROVE OutputTypes'
  BY <1>0, <1>43 DEF NewSegment, Demuxing
<1>44. ASSUME NEW s \in Splitters, StartDemux(s) PROVE OutputTypes'
  BY <1>0, <1>44 DEF StartDemux, Demuxing
<1>45. ASSUME NEW s \in Splitters, GetRequest(s) PROVE OutputTypes'
  BY <1>0, <1>45 DEF GetRequest, Demuxing
<1>46. ASSUME NEW s \in Splitters, ReadOn(s) PROVE OutputTypes'
  BY <1>0, <1>46 DEF ReadOn, Demuxing
<1>47. ASSUME NEW p \in Inputs, AwaitEndFlush(p) PROVE OutputTypes'
  BY <1>0, <1>47 DEF AwaitEndFlush, Delivering, Step, Return, sinks
<1>48. ASSUME NEW p \in Inputs, Exit(p) PROVE OutputTypes'
  BY <1>0, <1>48 DEF Exit, Delivering, Step, Return, sinks
<1>49. ASSUME NEW p \in Inputs, TakeLate(p) \/ Take(p) \/ TestResult(p) PROVE OutputTypes'
  <2>1. CASE TakeLate(p)
    BY <1>0, <2>1 DEF TakeLate, Remove, Delivering, sinks
  <2>2. CASE Take(p)
    BY <1>0, <2>2 DEF Take, Remove, Delivering, sinks
  <2>3. CASE TestResult(p)
    BY <1>0, <2>3 DEF TestResult, Delivering, sinks
  <2> QED
    BY <1>49, <2>1, <2>2, <2>3
<1>50. ASSUME NEW p \in Inputs, PassGate(p) PROVE OutputTypes'
  BY <1>0, <1>50 DEF PassGate, Delivering, Step, Return, sinks
<1>51. ASSUME NEW p \in Inputs, EnterActive(p) PROVE OutputTypes'
  BY <1>0, <1>51 DEF EnterActive, Delivering, Step, Return, sinks
<1>52. ASSUME NEW p \in Inputs, RefuseInactive(p) PROVE OutputTypes'
  BY <1>0, <1>52 DEF RefuseInactive, Delivering, Step, Return, sinks
<1>53. ASSUME NEW p \in Inputs, NotStreaming(p) PROVE OutputTypes'
  BY <1>0, <1>53 DEF NotStreaming, Delivering, Step, Return, sinks
<1>54. ASSUME NEW p \in Inputs, KeepBuffers(p) PROVE OutputTypes'
  BY <1>0, <1>54 DEF KeepBuffers, Delivering, Step, Return, sinks
<1>55. ASSUME NEW p \in Inputs, GrowBuffers(p) PROVE OutputTypes'
  BY <1>0, <1>55 DEF GrowBuffers, Delivering, Step, Return, sinks, DeliverBeginFlush,
    DeliverEndFlush, SinkForgets
<1>56. ASSUME NEW p \in Inputs, EndGrowBuffers(p) PROVE OutputTypes'
  BY <1>0, <1>56 DEF EndGrowBuffers, Delivering, Step, Return, sinks, DeliverBeginFlush,
    DeliverEndFlush, SinkForgets
<1>57. ASSUME NEW p \in Inputs, SendSample(p) PROVE OutputTypes'
  BY <1>0, <1>57 DEF SendSample, Delivering, Step, Return, sinks
<1>58. ASSUME NEW p \in Inputs, EnterEnd(p) PROVE OutputTypes'
  BY <1>0, <1>58 DEF EnterEnd, Delivering, Step, Return, sinks
<1>59. ASSUME NEW p \in Inputs, InactiveEnd(p) PROVE OutputTypes'
  BY <1>0, <1>59 DEF InactiveEnd, Delivering, Step, Return, sinks
<1>60. ASSUME NEW p \in Inputs, SendEnd(p) PROVE OutputTypes'
  BY <1>0, <1>60 DEF SendEnd, Delivering, Step, Return, sinks
<1>61. CASE UNCHANGED vars
  BY <1>61 DEF vars
<1> QED
  BY <1>11, <1>12, <1>13, <1>14, <1>15, <1>16, <1>17, <1>18, <1>19, <1>20, <1>21, <1>22,
    <1>23, <1>24, <1>25, <1>26, <1>27, <1>28, <1>29, <1>30, <1>31, <1>32, <1>33, <1>34,
    <1>35, <1>36, <1>37, <1>38, <1>39, <1>40, <1>41, <1>42, <1>43, <1>44, <1>45, <1>46,
    <1>47, <1>48, <1>49, <1>50, <1>51, <1>52, <1>53, <1>54, <1>55, <1>56, <1>57, <1>58,
    <1>59, <1>60, <1>61 DEF Next, App, Demuxer, PinThread

\* The invariant holds before the graph is first started.
LEMMA InitInvariant ==
  ASSUME Init
  PROVE  IInv
<1> USE DEF Init
<1>1. /\ NumInputs \in Nat /\ NumInputs > 0 /\ NumSplitters \in Nat /\ NumSplitters > 0
      /\ LastPosition \in Nat /\ PacketsPerPin \in Nat /\ NumInputs >= 1
  BY SwitcherAssumption
<1>2. AppTypes
  BY <1>1 DEF AppTypes, AppPhases, StartPhases, SelectPhases, SeekPhases, FlushPhases,
    StopPhases, Inputs, Positions
<1>3. SwitchTypes
  <2>1. 1 \in Inputs
    BY <1>1 DEF Inputs
  <2> QED
    BY <2>1 DEF SwitchTypes
<1>4. SeekTypes
  BY <1>1 DEF SeekTypes, Nowhere
<1>5. ThreadTypes
  <2>1. /\ fpc \in [Splitters -> DemuxPlaces]
        /\ fReq \in [Splitters -> {"none", "seek", "exit"}]
    BY DEF DemuxPlaces
  <2>2. ppc \in [Inputs -> PinPlaces]
    BY DEF PinPlaces, AheadPlaces
  <2>3. cursor \in [Inputs -> Nat] /\ behind \in [Inputs -> Nat]
    <3>1. Eos + 1 \in Nat
      BY <1>1 DEF Eos
    <3> QED
      BY <3>1
  <2>4. fDone \in [Splitters -> BOOLEAN] /\ pEndFlush \in [Inputs -> BOOLEAN]
        /\ fresh \in [Inputs -> BOOLEAN]
    BY Zenon
  <2> QED
    BY <2>1, <2>2, <2>3, <2>4 DEF ThreadTypes
<1>6. Control
  BY DEF Control, StartPhases, SelectPhases, FlushPhases, StopPhases
<1>7. SInv
  <2>1. \A s \in Splitters : real[s] = 0 /\ rtLastStart[s] = Nowhere /\ lastSeekers[s] = {}
                           /\ fReq[s] = "none" /\ early = {}
    OBVIOUS
  <2> QED
    BY <2>1 DEF SInv, SeekInv, RequestInv, SeekPhases, FlushPhases
<1>8. FormatInv
  BY DEF FormatInv, Receiving
<1>9. PInv
  <2>1. ASSUME NEW p \in Inputs PROVE CursorInv(p)
    BY <1>1, <2>1, Layout, <1>2 DEF CursorInv, SeekComes, FlushPhases
  <2>2. ASSUME NEW p \in Inputs PROVE SampleInv(p)
    <3>1. strays[p] = 0 /\ from = {}
      OBVIOUS
    <3>2. Held(p) \in {0, 1} /\ Queued(p) \in {0, 1}
      BY Counts
    <3> QED
      BY <3>1, <3>2 DEF SampleInv
  <2> QED
    BY <2>1, <2>2 DEF PInv
<1>10. OutputTypes
  BY DEF OutputTypes
<1> QED
  BY <1>2, <1>3, <1>4, <1>5, <1>6, <1>7, <1>8, <1>9, <1>10 DEF IInv, Types

\* Every step keeps the invariant.
LEMMA StepInvariant ==
  ASSUME IInv, [Next]_vars
  PROVE  IInv'
<1>1. Types /\ Control /\ SInv /\ FormatInv /\ PInv
  BY DEF IInv
<1>2. AppTypes'
  BY <1>1, AppTypesStep DEF Types
<1>3. SwitchTypes'
  BY <1>1, SwitchTypesStep DEF Types
<1>4. SeekTypes'
  BY <1>1, SeekTypesStep
<1>5. ThreadTypes'
  BY <1>1, ThreadTypesStep
<1>6. Control'
  BY <1>1, ControlStep
<1>7. SInv'
  BY <1>1, SInvStep
<1>8. FormatInv'
  BY <1>1, FormatStep
<1>9. ASSUME NEW p \in Inputs PROVE CursorInv(p)' /\ SampleInv(p)'
  <2>1. CursorInv(p) /\ SampleInv(p)
    BY <1>1 DEF PInv
  <2> QED
    BY <1>1, <2>1, CursorInvStep, SampleStep
<1>10. PInv'
  BY <1>9 DEF PInv, Inputs
<1>11. OutputTypes'
  BY OutputTypesStep DEF IInv
<1> QED
  BY <1>2, <1>3, <1>4, <1>5, <1>6, <1>7, <1>8, <1>10, <1>11 DEF IInv, Types

\* The invariant holds throughout.
THEOREM Invariance == Spec => []IInv
<1>1. Init => IInv
  BY InitInvariant
<1>2. IInv /\ [Next]_vars => IInv'
  BY StepInvariant
<1> QED
  BY <1>1, <1>2, PTL DEF Spec

\* Each variable has values of its kind, whatever the bounds.
THEOREM TypeCorrect == Spec => []TypeOK
<1>1. IInv => TypeOK
  BY DEF IInv, Types, AppTypes, SwitchTypes, OutputTypes, TypeOK, AppPhases, StartPhases,
    SelectPhases, SeekPhases, FlushPhases, StopPhases
<1> QED
  BY <1>1, Invariance, PTL

\* Of the seeks the graph repeats for the video and for every input, each splitter
\* acts on one and drops the rest, unless it was at the position when it was asked.
THEOREM SoughtOnceHolds == Spec => []SoughtOnce
<1>1. IInv => SoughtOnce
  <2> SUFFICES ASSUME IInv, apc = "resume", NEW p \in Inputs
               PROVE  real[of(p)] = 1 \/ (real[of(p)] = 0 /\ of(p) \in early)
    BY DEF SoughtOnce
  <2> DEFINE s == of(p)
  <2>1. /\ s \in Splitters /\ NumInputs \in Nat /\ NumInputs > 0
    BY Layout DEF IInv, Types
  <2>2. SeekInv(s) /\ Positioning /\ aop # "stop" /\ ak = NumInputs /\ apc \in SeekPhases
    BY <2>1 DEF IInv, SInv, Control, Positioning, SeekPhases
  <2>3. real[s] \in Nat /\ real[s] <= 1
    BY <2>1, <2>2 DEF SeekInv, IInv, Types, SeekTypes
  <2>4. Passed(s) = {k \in Seekers : (IF k = NoInput THEN 1 ELSE of(k)) = s}
    BY <2>1, <2>2 DEF Passed, SplitterAt, Seekers
  <2>5. p \in Passed(s)
    BY <2>1, <2>4 DEF Seekers, Inputs, NoInput
  <2>6. lastSeekers[s] \subseteq Passed(s)
    BY <2>2, <2>4 DEF SeekInv
  <2>7. ~ (real[s] = 0 /\ s \notin early)
    BY <2>2, <2>5, <2>6 DEF SeekInv
  <2> QED
    BY <2>3, <2>7
<1> QED
  BY <1>1, Invariance, PTL

\* A sample is converted with the formats of its own stream, unless a Receive of
\* another pin was under way when SelectInput set m_pInput.
THEOREM FormatsAgreeHolds == Spec => []FormatsAgree
<1>1. IInv => FormatsAgree
  BY DEF IInv, FormatInv, FormatsAgree
<1> QED
  BY <1>1, Invariance, PTL

\* Once a stream is selected, or the selected one sought, the renderer has samples
\* of it, at most two of them of before the last seek, and of another input at most one.
THEOREM SelectionHeardHolds == Spec => []SelectionHeard
<1>1. IInv => SelectionHeard
  <2> SUFFICES ASSUME IInv PROVE StrayBound /\ OnlySelected
    BY DEF SelectionHeard
  <2>1. \A p \in Inputs : SampleInv(p) /\ strays[p] \in Nat
    BY DEF IInv, PInv, Types, SwitchTypes
  <2>2. from \subseteq Inputs
    BY DEF IInv, Types, SwitchTypes
  <2>3. StrayBound
    BY <2>1 DEF StrayBound, SampleInv, InWindow
  <2>4. OnlySelected
    BY <2>1, <2>2 DEF OnlySelected, SampleInv, InWindow
  <2> QED
    BY <2>3, <2>4
<1> QED
  BY <1>1, Invariance, PTL

==============================================================================
