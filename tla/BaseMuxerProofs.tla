-------------------------- MODULE BaseMuxerProofs --------------------------
(***************************************************************************)
(* What BaseMuxer promises for any number of pins, any graph, any bound of *)
(* a queue and any number of runs.                                         *)
(***************************************************************************)
EXTENDS BaseMuxer, FiniteSetTheorems, SequenceTheorems, TLAPS

\* From Pause to Stop; Stop begins to clear the queues.
Streaming == apc = "start" \/ (apc = "idle" /\ state # "stopped")

\* Who waits for whom: CallWorker's caller and the muxing thread.
Handshake ==
    /\ run = 0 => apc = "idle" /\ state = "stopped"
    /\ apc = "start" => state = "paused" /\ req \in {"run", "answered"}
    /\ req = "run" => wpc = "request" /\ lastSync = 0 /\ ~finished
    /\ apc = "exit" => state = "stopped" /\ req \in {"exit", "answered"}
    /\ apc = "exit" /\ req = "answered" => wpc = "none"
    /\ apc \notin {"start", "exit"} => req = "none"
    /\ apc = "idle" /\ state = "stopped" => wpc = "none"
    /\ apc \in {"inactive", "setStopped"} => state # "stopped"

\* Packets belong to runs that have begun, and a source in PushPacket has one.
Owned ==
    \A p \in Pins :
        /\ \A i \in DOMAIN queue[p] : queue[p][i].run <= run
        /\ upc[p] # "idle" => hand[p] \in Packets /\ hand[p].run <= run

\* A packet at the head of p's queue was seen, and none before rtMin.
Shown(p) ==
    queue[p] # <<>> /\ ~Untimed(Head(queue[p])) /\ rtMin <= Head(queue[p]).rt

\* Of the active pins, those of M were not seen with a packet (yet).
SeenBut(M) ==
    /\ missing = Cardinality(M)
    /\ \A p \in active : p >= wpin => p \in M
    /\ Streaming => \A p \in active \ M : Shown(p)

Smallest == queue[best] # <<>> /\ rtMin = Head(queue[best]).rt

Scanned ==
    /\ wpc = "scan" =>
         /\ \E M \in SUBSET active : SeenBut(M)
         /\ best # 0 => best \in active /\ (Streaming => Smallest)
    /\ wpc = "pop" =>
         /\ best \in active
         /\ Streaming =>
              \/ queue[best] # <<>> /\ Untimed(Head(queue[best]))
              \/ Smallest /\ \A p \in active : Shown(p)

Held(p) == IF upc[p] = "idle" THEN 0 ELSE 1

\* The packets the last run left at the head of p's queue: those beyond what
\* the source was given in this run and is not holding or past.
Left(p) == Len(queue[p]) + Held(p) + lastOut[p] - sent[p]

Numbered(packet, p, n) ==
    packet.run = run /\ packet.n = n /\ (packet.kind = "eos" <=> n = Eos(p))

\* p's queue: what the last run left, then the packets of this run in turn.
Line(p) ==
    /\ sent[p] <= Eos(p) /\ lastOut[p] + Held(p) <= sent[p] /\ Left(p) >= 0
    /\ \A i \in DOMAIN queue[p] :
         IF i <= Left(p) THEN queue[p][i].run < run
                         ELSE Numbered(queue[p][i], p, lastOut[p] + i - Left(p))
    /\ upc[p] # "idle" => Numbered(hand[p], p, sent[p])

\* A pin is no longer active when its end of stream has been muxed.
Ended ==
    /\ wpc \in {"loop", "scan", "pop", "signal", "finish"} /\ Whole
         => \A p \in Pins \ active : lastOut[p] = Eos(p)
    /\ wpc = "finish" /\ Whole => active = {}
    /\ finished => wpc = "request" /\ (Whole => \A p \in Pins : lastOut[p] = Eos(p))

\* A sync point of this run starts no earlier than what precedes it on its pin.
Rising(p) ==
    /\ \A i \in DOMAIN queue[p] : queue[p][i].run = run =>
         /\ queue[p][i].rt <= rtMaxStart[p]
         /\ \A j \in DOMAIN queue[p] :
              i < j /\ queue[p][j].kind = "sync" => queue[p][i].rt <= queue[p][j].rt
         /\ upc[p] # "idle" /\ hand[p].kind = "sync" => queue[p][i].rt <= hand[p].rt
    /\ upc[p] # "idle" => hand[p].rt <= rtMaxStart[p]

\* ... nor than the last one muxed, unless the last run left p a packet.
Fresh(p) == \A i \in DOMAIN queue[p] : queue[p][i].run = run

NotBefore(p) ==
    Fresh(p) =>
        /\ lastSync <= rtMaxStart[p]
        /\ \A i \in DOMAIN queue[p] : queue[p][i].kind = "sync" => lastSync <= queue[p][i].rt
        /\ upc[p] # "idle" /\ hand[p].kind = "sync" => lastSync <= hand[p].rt

Later == "sample" \notin spoilt => \A p \in active : NotBefore(p)

Stream ==
    Streaming => (\A p \in Pins : Line(p) /\ Rising(p)) /\ Ended /\ Later

Inv == TypeOK /\ Handshake /\ Owned /\ Scanned /\ Stream

------------------------------------------------------------------------------
\* Sequences, and what TypeOK says of the graph.

LEMMA HeadFacts ==
    ASSUME NEW S, NEW s \in Seq(S), s # <<>>
    PROVE  /\ Len(s) \in Nat /\ Len(s) >= 1 /\ DOMAIN s = 1 .. Len(s) /\ 1 \in DOMAIN s
           /\ Head(s) = s[1] /\ s[1] \in S
<1>1. Len(s) \in Nat \ {0}
  BY EmptySeq
<1>2. DOMAIN s = 1 .. Len(s)
  BY LenProperties
<1>3. s[1] \in S
  BY <1>1, ElementOfSeq
<1> QED
  BY <1>1, <1>2, <1>3

LEMMA TailFacts ==
    ASSUME NEW S, NEW s \in Seq(S), s # <<>>
    PROVE  /\ Tail(s) \in Seq(S) /\ Len(Tail(s)) = Len(s) - 1
           /\ DOMAIN Tail(s) = 1 .. Len(s) - 1
           /\ \A i \in DOMAIN Tail(s) : i + 1 \in DOMAIN s /\ Tail(s)[i] = s[i + 1]
<1>1. /\ Tail(s) \in Seq(S) /\ Len(Tail(s)) = Len(s) - 1
      /\ \A i \in 1 .. Len(Tail(s)) : Tail(s)[i] = s[i + 1]
  BY HeadTailProperties
<1>2. DOMAIN Tail(s) = 1 .. Len(s) - 1 /\ DOMAIN s = 1 .. Len(s) /\ Len(s) \in Nat
  BY <1>1, LenProperties
<1> QED
  BY <1>1, <1>2

LEMMA AppendFacts ==
    ASSUME NEW S, NEW s \in Seq(S), NEW e \in S
    PROVE  /\ Append(s, e) \in Seq(S) /\ Append(s, e) # <<>>
           /\ Len(s) \in Nat /\ DOMAIN s = 1 .. Len(s)
           /\ Len(Append(s, e)) = Len(s) + 1 /\ DOMAIN Append(s, e) = 1 .. Len(s) + 1
           /\ \A i \in DOMAIN s : Append(s, e)[i] = s[i]
           /\ Append(s, e)[Len(s) + 1] = e
<1>1. DOMAIN s = 1 .. Len(s) /\ Len(s) \in Nat
  BY LenProperties
<1>2. /\ Append(s, e) \in Seq(S) /\ Append(s, e) # <<>> /\ Len(Append(s, e)) = Len(s) + 1
      /\ \A i \in 1 .. Len(s) : Append(s, e)[i] = s[i]
      /\ Append(s, e)[Len(s) + 1] = e
  BY AppendProperties
<1>3. DOMAIN Append(s, e) = 1 .. Len(s) + 1
  BY <1>2, LenProperties
<1> QED
  BY <1>1, <1>2, <1>3

LEMMA GraphFacts ==
    ASSUME graph \in Graphs
    PROVE  /\ NumPins \in Nat \ {0} /\ MaxTime \in Nat \ {0} /\ MaxQueue \in Nat \ {0}
           /\ MaxRuns \in Nat \ {0}
           /\ \A p \in Pins : Eos(p) \in Nat /\ Eos(p) > 1
           /\ \A p \in Pins : \A sample \in Samples(p) : sample[2] \in 0 .. MaxTime
<1>1. graph \in GraphType
  BY BaseMuxerAssumption
<1>2. graph.packets \in [Pins -> Nat \ {0}] /\ graph.runs \in Nat \ {0}
  BY <1>1 DEF GraphType, Pins
<1>3. graph.samples \in [Pins -> SUBSET (BOOLEAN \X (0 .. MaxTime))]
  BY <1>1 DEF GraphType, Pins
<1> QED
  BY <1>2, <1>3, BaseMuxerAssumption DEF MaxRuns, Eos, Samples

\* TypeOK by who writes the variables.
AppTypes ==
    /\ graph \in Graphs /\ state \in {"stopped", "paused", "running"}
    /\ apc \in {"idle", "start", "inactive", "setStopped", "exit"} /\ apin \in 1 .. NumPins + 1
    /\ run \in 0 .. MaxRuns /\ req \in {"none", "run", "exit", "answered"}

WorkerTypes ==
    /\ wpc \in {"none", "request", "loop", "scan", "pop", "signal", "finish"}
    /\ wpin \in 1 .. NumPins + 1 /\ active \in SUBSET Pins
    /\ missing \in 0 .. NumPins /\ best \in 0 .. NumPins /\ rtMin \in 1 .. MaxTime + 1
    /\ finished \in BOOLEAN /\ spoilt \subseteq {"write", "eos", "sample"}

OutTypes == lastOut \in [Pins -> Nat] /\ lastSync \in 0 .. MaxTime

QueueTypes == queue \in [Pins -> Seq(Packets)] /\ accept \in [Pins -> BOOLEAN]

SourceTypes ==
    /\ upc \in [Pins -> {"idle", "wait", "add"}] /\ hand \in [Pins -> Packets \cup {<<>>}]
    /\ sent \in [Pins -> Nat] /\ rtMaxStart \in [Pins -> 0 .. MaxTime]

LEMMA TypeParts ==
    TypeOK <=> AppTypes /\ WorkerTypes /\ OutTypes /\ QueueTypes /\ SourceTypes
  BY Zenon DEF TypeOK, AppTypes, WorkerTypes, OutTypes, QueueTypes, SourceTypes

LEMMA TypePartsPrime ==
    AppTypes' /\ WorkerTypes' /\ OutTypes' /\ QueueTypes' /\ SourceTypes' => TypeOK'
  BY Zenon DEF TypeOK, AppTypes, WorkerTypes, OutTypes, QueueTypes, SourceTypes

LEMMA TypesKept ==
    ASSUME TypeOK, graph' = graph
    PROVE  /\ Packets' = Packets
           /\ UNCHANGED <<state, apc, apin, run, req>> => AppTypes'
           /\ UNCHANGED <<wvars>> => WorkerTypes'
           /\ UNCHANGED out => OutTypes'
           /\ UNCHANGED pins => QueueTypes'
           /\ UNCHANGED uvars => SourceTypes'
<1>1. Packets' = Packets /\ MaxRuns' = MaxRuns
  BY DEF Packets, MaxRuns
<1>2. UNCHANGED <<state, apc, apin, run, req>> => AppTypes'
  BY <1>1, TypeParts DEF AppTypes
<1>3. UNCHANGED <<wvars>> => WorkerTypes'
  BY TypeParts DEF WorkerTypes, wvars, scan
<1>4. UNCHANGED out => OutTypes'
  BY TypeParts DEF OutTypes, out
<1>5. UNCHANGED pins => QueueTypes'
  BY <1>1, TypeParts DEF QueueTypes, pins
<1>6. UNCHANGED uvars => SourceTypes'
  BY <1>1, TypeParts DEF SourceTypes, uvars
<1> QED
  BY <1>1, <1>2, <1>3, <1>4, <1>5, <1>6

LEMMA FinitePins ==
    ASSUME NumPins \in Nat, active \in SUBSET Pins, NEW M \in SUBSET active
    PROVE  IsFiniteSet(M) /\ Cardinality(M) \in 0 .. NumPins /\ (Cardinality(M) = 0 <=> M = {})
<1>1. M \subseteq Pins
  OBVIOUS
<1>2. IsFiniteSet(Pins) /\ Cardinality(Pins) = NumPins
  BY FS_Interval DEF Pins
<1>3. IsFiniteSet(M) /\ Cardinality(M) <= NumPins
  BY <1>1, <1>2, FS_Subset
<1> QED
  BY <1>1, <1>3, FS_CardinalityType, FS_EmptySet

------------------------------------------------------------------------------
\* The first state.

LEMMA InitInv == Init => Inv
<1> SUFFICES ASSUME Init PROVE Inv
  OBVIOUS
<1>1. NumPins \in Nat \ {0} /\ MaxTime \in Nat \ {0} /\ MaxRuns \in Nat \ {0}
  BY GraphFacts DEF Init
<1>2. <<>> \in Seq(Packets)
  BY EmptySeq
<1>3. TypeOK
  <2>1. AppTypes
    BY <1>1 DEF Init, AppTypes
  <2>2. WorkerTypes
    <3>1. wpin \in 1 .. NumPins + 1 /\ rtMin \in 1 .. MaxTime + 1
      BY <1>1 DEF Init
    <3>2. missing \in 0 .. NumPins /\ best \in 0 .. NumPins
      BY <1>1 DEF Init
    <3> QED
      BY <3>1, <3>2 DEF Init, WorkerTypes
  <2>3. OutTypes
    BY <1>1 DEF Init, OutTypes
  <2>4. QueueTypes
    BY <1>2 DEF Init, QueueTypes
  <2>5. SourceTypes
    BY <1>1 DEF Init, SourceTypes
  <2> QED
    BY <2>1, <2>2, <2>3, <2>4, <2>5, TypeParts
<1>4. Handshake
  BY DEF Init, Handshake
<1>5. Owned
  BY EmptySeq, DOMAIN <<>> = {} DEF Init, Owned
<1>6. Scanned
  BY DEF Init, Scanned
<1>7. Stream
  BY DEF Init, Stream, Streaming
<1> QED
  BY <1>3, <1>4, <1>5, <1>6, <1>7 DEF Inv

------------------------------------------------------------------------------
\* The types.

LEMMA GraphKept == [Next]_vars => graph' = graph
  BY DEF Next, Worker, App, Source, GetRequest, Loop, Scan, Choose, Signal, Pop, Finish,
         Inactive, SetStopped, Returned, Pause, Switch, Stop, Receive, EndOfStream, PushWait,
         PushAdd, GiveUp, vars, avars

\* A source has something to push only in a run.
LEMMA InARun ==
    ASSUME AppTypes, Handshake, NEW p \in Pins, Receive(p) \/ EndOfStream(p)
    PROVE  run \in 1 .. MaxRuns
<1>1. run # 0
  BY DEF Receive, EndOfStream, Feeding, Handshake
<1> QED
  BY <1>1, GraphFacts DEF AppTypes

\* What Receive and EndOfStream push, and when.
LEMMA Pushed ==
    ASSUME TypeOK, Handshake, NEW p \in Pins, Receive(p) \/ EndOfStream(p)
    PROVE  \E rt \in 0 .. MaxTime, kind \in Kinds :
             /\ Push(p, rt, kind) /\ upc[p] = "idle"
             /\ [run |-> run, n |-> sent[p] + 1, rt |-> rt, kind |-> kind] \in Packets
             /\ sent[p] + 1 <= Eos(p) /\ (kind = "eos" <=> sent[p] + 1 = Eos(p))
             /\ kind = "sync" => rt >= rtMaxStart[p]
             /\ rtMaxStart' = [rtMaxStart EXCEPT ![p] = IF rt > @ THEN rt ELSE @]
<1>1. run \in 1 .. MaxRuns /\ sent[p] \in Nat /\ rtMaxStart[p] \in 0 .. MaxTime
  BY InARun, TypeParts DEF SourceTypes
<1>2. Eos(p) \in Nat /\ MaxTime \in Nat
  BY GraphFacts, TypeParts DEF AppTypes
<1>3. upc[p] = "idle"
  BY DEF Receive, EndOfStream, Free
<1>4. CASE Receive(p)
  <2>1. PICK sample \in Samples(p) :
          /\ Push(p, sample[2], Kind(p, sample[1], sample[2]))
          /\ rtMaxStart' = [rtMaxStart EXCEPT ![p] = IF sample[2] > @ THEN sample[2] ELSE @]
    BY <1>4 DEF Receive
  <2> DEFINE rt == sample[2]
             kind == Kind(p, sample[1], rt)
  <2>2. rt \in 0 .. MaxTime
    BY GraphFacts, TypeParts DEF AppTypes
  <2>3. kind \in Kinds /\ kind # "eos"
    BY DEF Kind, Kinds
  <2>4. kind = "sync" => rt >= rtMaxStart[p]
    BY <1>1, <1>2, <2>2 DEF Kind
  <2>5. sent[p] < Eos(p) - 1
    BY <1>4 DEF Receive
  <2>6. [run |-> run, n |-> sent[p] + 1, rt |-> rt, kind |-> kind] \in Packets
    <3> HIDE DEF rt, kind
    <3> QED
      BY <1>1, <2>2, <2>3 DEF Packets
  <2> HIDE DEF rt, kind
  <2>7. Push(p, rt, kind) /\ rtMaxStart' = [rtMaxStart EXCEPT ![p] = IF rt > @ THEN rt ELSE @]
    BY <2>1 DEF rt, kind
  <2>8. sent[p] + 1 <= Eos(p) /\ sent[p] + 1 # Eos(p)
    BY <1>1, <1>2, <2>5
  <2> QED
    BY <1>3, <2>2, <2>3, <2>4, <2>6, <2>7, <2>8
<1>5. CASE EndOfStream(p)
  <2>1. Push(p, 0, "eos") /\ sent[p] = Eos(p) - 1 /\ rtMaxStart' = rtMaxStart
    BY <1>5 DEF EndOfStream
  <2>2. rtMaxStart' = [rtMaxStart EXCEPT ![p] = IF 0 > @ THEN 0 ELSE @]
    BY <1>1, <2>1, TypeParts DEF SourceTypes
  <2>3. [run |-> run, n |-> sent[p] + 1, rt |-> 0, kind |-> "eos"] \in Packets
    BY <1>1, <1>2 DEF Packets, Kinds
  <2>4. sent[p] + 1 = Eos(p) /\ 0 \in 0 .. MaxTime /\ "eos" \in Kinds
    BY <1>1, <1>2, <2>1 DEF Kinds
  <2>5. /\ sent[p] + 1 <= Eos(p) /\ ("eos" = "eos" <=> sent[p] + 1 = Eos(p))
        /\ "eos" = "sync" => 0 >= rtMaxStart[p]
    BY <1>2, <2>4
  <2> QED
    BY <1>3, <2>1, <2>2, <2>3, <2>4, <2>5, Zenon
<1> QED
  BY <1>4, <1>5

\* What PopPacket does to the queue it finds a packet in.
LEMMA Popped ==
    ASSUME TypeOK, Scanned, Pop, queue[best] # <<>>
    PROVE  /\ best \in active /\ best \in Pins
           /\ queue[best][1] \in Packets /\ Mux(queue[best][1])
           /\ queue' \in [Pins -> Seq(Packets)]
           /\ \A p \in Pins : p # best => queue'[p] = queue[p]
           /\ 1 \in DOMAIN queue[best] /\ Len(queue[best]) \in Nat
           /\ Len(queue'[best]) = Len(queue[best]) - 1
           /\ \A i \in DOMAIN queue'[best] :
                i \in Nat \ {0} /\ i + 1 \in DOMAIN queue[best] /\ queue'[best][i] = queue[best][i + 1]
           /\ spoilt' = spoilt \cup Stale(queue[best][1])
                               \cup (IF wpc' = "finish" THEN {"write"} ELSE {})
<1>1. best \in active /\ best \in Pins /\ queue[best] \in Seq(Packets)
  BY TypeParts DEF Pop, Scanned, WorkerTypes, QueueTypes
<1>2. queue' = [queue EXCEPT ![best] = Tail(queue[best])] /\ Mux(Head(queue[best]))
  BY DEF Pop
<1>3. queue'[best] = Tail(queue[best]) /\ \A p \in Pins : p # best => queue'[p] = queue[p]
  BY <1>1, <1>2, TypeParts DEF QueueTypes
<1>4. /\ Head(queue[best]) = queue[best][1] /\ queue[best][1] \in Packets
      /\ 1 \in DOMAIN queue[best] /\ Len(queue[best]) \in Nat /\ Len(queue[best]) >= 1
  BY <1>1, HeadFacts
<1>5. /\ Tail(queue[best]) \in Seq(Packets) /\ Len(Tail(queue[best])) = Len(queue[best]) - 1
      /\ DOMAIN Tail(queue[best]) = 1 .. Len(queue[best]) - 1
      /\ \A i \in DOMAIN Tail(queue[best]) :
           i + 1 \in DOMAIN queue[best] /\ Tail(queue[best])[i] = queue[best][i + 1]
  BY <1>1, TailFacts
<1>6. queue' \in [Pins -> Seq(Packets)]
  BY <1>2, <1>5, TypeParts DEF QueueTypes
<1>7. \A i \in 1 .. Len(queue[best]) - 1 : i \in Nat \ {0}
  BY <1>4
<1>8. spoilt' = spoilt \cup Stale(queue[best][1]) \cup (IF wpc' = "finish" THEN {"write"} ELSE {})
  BY <1>4 DEF Pop
<1> QED
  BY <1>1, <1>2, <1>3, <1>4, <1>5, <1>6, <1>7, <1>8

\* What PushPacket does to the queue of its pin.
LEMMA Added ==
    ASSUME TypeOK, Owned, NEW p \in Pins, PushAdd(p)
    PROVE  /\ hand[p] \in Packets /\ upc[p] # "idle" /\ upc' = [upc EXCEPT ![p] = "idle"]
           /\ queue' \in [Pins -> Seq(Packets)] /\ queue'[p] # <<>>
           /\ \A q \in Pins : q # p => queue'[q] = queue[q] /\ hand'[q] = hand[q]
           /\ Len(queue[p]) \in Nat /\ Len(queue'[p]) = Len(queue[p]) + 1
           /\ DOMAIN queue[p] = 1 .. Len(queue[p]) /\ DOMAIN queue'[p] = 1 .. Len(queue[p]) + 1
           /\ \A i \in DOMAIN queue[p] : queue'[p][i] = queue[p][i]
           /\ queue'[p][Len(queue[p]) + 1] = hand[p]
<1>1. hand[p] \in Packets /\ queue[p] \in Seq(Packets)
  BY TypeParts DEF PushAdd, Owned, QueueTypes
<1>2. queue' = [queue EXCEPT ![p] = Append(queue[p], hand[p])]
  BY DEF PushAdd, AddTail
<1>3. queue'[p] = Append(queue[p], hand[p]) /\ \A q \in Pins : q # p => queue'[q] = queue[q]
  BY <1>2, TypeParts DEF QueueTypes
<1>4. \A q \in Pins : q # p => hand'[q] = hand[q]
  BY TypeParts DEF PushAdd, SourceTypes
<1>5. /\ Append(queue[p], hand[p]) \in Seq(Packets) /\ Append(queue[p], hand[p]) # <<>>
      /\ Len(queue[p]) \in Nat /\ DOMAIN queue[p] = 1 .. Len(queue[p])
      /\ Len(Append(queue[p], hand[p])) = Len(queue[p]) + 1
      /\ DOMAIN Append(queue[p], hand[p]) = 1 .. Len(queue[p]) + 1
      /\ \A i \in DOMAIN queue[p] : Append(queue[p], hand[p])[i] = queue[p][i]
      /\ Append(queue[p], hand[p])[Len(queue[p]) + 1] = hand[p]
  BY <1>1, AppendFacts
<1>6. queue' \in [Pins -> Seq(Packets)]
  BY <1>2, <1>5, TypeParts DEF QueueTypes
<1>7. upc[p] # "idle" /\ upc' = [upc EXCEPT ![p] = "idle"]
  BY DEF PushAdd, Leave
<1> QED
  BY <1>1, <1>3, <1>4, <1>5, <1>6, <1>7

LEMMA TypeStep == Inv /\ [Next]_vars => TypeOK'
<1> SUFFICES ASSUME Inv, [Next]_vars PROVE TypeOK'
  OBVIOUS
<1>1. graph' = graph
  BY GraphKept
<1>2. TypeOK /\ Handshake /\ Owned /\ Scanned
  BY DEF Inv
<1>3. AppTypes /\ WorkerTypes /\ OutTypes /\ QueueTypes /\ SourceTypes
  BY <1>2, TypeParts
<1>4. NumPins \in Nat \ {0} /\ MaxTime \in Nat \ {0} /\ MaxRuns \in Nat \ {0}
  BY <1>3, GraphFacts DEF AppTypes
<1>5. Packets' = Packets /\ MaxRuns' = MaxRuns
  BY <1>1, <1>2, TypesKept DEF MaxRuns
<1>6. CASE GetRequest
  <2>1. AppTypes' /\ WorkerTypes'
    BY <1>1, <1>3, <1>5, <1>6 DEF GetRequest, AppTypes, WorkerTypes, avars, scan
  <2> QED
    BY <1>1, <1>2, <1>6, <2>1, TypesKept, TypePartsPrime DEF GetRequest
<1>7. CASE Loop
  <2>1. missing' \in 0 .. NumPins
    BY <1>3, <1>4, <1>7, FinitePins DEF Loop, Counted, WorkerTypes, scan
  <2>2. WorkerTypes'
    BY <1>3, <1>4, <1>7, <2>1 DEF WorkerTypes, Loop, ScanFrom, scan
  <2> QED
    BY <1>1, <1>2, <1>7, <2>2, TypesKept, TypePartsPrime DEF Loop, avars
<1>8. CASE Scan
  <2>1. wpin \in Pins /\ UNCHANGED <<active, finished, spoilt>>
    BY <1>8 DEF Scan
  <2>2. WorkerTypes'
    <3>1. CASE wpin \notin active \/ queue[wpin] = <<>>
      <4>1. ScanFrom("scan", wpin + 1) /\ UNCHANGED scan
        BY <1>8, <3>1 DEF Scan
      <4>2. wpin + 1 \in 1 .. NumPins + 1
        BY <1>4, <2>1 DEF Pins
      <4> QED
        BY <1>3, <2>1, <4>1, <4>2 DEF WorkerTypes, ScanFrom, scan
    <3>2. CASE wpin \in active /\ queue[wpin] # <<>>
      <4> DEFINE head == Head(queue[wpin])
      <4>1. head \in Packets
        BY <1>3, <2>1, <3>2, HeadFacts DEF QueueTypes
      <4>2. head.rt \in 0 .. MaxTime
        BY <4>1 DEF Packets
      <4> HIDE DEF head
      <4>3. missing - 1 \in 0 .. NumPins
        <5>1. PICK M \in SUBSET active : SeenBut(M)
          BY <1>2, <1>8 DEF Scan, Scanned
        <5>2. wpin \in M
          BY <1>4, <2>1, <3>2, <5>1 DEF SeenBut, Pins
        <5>3. missing \in 0 .. NumPins /\ missing # 0
          BY <1>3, <1>4, <5>1, <5>2, FinitePins DEF SeenBut, WorkerTypes
        <5> QED
          BY <1>4, <5>3
      <4>4. CASE Untimed(head)
        <5>1. best' = wpin /\ missing' = 0 /\ wpc' = "pop" /\ UNCHANGED <<wpin, rtMin>>
          BY <1>8, <3>2, <4>4 DEF Scan, head
        <5> QED
          BY <1>3, <1>4, <2>1, <5>1 DEF WorkerTypes, Pins
      <4>5. CASE ~Untimed(head)
        <5>1. /\ ScanFrom("scan", wpin + 1) /\ missing' = missing - 1
              /\ IF head.rt < rtMin THEN best' = wpin /\ rtMin' = head.rt
                                    ELSE UNCHANGED <<best, rtMin>>
          BY <1>8, <3>2, <4>5 DEF Scan, head
        <5>2. head.rt \in 1 .. MaxTime + 1
          BY <1>4, <4>2, <4>5 DEF Untimed
        <5>3. rtMin' \in 1 .. MaxTime + 1 /\ best' \in 0 .. NumPins
          BY <1>3, <1>4, <2>1, <5>1, <5>2 DEF WorkerTypes, Pins
        <5>4. wpin' \in 1 .. NumPins + 1 /\ wpc' = "scan"
          BY <1>4, <2>1, <5>1 DEF Pins, ScanFrom
        <5> QED
          BY <1>3, <2>1, <4>3, <5>1, <5>3, <5>4 DEF WorkerTypes
      <4> QED
        BY <4>4, <4>5
    <3> QED
      BY <3>1, <3>2
  <2> QED
    BY <1>1, <1>2, <1>8, <2>2, TypesKept, TypePartsPrime DEF Scan, avars
<1>9. CASE Choose
  <2>1. WorkerTypes'
    BY <1>3, <1>4, <1>9 DEF Choose, NoScan, scan, WorkerTypes
  <2> QED
    BY <1>1, <1>2, <1>9, <2>1, TypesKept, TypePartsPrime DEF Choose, avars
<1>10. CASE Signal
  <2>1. WorkerTypes'
    BY <1>3, <1>4, <1>10 DEF Signal, ScanFrom, WorkerTypes, scan, Pins
  <2>2. QueueTypes'
    BY <1>3, <1>5, <1>10 DEF Signal, SetAccept, QueueTypes
  <2> QED
    BY <1>1, <1>2, <1>10, <2>1, <2>2, TypesKept, TypePartsPrime DEF Signal, avars
<1>11. CASE Pop
  <2>1. /\ wpc' \in {"loop", "finish"} /\ NoScan /\ finished' = finished
        /\ UNCHANGED <<avars, req, uvars>>
    BY <1>11 DEF Pop, Write
  <2>2. accept' \in [Pins -> BOOLEAN]
    BY <1>3, <1>11 DEF Pop, QueueTypes
  <2>3. /\ active' \in SUBSET Pins /\ spoilt' \subseteq {"write", "eos", "sample"}
        /\ OutTypes' /\ queue' \in [Pins -> Seq(Packets)]
    <3>1. CASE queue[best] = <<>>
      BY <1>1, <1>2, <1>3, <1>11, <3>1, TypesKept DEF Pop, QueueTypes, WorkerTypes
    <3>2. CASE queue[best] # <<>>
      <4> DEFINE head == queue[best][1]
      <4>1. head \in Packets /\ Mux(head) /\ best \in Pins
        BY <1>2, <1>11, <3>2, Popped
      <4>2. head.rt \in 0 .. MaxTime /\ head.n \in Nat
        BY <4>1 DEF Packets
      <4>3. /\ queue' \in [Pins -> Seq(Packets)]
            /\ spoilt' = spoilt \cup Stale(head) \cup (IF wpc' = "finish" THEN {"write"} ELSE {})
        BY <1>2, <1>11, <3>2, Popped
      <4> HIDE DEF head
      <4>4. OutTypes'
        BY <1>3, <4>1, <4>2 DEF Mux, OutTypes, out
      <4>5. active' \in SUBSET Pins
        BY <1>3, <4>1 DEF Mux, Rest, WorkerTypes
      <4>6. spoilt' \subseteq {"write", "eos", "sample"}
        BY <1>3, <4>3 DEF Stale, WorkerTypes
      <4> QED
        BY <4>3, <4>4, <4>5, <4>6
    <3> QED
      BY <3>1, <3>2
  <2>4. WorkerTypes'
    BY <1>3, <1>4, <2>1, <2>3 DEF NoScan, WorkerTypes
  <2>5. QueueTypes'
    BY <1>5, <2>2, <2>3 DEF QueueTypes
  <2> QED
    BY <1>1, <1>2, <2>1, <2>3, <2>4, <2>5, TypesKept, TypePartsPrime DEF avars
<1>12. CASE Finish
  <2>1. WorkerTypes'
    BY <1>3, <1>12 DEF Finish, scan, WorkerTypes
  <2> QED
    BY <1>1, <1>2, <1>12, <2>1, TypesKept, TypePartsPrime DEF Finish, avars
<1>13. CASE Inactive
  <2>1. AppTypes'
    BY <1>1, <1>3, <1>4, <1>5, <1>13 DEF Inactive, AppTypes, Pins
  <2>2. queue' \in [Pins -> Seq(Packets)]
    BY <1>3, <1>13, EmptySeq DEF Inactive, QueueTypes
  <2>3. QueueTypes'
    BY <1>3, <1>5, <1>13, <2>2 DEF Inactive, QueueTypes
  <2> QED
    BY <1>1, <1>2, <1>13, <2>1, <2>3, TypesKept, TypePartsPrime DEF Inactive
<1>14. CASE SetStopped \/ Returned \/ Switch \/ Stop
  <2>1. AppTypes'
    BY <1>1, <1>3, <1>4, <1>5, <1>14 DEF SetStopped, Returned, Switch, Stop, AppTypes
  <2> QED
    BY <1>1, <1>2, <1>14, <2>1, TypesKept, TypePartsPrime DEF SetStopped, Returned, Switch, Stop
<1>15. CASE Pause
  <2>1. AppTypes'
    BY <1>1, <1>3, <1>4, <1>5, <1>15 DEF Pause, AppTypes
  <2>2. WorkerTypes'
    BY <1>3, <1>15 DEF Pause, WorkerTypes, scan
  <2>3. OutTypes'
    BY <1>4, <1>15 DEF Pause, OutTypes
  <2>4. QueueTypes'
    BY <1>3, <1>5, <1>15 DEF Pause, Active, QueueTypes
  <2>5. SourceTypes'
    BY <1>3, <1>4, <1>5, <1>15 DEF Pause, Active, SourceTypes
  <2> QED
    BY <2>1, <2>2, <2>3, <2>4, <2>5, TypePartsPrime
<1>16. ASSUME NEW p \in Pins, Receive(p) \/ EndOfStream(p)
       PROVE  TypeOK'
  <2>1. PICK rt \in 0 .. MaxTime, kind \in Kinds :
          /\ Push(p, rt, kind)
          /\ [run |-> run, n |-> sent[p] + 1, rt |-> rt, kind |-> kind] \in Packets
          /\ rtMaxStart' = [rtMaxStart EXCEPT ![p] = IF rt > @ THEN rt ELSE @]
    BY <1>2, <1>16, Pushed
  <2> DEFINE packet == [run |-> run, n |-> sent[p] + 1, rt |-> rt, kind |-> kind]
  <2>2. /\ hand' = [hand EXCEPT ![p] = packet] /\ packet \in Packets
        /\ sent' = [sent EXCEPT ![p] = @ + 1] /\ upc' = [upc EXCEPT ![p] = "wait"]
    BY <2>1 DEF Push
  <2> HIDE DEF packet
  <2>3. hand' \in [Pins -> Packets \cup {<<>>}]
    BY <1>3, <2>2 DEF SourceTypes
  <2>4. sent' \in [Pins -> Nat] /\ upc' \in [Pins -> {"idle", "wait", "add"}]
    BY <1>3, <2>2 DEF SourceTypes
  <2>5. rtMaxStart' \in [Pins -> 0 .. MaxTime]
    BY <1>3, <2>1 DEF SourceTypes
  <2>6. SourceTypes'
    BY <1>5, <2>3, <2>4, <2>5 DEF SourceTypes
  <2> QED
    BY <1>1, <1>2, <1>16, <2>6, TypesKept, TypePartsPrime DEF Receive, EndOfStream, avars
<1>17. ASSUME NEW p \in Pins, PushWait(p) \/ GiveUp(p)
       PROVE  TypeOK'
  <2>1. SourceTypes'
    BY <1>3, <1>5, <1>17 DEF PushWait, GiveUp, Leave, SourceTypes
  <2> QED
    BY <1>1, <1>2, <1>17, <2>1, TypesKept, TypePartsPrime DEF PushWait, GiveUp, avars
<1>18. ASSUME NEW p \in Pins, PushAdd(p)
       PROVE  TypeOK'
  <2>1. queue' \in [Pins -> Seq(Packets)]
    BY <1>2, <1>18, Added
  <2>2. accept' \in [Pins -> BOOLEAN]
    BY <1>3, <1>18 DEF PushAdd, ResetAccept, QueueTypes
  <2>3. QueueTypes'
    BY <1>5, <2>1, <2>2 DEF QueueTypes
  <2>4. SourceTypes'
    BY <1>3, <1>5, <1>18 DEF PushAdd, Leave, SourceTypes
  <2> QED
    BY <1>1, <1>2, <1>18, <2>3, <2>4, TypesKept, TypePartsPrime DEF PushAdd, avars
<1>19. CASE UNCHANGED vars
  BY <1>1, <1>2, <1>19, TypesKept, TypePartsPrime DEF vars, avars
<1> QED
  BY <1>6, <1>7, <1>8, <1>9, <1>10, <1>11, <1>12, <1>13, <1>14, <1>15, <1>16, <1>17,
     <1>18, <1>19 DEF Next, Worker, App, Source

------------------------------------------------------------------------------
\* CallWorker and the muxing thread.

LEMMA HandshakeStep == Inv /\ [Next]_vars => Handshake'
<1> SUFFICES ASSUME Inv, [Next]_vars PROVE Handshake'
  OBVIOUS
<1>1. Handshake /\ run \in Nat
  BY GraphFacts, TypeParts DEF Inv, AppTypes
<1>2. CASE GetRequest
  BY <1>1, <1>2 DEF GetRequest, Handshake, avars, out
<1>3. CASE Loop \/ Scan \/ Choose \/ Signal
  BY <1>1, <1>3 DEF Loop, Scan, Choose, Signal, ScanFrom, Handshake, avars, out
<1>4. CASE Pop \/ Finish
  BY <1>1, <1>4 DEF Pop, Write, Finish, Handshake, avars, out
<1>5. CASE Inactive \/ SetStopped \/ Returned
  BY <1>1, <1>5 DEF Inactive, SetStopped, Returned, Handshake, wvars, out
<1>6. CASE Pause
  BY <1>1, <1>6 DEF Pause, Handshake
<1>7. CASE Switch \/ Stop
  BY <1>1, <1>7 DEF Switch, Stop, Handshake, wvars, out
<1>8. ASSUME NEW p \in Pins, Source(p) \/ GiveUp(p)
      PROVE  Handshake'
  BY <1>1, <1>8 DEF Source, Receive, EndOfStream, PushWait, PushAdd, GiveUp, Handshake, avars,
     wvars, out
<1>9. CASE UNCHANGED vars
  BY <1>1, <1>9 DEF vars, avars, wvars, out, Handshake
<1> QED
  BY <1>2, <1>3, <1>4, <1>5, <1>6, <1>7, <1>8, <1>9 DEF Next, Worker, App

\* The graph streams from the start of a run only.
LEMMA StreamingStep ==
    ASSUME Handshake, [Next]_vars, ~Pause, Streaming'
    PROVE  Streaming /\ run' = run /\ ~Inactive /\ ~Stop
<1>1. run' = run
  BY DEF Next, Worker, App, Source, GetRequest, Loop, Scan, Choose, Signal, Pop, Finish,
         Inactive, SetStopped, Returned, Switch, Stop, Receive, EndOfStream, PushWait,
         PushAdd, GiveUp, vars, avars
<1>2. ~Inactive /\ ~Stop
  BY DEF Inactive, Stop, Streaming
<1>3. CASE UNCHANGED <<state, apc>>
  BY <1>1, <1>2, <1>3 DEF Streaming
<1>4. CASE SetStopped \/ Returned \/ Switch
  BY <1>1, <1>2, <1>4 DEF SetStopped, Returned, Switch, Streaming, Handshake
<1> QED
  BY <1>1, <1>2, <1>3, <1>4
     DEF Next, Worker, App, Source, GetRequest, Loop, Scan, Choose, Signal, Pop, Finish,
         Receive, EndOfStream, PushWait, PushAdd, GiveUp, vars, avars

------------------------------------------------------------------------------
\* Whose packets there are.

LEMMA OwnedStep == Inv /\ [Next]_vars => Owned'
<1> SUFFICES ASSUME Inv, [Next]_vars PROVE Owned'
  OBVIOUS
<1>1. TypeOK /\ Handshake /\ Owned /\ Scanned
  BY DEF Inv
<1>2. Packets' = Packets /\ run \in Nat
  BY <1>1, GraphKept, GraphFacts, TypesKept, TypeParts DEF AppTypes
<1>3. \A p \in Pins : \A i \in DOMAIN queue[p] : queue[p][i] \in Packets /\ queue[p][i].run \in Nat
  <2> SUFFICES ASSUME NEW p \in Pins, NEW i \in DOMAIN queue[p]
               PROVE  queue[p][i] \in Packets /\ queue[p][i].run \in Nat
    OBVIOUS
  <2>1. queue[p] \in Seq(Packets)
    BY <1>1, TypeParts DEF QueueTypes
  <2>2. queue[p][i] \in Packets
    BY <2>1, LenProperties, ElementOfSeq
  <2> QED
    BY <2>2, <1>1, GraphFacts, TypeParts DEF Packets, AppTypes
<1>4. ASSUME UNCHANGED <<run, queue, upc, hand>>
      PROVE  Owned'
  BY <1>1, <1>2, <1>4 DEF Owned
<1>5. CASE Pop
  <2>1. CASE queue[best] = <<>>
    BY <1>4, <1>5, <2>1 DEF Pop, avars, uvars
  <2>2. CASE queue[best] # <<>>
    <3>1. UNCHANGED <<run, upc, hand>>
      BY <1>5 DEF Pop, avars, uvars
    <3>2. /\ \A p \in Pins : p # best => queue'[p] = queue[p]
          /\ \A i \in DOMAIN queue'[best] :
               i + 1 \in DOMAIN queue[best] /\ queue'[best][i] = queue[best][i + 1]
      BY <1>1, <1>5, <2>2, Popped
    <3>3. ASSUME NEW p \in Pins, NEW i \in DOMAIN queue'[p]
          PROVE  queue'[p][i].run <= run
      BY <1>1, <3>2 DEF Owned
    <3> QED
      BY <1>1, <1>2, <3>1, <3>3 DEF Owned
  <2> QED
    BY <2>1, <2>2
<1>6. CASE Inactive
  <2>1. UNCHANGED <<run, upc, hand>>
    BY <1>6 DEF Inactive, uvars
  <2>2. ASSUME NEW p \in Pins, NEW i \in DOMAIN queue'[p]
        PROVE  queue'[p][i].run <= run
    <3>1. queue'[p] = queue[p] \/ queue'[p] = <<>>
      BY <1>1, <1>6, TypeParts DEF Inactive, QueueTypes
    <3>2. DOMAIN <<>> = {}
      OBVIOUS
    <3> QED
      BY <1>1, <2>2, <3>1, <3>2 DEF Owned
  <2> QED
    BY <1>1, <1>2, <2>1, <2>2 DEF Owned
<1>7. CASE Pause
  BY <1>1, <1>2, <1>3, <1>7 DEF Pause, Owned
<1>8. ASSUME NEW p \in Pins, Receive(p) \/ EndOfStream(p)
      PROVE  Owned'
  <2>1. PICK rt \in 0 .. MaxTime, kind \in Kinds :
          /\ Push(p, rt, kind)
          /\ [run |-> run, n |-> sent[p] + 1, rt |-> rt, kind |-> kind] \in Packets
    BY <1>1, <1>8, Pushed
  <2> DEFINE packet == [run |-> run, n |-> sent[p] + 1, rt |-> rt, kind |-> kind]
  <2>2. packet \in Packets /\ packet.run = run /\ hand' = [hand EXCEPT ![p] = packet]
        /\ upc' = [upc EXCEPT ![p] = "wait"]
    BY <2>1 DEF Push
  <2> HIDE DEF packet
  <2>3. UNCHANGED <<run, queue>>
    BY <1>8 DEF Receive, EndOfStream, avars, pins
  <2>4. ASSUME NEW q \in Pins, upc'[q] # "idle"
        PROVE  hand'[q] \in Packets /\ hand'[q].run <= run
    BY <1>1, <1>2, <2>2, <2>4, TypeParts DEF Owned, SourceTypes
  <2> QED
    BY <1>1, <1>2, <2>3, <2>4 DEF Owned
<1>9. ASSUME NEW p \in Pins, PushWait(p) \/ GiveUp(p)
      PROVE  Owned'
  <2>1. UNCHANGED <<run, queue>>
    BY <1>9 DEF PushWait, GiveUp, avars, pins
  <2>2. ASSUME NEW q \in Pins, upc'[q] # "idle"
        PROVE  upc[q] # "idle" /\ hand'[q] = hand[q]
    BY <1>1, <1>9, <2>2, TypeParts DEF PushWait, GiveUp, Leave, SourceTypes
  <2> QED
    BY <1>1, <1>2, <2>1, <2>2 DEF Owned
<1>10. ASSUME NEW p \in Pins, PushAdd(p)
       PROVE  Owned'
  <2>1. run' = run
    BY <1>10 DEF PushAdd, avars
  <2>2. ASSUME NEW q \in Pins, upc'[q] # "idle"
        PROVE  upc[q] # "idle" /\ hand'[q] = hand[q]
    BY <1>1, <1>10, <2>2, Added, TypeParts DEF SourceTypes
  <2>3. ASSUME NEW q \in Pins, NEW i \in DOMAIN queue'[q]
        PROVE  queue'[q][i].run <= run
    <3>1. CASE q # p
      BY <1>1, <1>10, <3>1, Added DEF Owned
    <3>2. CASE q = p
      <4>1. /\ Len(queue[p]) \in Nat
            /\ DOMAIN queue[p] = 1 .. Len(queue[p]) /\ DOMAIN queue'[p] = 1 .. Len(queue[p]) + 1
            /\ \A j \in DOMAIN queue[p] : queue'[p][j] = queue[p][j]
            /\ queue'[p][Len(queue[p]) + 1] = hand[p] /\ upc[p] # "idle"
        BY <1>1, <1>10, Added
      <4>2. i \in DOMAIN queue[p] \/ i = Len(queue[p]) + 1
        BY <3>2, <4>1
      <4> QED
        BY <1>1, <3>2, <4>1, <4>2 DEF Owned
    <3> QED
      BY <3>1, <3>2
  <2> QED
    BY <1>1, <1>2, <2>1, <2>2, <2>3 DEF Owned
<1> QED
  BY <1>4, <1>5, <1>6, <1>7, <1>8, <1>9, <1>10
     DEF Next, Worker, App, Source, GetRequest, Loop, Scan, Choose, Signal, Finish,
         SetStopped, Returned, Switch, Stop, vars, avars, pins, uvars

------------------------------------------------------------------------------
\* GetPacket's scan.

LEMMA ScannedKept ==
    ASSUME Scanned, UNCHANGED <<wpc, wpin, active, scan>>, Streaming' => Streaming, active \in SUBSET Pins,
           Streaming' => \A p \in Pins : queue[p] # <<>> =>
                           queue'[p] # <<>> /\ Head(queue'[p]) = Head(queue[p])
    PROVE  Scanned'
<1>1. UNCHANGED <<missing, best, rtMin>>
  BY DEF scan
<1>2. ASSUME NEW p \in Pins, Streaming', Shown(p)
      PROVE  Shown(p)'
  BY <1>1, <1>2 DEF Shown
<1>3. ASSUME best \in active, Streaming', Smallest
      PROVE  Smallest'
  BY <1>1, <1>3 DEF Smallest
<1>4. ASSUME NEW M \in SUBSET active, SeenBut(M)
      PROVE  SeenBut(M)'
  BY <1>1, <1>2, <1>4 DEF SeenBut
<1>5. ASSUME wpc = "scan"
      PROVE  /\ \E M \in SUBSET active' : SeenBut(M)'
             /\ best' # 0 => best' \in active' /\ (Streaming' => Smallest')
  BY <1>1, <1>3, <1>4, <1>5 DEF Scanned
<1>6. ASSUME wpc = "pop"
      PROVE  /\ best' \in active'
             /\ Streaming' => \/ queue'[best'] # <<>> /\ Untimed(Head(queue'[best']))
                              \/ Smallest' /\ \A p \in active' : Shown(p)'
  <2>1. best' = best /\ best \in active
    BY <1>1, <1>6 DEF Scanned
  <2>2. ASSUME Streaming'
        PROVE  \/ queue'[best] # <<>> /\ Untimed(Head(queue'[best]))
               \/ Smallest' /\ \A p \in active' : Shown(p)'
    <3>1. CASE queue[best] # <<>> /\ Untimed(Head(queue[best]))
      BY <2>1, <2>2, <3>1
    <3>2. CASE Smallest /\ \A p \in active : Shown(p)
      BY <1>2, <1>3, <2>1, <2>2, <3>2
    <3> QED
      BY <1>6, <2>2, <3>1, <3>2 DEF Scanned
  <2> QED
    BY <2>1, <2>2
<1> QED
  BY <1>5, <1>6 DEF Scanned

LEMMA ScannedStep == Inv /\ [Next]_vars => Scanned'
<1> SUFFICES ASSUME Inv, [Next]_vars PROVE Scanned'
  OBVIOUS
<1>1. TypeOK /\ Handshake /\ Owned /\ Scanned
  BY DEF Inv
<1>2. AppTypes /\ WorkerTypes /\ OutTypes /\ QueueTypes /\ SourceTypes
  BY <1>1, TypeParts
<1>3. NumPins \in Nat \ {0} /\ MaxTime \in Nat \ {0} /\ active \in SUBSET Pins
  BY <1>2, GraphFacts DEF AppTypes, WorkerTypes
<1>4. ASSUME wpc' \notin {"scan", "pop"}
      PROVE  Scanned'
  BY <1>4 DEF Scanned
<1>5. CASE Loop
  <2>1. CASE wpc' = "finish"
    BY <1>4, <2>1
  <2>2. CASE wpc' = "scan" /\ active' = active /\ missing' = Cardinality(active) /\ best' = 0
    <3>1. PICK M : M = active
      OBVIOUS
    <3>2. M \in SUBSET active' /\ SeenBut(M)'
      BY <2>2, <3>1 DEF SeenBut
    <3> QED
      BY <2>2, <3>2 DEF Scanned
  <2> QED
    BY <1>5, <2>1, <2>2 DEF Loop, ScanFrom, Counted
<1>6. CASE Scan
  <2>1. /\ wpin \in Pins /\ UNCHANGED <<state, apc, active, queue>>
        /\ wpc = "scan"
    BY <1>6 DEF Scan, avars, pins
  <2>2. PICK M \in SUBSET active : SeenBut(M)
    BY <1>1, <2>1 DEF Scanned
  <2>3. Streaming' <=> Streaming
    BY <2>1 DEF Streaming
  <2>4. \A p \in active : p \in Nat
    BY <1>3 DEF Pins
  <2>5. wpin \in Nat
    BY <1>3, <2>1 DEF Pins
  <2>6. CASE wpin \notin active \/ queue[wpin] = <<>>
    <3>1. wpc' = "scan" /\ wpin' = wpin + 1 /\ UNCHANGED <<missing, best, rtMin>>
      BY <1>6, <2>6 DEF Scan, ScanFrom, scan
    <3>2. SeenBut(M)'
      <4>1. ASSUME NEW p \in active, p >= wpin + 1
            PROVE  p \in M
        BY <2>2, <2>4, <2>5, <4>1 DEF SeenBut
      <4>2. ASSUME Streaming, NEW p \in active \ M
            PROVE  Shown(p)'
        BY <2>1, <2>2, <3>1, <4>2 DEF SeenBut, Shown
      <4> QED
        BY <2>1, <2>2, <2>3, <3>1, <4>1, <4>2 DEF SeenBut
    <3>3. best' # 0 => best' \in active' /\ (Streaming' => Smallest')
      BY <1>1, <2>1, <2>3, <3>1 DEF Scanned, Smallest
    <3> QED
      BY <2>1, <3>1, <3>2, <3>3 DEF Scanned
  <2>7. CASE wpin \in active /\ queue[wpin] # <<>>
    <3> DEFINE head == Head(queue[wpin])
    <3>1. head \in Packets
      BY <1>2, <2>1, <2>7, HeadFacts DEF QueueTypes
    <3>2. head.rt \in Nat /\ rtMin \in Nat
      BY <1>2, <1>3, <3>1 DEF Packets, WorkerTypes
    <3>3. CASE Untimed(head)
      <4>1. best' = wpin /\ wpc' = "pop"
        BY <1>6, <2>7, <3>3 DEF Scan
      <4> QED
        BY <2>1, <2>7, <3>3, <4>1 DEF Scanned
    <3>4. CASE ~Untimed(head)
      <4>1. /\ wpc' = "scan" /\ wpin' = wpin + 1 /\ missing' = missing - 1
            /\ IF head.rt < rtMin THEN best' = wpin /\ rtMin' = head.rt
                                  ELSE UNCHANGED <<best, rtMin>>
        BY <1>6, <2>7, <3>4 DEF Scan, ScanFrom
      <4>9. PICK N : N = M \ {wpin}
        OBVIOUS
      <4>2. wpin \in M
        BY <2>2, <2>5, <2>7 DEF SeenBut
      <4>3. missing' = Cardinality(N)
        <5>1. IsFiniteSet(M) /\ missing = Cardinality(M)
          BY <1>3, <2>2, FinitePins DEF SeenBut
        <5> QED
          BY <4>1, <4>2, <4>9, <5>1, FS_RemoveElement
      <4>4. ASSUME NEW p \in active, p >= wpin + 1
            PROVE  p \in N
        BY <2>2, <2>4, <2>5, <4>4, <4>9 DEF SeenBut
      <4>5. ASSUME Streaming, NEW p \in active \ N
            PROVE  Shown(p)'
        <5>1. CASE p = wpin
          BY <2>1, <2>7, <3>2, <3>4, <4>1, <5>1 DEF Shown
        <5>2. CASE p # wpin
          <6>1. Shown(p)
            BY <2>2, <4>5, <4>9, <5>2 DEF SeenBut
          <6>2. Head(queue[p]).rt \in Nat
            <7>1. p \in Pins /\ queue[p] # <<>>
              BY <1>3, <6>1 DEF Shown
            <7>2. Head(queue[p]) \in Packets
              BY <1>2, <7>1, HeadFacts DEF QueueTypes
            <7> QED
              BY <1>3, <7>2 DEF Packets
          <6> HIDE DEF head
          <6> QED
            BY <2>1, <3>2, <4>1, <6>1, <6>2 DEF Shown
        <5> QED
          BY <5>1, <5>2
      <4>6. SeenBut(N)'
        BY <2>1, <2>3, <4>1, <4>3, <4>4, <4>5 DEF SeenBut
      <4>7. N \in SUBSET active'
        BY <2>1, <4>9
      <4>8. best' # 0 => best' \in active' /\ (Streaming' => Smallest')
        <5>1. CASE head.rt < rtMin
          BY <2>1, <2>7, <4>1, <5>1 DEF Smallest
        <5>2. CASE ~(head.rt < rtMin)
          BY <1>1, <2>1, <2>3, <4>1, <5>2 DEF Smallest, Scanned
        <5> QED
          BY <5>1, <5>2
      <4> QED
        BY <4>1, <4>6, <4>7, <4>8 DEF Scanned
    <3> QED
      BY <3>3, <3>4
  <2> QED
    BY <2>6, <2>7
<1>7. CASE Choose
  <2>1. wpc = "scan" /\ wpin \notin Pins /\ UNCHANGED <<state, apc, active, queue>>
    BY <1>7 DEF Choose, avars, pins
  <2>2. CASE ~Ready
    BY <1>4, <1>7, <2>2 DEF Choose
  <2>3. CASE Ready
    <3>1. wpc' = "pop" /\ UNCHANGED <<missing, best, rtMin>> /\ best # 0 /\ missing = 0
      BY <1>7, <2>3 DEF Choose, scan, Ready
    <3>2. PICK M \in SUBSET active : SeenBut(M)
      BY <1>1, <2>1 DEF Scanned
    <3>3. M = {}
      BY <1>3, <3>1, <3>2, FinitePins DEF SeenBut
    <3>4. ASSUME Streaming'
          PROVE  Smallest' /\ \A p \in active' : Shown(p)'
      <4>1. Streaming /\ \A p \in active : Shown(p)
        BY <2>1, <3>2, <3>3, <3>4 DEF SeenBut, Streaming
      <4>2. Smallest
        BY <1>1, <2>1, <3>1, <4>1 DEF Scanned
      <4> QED
        BY <2>1, <3>1, <4>1, <4>2 DEF Smallest, Shown
    <3>5. best' \in active'
      BY <1>1, <2>1, <3>1 DEF Scanned
    <3> QED
      BY <3>1, <3>4, <3>5 DEF Scanned
  <2> QED
    BY <2>2, <2>3
<1>8. CASE GetRequest \/ Signal \/ Pop \/ Finish \/ Pause
  BY <1>4, <1>8 DEF GetRequest, Signal, ScanFrom, Pop, Write, Finish, Pause
<1>9. ASSUME ~Worker, ~Pause
      PROVE  Scanned'
  <2>1. UNCHANGED <<wpc, wpin, active, scan>>
    BY <1>9 DEF Next, App, Source, Inactive, SetStopped, Returned, Switch, Stop, Receive,
       EndOfStream, PushWait, PushAdd, GiveUp, vars, wvars
  <2>2. Streaming' => Streaming
    BY <1>1, <1>9, StreamingStep
  <2>3. ASSUME Streaming', NEW p \in Pins, queue[p] # <<>>
        PROVE  queue'[p] # <<>> /\ Head(queue'[p]) = Head(queue[p])
    <3>1. CASE queue' = queue
      BY <2>3, <3>1
    <3>2. CASE Inactive
      BY <1>1, <1>9, <2>3, <3>2, StreamingStep
    <3>3. ASSUME NEW q \in Pins, PushAdd(q)
          PROVE  queue'[p] # <<>> /\ Head(queue'[p]) = Head(queue[p])
      <4>1. CASE p # q
        BY <1>1, <2>3, <3>3, <4>1, Added
      <4>2. CASE p = q
        <5>1. /\ queue[p] \in Seq(Packets) /\ queue'[p] \in Seq(Packets) /\ queue'[p] # <<>>
              /\ \A i \in DOMAIN queue[p] : queue'[p][i] = queue[p][i]
          BY <1>1, <1>2, <3>3, <4>2, Added DEF QueueTypes
        <5>2. Head(queue[p]) = queue[p][1] /\ 1 \in DOMAIN queue[p]
          BY <2>3, <5>1, HeadFacts
        <5>3. Head(queue'[p]) = queue'[p][1]
          BY <5>1, HeadFacts
        <5> QED
          BY <5>1, <5>2, <5>3
      <4> QED
        BY <4>1, <4>2
    <3> QED
      BY <1>9, <3>1, <3>2, <3>3
         DEF Next, App, Source, SetStopped, Returned, Switch, Stop, Receive,
             EndOfStream, PushWait, GiveUp, vars, pins
  <2> QED
    BY <1>1, <1>3, <2>1, <2>2, <2>3, ScannedKept
<1> QED
  BY <1>5, <1>6, <1>7, <1>8, <1>9 DEF Worker

------------------------------------------------------------------------------
\* The packets of a run, in turn.

LEMMA Elements ==
    ASSUME TypeOK, NEW p \in Pins
    PROVE  /\ Len(queue[p]) \in Nat /\ DOMAIN queue[p] = 1 .. Len(queue[p])
           /\ \A i \in DOMAIN queue[p] :
                /\ i \in Nat /\ queue[p][i] \in Packets
                /\ queue[p][i].run \in Nat /\ queue[p][i].n \in Nat /\ queue[p][i].rt \in Nat
           /\ lastOut[p] \in Nat /\ sent[p] \in Nat /\ Eos(p) \in Nat /\ Held(p) \in {0, 1} /\ Held(p) \in Nat
           /\ run \in Nat /\ lastSync \in Nat /\ rtMaxStart[p] \in Nat
<1>1. queue[p] \in Seq(Packets) /\ MaxTime \in Nat /\ MaxRuns \in Nat /\ Eos(p) \in Nat
  BY GraphFacts, TypeParts DEF QueueTypes, AppTypes
<1>2. Len(queue[p]) \in Nat /\ DOMAIN queue[p] = 1 .. Len(queue[p])
  BY <1>1, LenProperties
<1>3. \A i \in DOMAIN queue[p] : i \in Nat /\ queue[p][i] \in Packets
  BY <1>1, <1>2, ElementOfSeq
<1>4. \A packet \in Packets : packet.run \in Nat /\ packet.n \in Nat /\ packet.rt \in Nat
  BY <1>1 DEF Packets
<1>5. lastOut[p] \in Nat /\ sent[p] \in Nat /\ run \in Nat /\ lastSync \in Nat /\ rtMaxStart[p] \in Nat
  BY <1>1, TypeParts DEF OutTypes, SourceTypes, AppTypes
<1> QED
  BY <1>1, <1>2, <1>3, <1>4, <1>5 DEF Held

LEMMA LineKept ==
    ASSUME NEW p \in Pins, Line(p), graph' = graph, run' = run,
           queue'[p] = queue[p], lastOut'[p] = lastOut[p], sent'[p] = sent[p],
           upc'[p] = "idle" <=> upc[p] = "idle", upc[p] # "idle" => hand'[p] = hand[p]
    PROVE  Line(p)'
<1>1. Eos(p)' = Eos(p) /\ Held(p)' = Held(p)
  BY DEF Eos, Held
<1>2. Left(p)' = Left(p)
  BY <1>1 DEF Left
<1> QED
  BY <1>1, <1>2 DEF Line, Numbered

\* The head of a queue, once the last run's packets are out, is the next packet.
LEMMA NextInLine ==
    ASSUME TypeOK, NEW p \in Pins, Line(p), 1 \in DOMAIN queue[p], queue[p][1].run = run
    PROVE  Left(p) = 0 /\ Numbered(queue[p][1], p, lastOut[p] + 1)
<1>1. Left(p) \in Nat
  BY Elements DEF Line, Left
<1>2. ~(1 <= Left(p))
  BY Elements DEF Line
<1>3. Left(p) = 0
  BY <1>1, <1>2
<1>4. Numbered(queue[p][1], p, lastOut[p] + 1 - Left(p))
  BY <1>2 DEF Line
<1> QED
  BY <1>3, <1>4, Elements

\* ... and every other packet is of this run then.
LEMMA FreshLine ==
    ASSUME TypeOK, NEW p \in Pins, Line(p), 1 \in DOMAIN queue[p], queue[p][1].run = run
    PROVE  Fresh(p)
<1>1. Left(p) = 0
  BY NextInLine
<1> QED
  BY <1>1, Elements DEF Line, Fresh, Numbered

LEMMA LinePopped ==
    ASSUME Inv, Streaming, Pop, queue[best] # <<>>, NEW p \in Pins, graph' = graph
    PROVE  Line(p)'
<1>1. TypeOK /\ Scanned /\ Line(p) /\ best \in Pins
  BY Popped DEF Inv, Stream
<1>2. UNCHANGED <<run, upc, hand, sent>>
  BY DEF Pop, avars, uvars
<1>3. Mux(queue[best][1]) /\ lastOut \in [Pins -> Nat]
  BY <1>1, Popped, TypeParts DEF OutTypes
<1>4. CASE p # best
  <2>1. lastOut'[p] = lastOut[p] /\ queue'[p] = queue[p]
    BY <1>1, <1>3, <1>4, Popped DEF Mux, out
  <2> QED
    BY <1>1, <1>2, <2>1, LineKept
<1>5. CASE p = best
  <2> DEFINE head == queue[p][1]
  <2>1. /\ 1 \in DOMAIN queue[p] /\ Len(queue'[p]) = Len(queue[p]) - 1
        /\ \A i \in DOMAIN queue'[p] :
             i \in Nat \ {0} /\ i + 1 \in DOMAIN queue[p] /\ queue'[p][i] = queue[p][i + 1]
    BY <1>1, <1>5, Popped
  <2>2. Eos(p)' = Eos(p) /\ Held(p)' = Held(p) /\ sent'[p] = sent[p]
    BY <1>2 DEF Eos, Held
  <2>3. /\ Len(queue[p]) \in Nat /\ DOMAIN queue[p] = 1 .. Len(queue[p])
        /\ lastOut[p] \in Nat /\ sent[p] \in Nat /\ Eos(p) \in Nat /\ Held(p) \in {0, 1} /\ Held(p) \in Nat
    BY <1>1, Elements
  <2>4. CASE head.run = run
    <3>1. Left(p) = 0 /\ Numbered(head, p, lastOut[p] + 1)
      BY <1>1, <2>1, <2>4, NextInLine
    <3>2. lastOut'[p] = lastOut[p] + 1
      BY <1>3, <1>5, <2>4, <3>1 DEF Mux, Numbered
    <3>3. Left(p)' = 0
      <4>1. PICK l, h, o, s \in Nat :
              l = Len(queue[p]) /\ h = Held(p) /\ o = lastOut[p] /\ s = sent[p]
        BY <2>3
      <4>2. l + h + o - s = 0
        BY <3>1, <4>1 DEF Left
      <4>3. (l - 1) + h + (o + 1) - s = 0
        BY <4>2
      <4> QED
        BY <2>1, <2>2, <3>2, <4>1, <4>3 DEF Left
    <3>4. lastOut[p] + 1 + Held(p) <= sent[p]
      BY <2>1, <2>3, <3>1 DEF Left
    <3>5. ASSUME NEW i \in DOMAIN queue'[p]
          PROVE  /\ ~(i <= 0)
                 /\ Numbered(queue'[p][i], p, lastOut'[p] + i - 0)
      <4>1. i \in Nat \ {0} /\ i + 1 \in DOMAIN queue[p] /\ queue'[p][i] = queue[p][i + 1]
        BY <2>1
      <4>2. ~(i <= 0) /\ ~(i + 1 <= 0)
        BY <4>1
      <4>3. Numbered(queue[p][i + 1], p, lastOut[p] + (i + 1) - 0)
        BY <1>1, <3>1, <4>1, <4>2 DEF Line
      <4>4. lastOut'[p] + i - 0 = lastOut[p] + (i + 1) - 0
        BY <2>3, <3>2, <4>1
      <4> QED
        BY <4>1, <4>2, <4>3, <4>4
    <3>6. upc[p] # "idle" => Numbered(hand[p], p, sent[p])
      BY <1>1 DEF Line
    <3> HIDE DEF head
    <3> QED
      BY <1>1, <1>2, <2>2, <3>2, <3>3, <3>4, <3>5, <3>6 DEF Line, Numbered
  <2>5. CASE head.run # run
    <3>1. lastOut'[p] = lastOut[p]
      BY <1>3, <1>5, <2>5 DEF Mux, out
    <3>2. Left(p)' = Left(p) - 1
      <4>1. PICK l, h, o, s \in Nat :
              l = Len(queue[p]) /\ h = Held(p) /\ o = lastOut[p] /\ s = sent[p]
        BY <2>3
      <4>2. (l - 1) + h + o - s = (l + h + o - s) - 1
        OBVIOUS
      <4> QED
        BY <2>1, <2>2, <3>1, <4>1, <4>2 DEF Left
    <3>3. Left(p) \in Nat /\ Left(p) >= 1
      <4>1. Left(p) \in Int /\ Left(p) >= 0
        BY <1>1, <2>3 DEF Left, Line
      <4>2. 1 <= Left(p)
        BY <1>1, <2>1, <2>5 DEF Line, Numbered
      <4> QED
        BY <4>1, <4>2
    <3>4. ASSUME NEW i \in DOMAIN queue'[p]
          PROVE  IF i <= Left(p) - 1
                 THEN queue'[p][i].run < run
                 ELSE Numbered(queue'[p][i], p, lastOut[p] + i - (Left(p) - 1))
      <4>1. IF i + 1 <= Left(p)
            THEN queue[p][i + 1].run < run
            ELSE Numbered(queue[p][i + 1], p, lastOut[p] + (i + 1) - Left(p))
        BY <1>1, <2>1 DEF Line
      <4>2. lastOut[p] + (i + 1) - Left(p) = lastOut[p] + i - (Left(p) - 1)
        BY <2>1, <2>3, <3>3
      <4>3. i + 1 <= Left(p) <=> i <= Left(p) - 1
        BY <2>1, <3>3
      <4> QED
        BY <2>1, <4>1, <4>2, <4>3
    <3>5. upc[p] # "idle" => Numbered(hand[p], p, sent[p])
      BY <1>1 DEF Line
    <3>6. sent[p] <= Eos(p) /\ lastOut[p] + Held(p) <= sent[p] /\ Left(p) - 1 >= 0
      BY <1>1, <3>3 DEF Line
    <3> HIDE DEF head
    <3> QED
      BY <1>2, <2>2, <3>1, <3>2, <3>4, <3>5, <3>6 DEF Line, Numbered
  <2> QED
    BY <2>4, <2>5
<1> QED
  BY <1>4, <1>5

LEMMA LinePaused ==
    ASSUME Inv, Pause, NEW p \in Pins, graph' = graph
    PROVE  Line(p)'
<1>1. TypeOK /\ Owned
  BY DEF Inv
<1>2. /\ upc' = upc /\ upc[p] = "idle" /\ queue' = queue /\ sent'[p] = 0 /\ lastOut'[p] = 0
      /\ run' = run + 1
  BY DEF Pause
<1>3. Held(p)' = 0 /\ Left(p)' = Len(queue[p]) /\ Eos(p)' = Eos(p)
  BY <1>1, <1>2, Elements DEF Held, Left, Eos
<1>4. ASSUME NEW i \in DOMAIN queue[p]
      PROVE  i <= Len(queue[p]) /\ queue[p][i].run < run + 1
  BY <1>1, Elements DEF Owned
<1> QED
  BY <1>1, <1>2, <1>3, <1>4, Elements DEF Line

LEMMA LinePushed ==
    ASSUME Inv, Streaming, NEW q \in Pins, Receive(q) \/ EndOfStream(q), NEW p \in Pins,
           graph' = graph, run' = run
    PROVE  Line(p)'
<1>1. TypeOK /\ Handshake /\ Line(p)
  BY DEF Inv, Stream
<1>2. UNCHANGED <<queue, lastOut>>
  BY DEF Receive, EndOfStream, pins, out
<1>3. PICK rt \in 0 .. MaxTime, kind \in Kinds :
        /\ Push(q, rt, kind) /\ upc[q] = "idle"
        /\ sent[q] + 1 <= Eos(q) /\ (kind = "eos" <=> sent[q] + 1 = Eos(q))
  BY <1>1, Pushed
<1>4. SourceTypes
  BY <1>1, TypeParts
<1>5. CASE p # q
  <2>1. sent'[p] = sent[p] /\ upc'[p] = upc[p] /\ hand'[p] = hand[p]
    BY <1>3, <1>4, <1>5 DEF Push, SourceTypes
  <2> QED
    BY <1>1, <1>2, <2>1, LineKept
<1>6. CASE p = q
  <2>1. /\ sent'[p] = sent[p] + 1 /\ upc'[p] = "wait"
        /\ hand'[p].run = run /\ hand'[p].n = sent[p] + 1 /\ hand'[p].kind = kind
    BY <1>3, <1>4, <1>6 DEF Push, SourceTypes
  <2>2. Held(p) = 0 /\ Held(p)' = 1 /\ Eos(p)' = Eos(p)
    BY <1>3, <1>6, <2>1 DEF Held, Eos
  <2>3. Left(p)' = Left(p)
    <3>1. Len(queue[p]) \in Nat /\ lastOut[p] \in Nat /\ sent[p] \in Nat
      BY <1>1, Elements
    <3>2. Len(queue[p]) + 1 + lastOut[p] - (sent[p] + 1) = Len(queue[p]) + 0 + lastOut[p] - sent[p]
      BY <3>1
    <3> QED
      BY <1>2, <2>1, <2>2, <3>2 DEF Left
  <2>4. Numbered(hand[p], p, sent[p])'
    BY <1>3, <1>6, <2>1, <2>2 DEF Numbered
  <2>5. sent'[p] <= Eos(p) /\ lastOut[p] + 1 <= sent'[p] /\ Left(p) >= 0
    BY <1>1, <1>3, <1>6, <2>1, <2>2, Elements DEF Line
  <2>6. \A i \in DOMAIN queue[p] :
           IF i <= Left(p) THEN queue[p][i].run < run
                           ELSE Numbered(queue[p][i], p, lastOut[p] + i - Left(p))
    BY <1>1 DEF Line
  <2> QED
    BY <1>2, <2>2, <2>3, <2>4, <2>5, <2>6 DEF Line, Numbered
<1> QED
  BY <1>5, <1>6

LEMMA LineAdded ==
    ASSUME Inv, Streaming, NEW q \in Pins, PushAdd(q), NEW p \in Pins, graph' = graph, run' = run
    PROVE  Line(p)'
<1>1. TypeOK /\ Owned /\ Line(p) /\ SourceTypes
  BY TypeParts DEF Inv, Stream
<1>2. UNCHANGED <<sent, lastOut>>
  BY DEF PushAdd, Leave, out
<1>3. CASE p # q
  <2>1. upc'[p] = upc[p] /\ hand'[p] = hand[p] /\ queue'[p] = queue[p]
    BY <1>1, <1>3, Added DEF SourceTypes
  <2> QED
    BY <1>1, <1>2, <2>1, LineKept
<1>4. CASE p = q
  <2> DEFINE len == Len(queue[p])
  <2>1. /\ upc[p] # "idle" /\ upc'[p] = "idle"
        /\ Len(queue'[p]) = len + 1 /\ DOMAIN queue'[p] = 1 .. len + 1
        /\ \A i \in DOMAIN queue[p] : queue'[p][i] = queue[p][i]
        /\ queue'[p][len + 1] = hand[p]
    BY <1>1, <1>4, Added DEF SourceTypes
  <2>2. /\ len \in Nat /\ DOMAIN queue[p] = 1 .. len
        /\ lastOut[p] \in Nat /\ sent[p] \in Nat
    BY <1>1, Elements
  <2>3. Held(p) = 1 /\ Held(p)' = 0 /\ Eos(p)' = Eos(p)
    BY <2>1 DEF Held, Eos
  <2>4. Left(p)' = Left(p) /\ Left(p) = len + 1 + lastOut[p] - sent[p]
    BY <1>2, <2>1, <2>2, <2>3 DEF Left
  <2>5. sent[p] <= Eos(p) /\ lastOut[p] + 1 <= sent[p] /\ Left(p) >= 0
    BY <1>1, <2>3 DEF Line
  <2>6. Numbered(hand[p], p, sent[p])
    BY <1>1, <2>1 DEF Line
  <2>7. ASSUME NEW i \in DOMAIN queue'[p]
        PROVE  IF i <= Left(p) THEN queue'[p][i].run < run
                               ELSE Numbered(queue'[p][i], p, lastOut[p] + i - Left(p))
    <3>1. CASE i \in DOMAIN queue[p]
      BY <1>1, <2>1, <3>1 DEF Line
    <3>2. CASE i = len + 1
      <4>1. ~(i <= Left(p)) /\ lastOut[p] + i - Left(p) = sent[p]
        BY <2>2, <2>4, <2>5, <3>2
      <4> QED
        BY <2>1, <2>6, <3>2, <4>1
    <3> QED
      BY <2>1, <2>2, <3>1, <3>2
  <2> HIDE DEF len
  <2>8. sent'[p] <= Eos(p)' /\ lastOut'[p] + Held(p)' <= sent'[p] /\ Left(p)' >= 0
    BY <1>2, <2>2, <2>3, <2>4, <2>5
  <2> QED
    BY <1>2, <2>1, <2>3, <2>4, <2>7, <2>8 DEF Line, Numbered
<1> QED
  BY <1>3, <1>4

LEMMA LineStep ==
    ASSUME Inv, [Next]_vars, Streaming', NEW p \in Pins
    PROVE  Line(p)'
<1>1. graph' = graph /\ TypeOK /\ Handshake
  BY GraphKept DEF Inv
<1>2. CASE Pause
  BY <1>1, <1>2, LinePaused
<1>3. ASSUME ~Pause
      PROVE  Streaming /\ run' = run /\ ~Inactive
  BY <1>1, <1>3, StreamingStep
<1>4. ASSUME ~Pause, UNCHANGED <<queue, lastOut, sent, upc, hand>>
      PROVE  Line(p)'
  BY <1>1, <1>3, <1>4, LineKept DEF Inv, Stream
<1>5. ASSUME ~Pause, Pop
      PROVE  Line(p)'
  <2>1. CASE queue[best] = <<>>
    BY <1>4, <1>5, <2>1 DEF Pop, out, uvars
  <2>2. CASE queue[best] # <<>>
    BY <1>1, <1>3, <1>5, <2>2, LinePopped
  <2> QED
    BY <2>1, <2>2
<1>6. ASSUME ~Pause, NEW q \in Pins, Receive(q) \/ EndOfStream(q)
      PROVE  Line(p)'
  BY <1>1, <1>3, <1>6, LinePushed
<1>7. ASSUME ~Pause, NEW q \in Pins, PushAdd(q)
      PROVE  Line(p)'
  BY <1>1, <1>3, <1>7, LineAdded
<1>8. ASSUME ~Pause, NEW q \in Pins, PushWait(q) \/ GiveUp(q)
      PROVE  Line(p)'
  <2>1. state # "stopped"
    BY <1>1, <1>3, <1>8 DEF Streaming, Handshake
  <2>2. upc' = [upc EXCEPT ![q] = "add"] /\ upc[q] = "wait" /\ UNCHANGED <<queue, lastOut, sent, hand>>
    BY <1>8, <2>1 DEF PushWait, GiveUp, Leave, pins, out
  <2>3. upc'[p] = "idle" <=> upc[p] = "idle"
    BY <1>1, <2>2, TypeParts DEF SourceTypes
  <2> QED
    BY <1>1, <1>3, <1>8, <2>2, <2>3, LineKept DEF Inv, Stream
<1> QED
  BY <1>2, <1>3, <1>4, <1>5, <1>6, <1>7, <1>8
     DEF Next, Worker, App, Source, GetRequest, Loop, Scan, Choose, Signal, Finish,
         SetStopped, Returned, Switch, Stop, vars, pins, uvars, out

------------------------------------------------------------------------------
\* The start times of a pin's packets.

LEMMA HeldTime ==
    ASSUME TypeOK, Owned, NEW p \in Pins, upc[p] # "idle"
    PROVE  hand[p].rt \in Nat
<1>1. hand[p] \in Packets /\ MaxTime \in Nat
  BY GraphFacts, TypeParts DEF Owned, AppTypes
<1> QED
  BY <1>1 DEF Packets

LEMMA RisingKept ==
    ASSUME NEW p \in Pins, Rising(p), run' = run, queue'[p] = queue[p],
           rtMaxStart'[p] = rtMaxStart[p],
           upc'[p] = "idle" <=> upc[p] = "idle", upc[p] # "idle" => hand'[p] = hand[p]
    PROVE  Rising(p)'
  BY DEF Rising

LEMMA RisingPopped ==
    ASSUME Inv, Streaming, Pop, queue[best] # <<>>, NEW p \in Pins
    PROVE  Rising(p)'
<1>1. TypeOK /\ Scanned /\ Rising(p) /\ best \in Pins
  BY Popped DEF Inv, Stream
<1>2. UNCHANGED <<run, upc, hand, rtMaxStart>>
  BY DEF Pop, avars, uvars
<1>3. CASE p # best
  BY <1>1, <1>2, <1>3, Popped, RisingKept
<1>4. CASE p = best
  <2>1. \A i \in DOMAIN queue'[p] :
          i \in Nat \ {0} /\ i + 1 \in DOMAIN queue[p] /\ queue'[p][i] = queue[p][i + 1]
    BY <1>1, <1>4, Popped
  <2>2. ASSUME NEW i \in DOMAIN queue'[p], queue'[p][i].run = run
        PROVE  /\ queue'[p][i].rt <= rtMaxStart[p]
               /\ upc[p] # "idle" /\ hand[p].kind = "sync" => queue'[p][i].rt <= hand[p].rt
    BY <1>1, <2>1, <2>2 DEF Rising
  <2>3. ASSUME NEW i \in DOMAIN queue'[p], queue'[p][i].run = run,
               NEW j \in DOMAIN queue'[p], i < j, queue'[p][j].kind = "sync"
        PROVE  queue'[p][i].rt <= queue'[p][j].rt
    <3>1. i + 1 < j + 1
      BY <2>1, <2>3
    <3>2. /\ i + 1 \in DOMAIN queue[p] /\ queue'[p][i] = queue[p][i + 1]
          /\ j + 1 \in DOMAIN queue[p] /\ queue'[p][j] = queue[p][j + 1]
      BY <2>1
    <3> QED
      BY <1>1, <2>3, <3>1, <3>2 DEF Rising
  <2>4. upc[p] # "idle" => hand[p].rt <= rtMaxStart[p]
    BY <1>1 DEF Rising
  <2> QED
    BY <1>2, <2>2, <2>3, <2>4 DEF Rising
<1> QED
  BY <1>3, <1>4

LEMMA RisingPushed ==
    ASSUME Inv, Streaming, NEW q \in Pins, Receive(q) \/ EndOfStream(q), NEW p \in Pins, run' = run
    PROVE  Rising(p)'
<1>1. TypeOK /\ Handshake /\ Rising(p) /\ SourceTypes
  BY TypeParts DEF Inv, Stream
<1>2. UNCHANGED queue
  BY DEF Receive, EndOfStream, pins
<1>3. PICK rt \in 0 .. MaxTime, kind \in Kinds :
        /\ Push(q, rt, kind) /\ upc[q] = "idle" /\ (kind = "sync" => rt >= rtMaxStart[q])
        /\ rtMaxStart' = [rtMaxStart EXCEPT ![q] = IF rt > @ THEN rt ELSE @]
  BY <1>1, Pushed
<1>4. CASE p # q
  <2>1. rtMaxStart'[p] = rtMaxStart[p] /\ upc'[p] = upc[p] /\ hand'[p] = hand[p]
    BY <1>1, <1>3, <1>4 DEF Push, SourceTypes
  <2> QED
    BY <1>1, <1>2, <2>1, RisingKept
<1>5. CASE p = q
  <2>1. /\ hand'[p].rt = rt /\ hand'[p].kind = kind /\ upc'[p] = "wait"
        /\ rtMaxStart'[p] = IF rt > rtMaxStart[p] THEN rt ELSE rtMaxStart[p]
    BY <1>1, <1>3, <1>5 DEF Push, SourceTypes
  <2>2. rt \in Nat /\ rtMaxStart[p] \in Nat /\ \A i \in DOMAIN queue[p] : queue[p][i].rt \in Nat
    BY <1>1, Elements
  <2>3. rtMaxStart'[p] \in Nat /\ rtMaxStart[p] <= rtMaxStart'[p] /\ rt <= rtMaxStart'[p]
    BY <2>1, <2>2
  <2>4. ASSUME NEW i \in DOMAIN queue[p], queue[p][i].run = run
        PROVE  /\ queue[p][i].rt <= rtMaxStart'[p]
               /\ kind = "sync" => queue[p][i].rt <= rt
    <3>1. queue[p][i].rt <= rtMaxStart[p]
      BY <1>1, <2>4 DEF Rising
    <3> QED
      BY <1>3, <1>5, <2>2, <2>3, <3>1
  <2>5. ASSUME NEW i \in DOMAIN queue[p], queue[p][i].run = run,
               NEW j \in DOMAIN queue[p], i < j, queue[p][j].kind = "sync"
        PROVE  queue[p][i].rt <= queue[p][j].rt
    BY <1>1, <2>5 DEF Rising
  <2> QED
    BY <1>2, <2>1, <2>3, <2>4, <2>5 DEF Rising
<1> QED
  BY <1>4, <1>5

LEMMA RisingAdded ==
    ASSUME Inv, Streaming, NEW q \in Pins, PushAdd(q), NEW p \in Pins, run' = run
    PROVE  Rising(p)'
<1>1. TypeOK /\ Owned /\ Rising(p) /\ SourceTypes
  BY TypeParts DEF Inv, Stream
<1>2. UNCHANGED rtMaxStart
  BY DEF PushAdd, Leave
<1>3. CASE p # q
  <2>1. upc'[p] = upc[p] /\ hand'[p] = hand[p] /\ queue'[p] = queue[p]
    BY <1>1, <1>3, Added DEF SourceTypes
  <2> QED
    BY <1>1, <1>2, <2>1, RisingKept
<1>4. CASE p = q
  <2>1. /\ upc[p] # "idle" /\ upc'[p] = "idle" /\ Len(queue[p]) \in Nat
        /\ DOMAIN queue[p] = 1 .. Len(queue[p]) /\ DOMAIN queue'[p] = 1 .. Len(queue[p]) + 1
        /\ \A i \in DOMAIN queue[p] : queue'[p][i] = queue[p][i]
        /\ queue'[p][Len(queue[p]) + 1] = hand[p]
    BY <1>1, <1>4, Added DEF SourceTypes
  <2>2. PICK len \in Nat : len = Len(queue[p])
    BY <2>1
  <2>3. \A i \in DOMAIN queue'[p] : i \in DOMAIN queue[p] \/ i = len + 1
    BY <2>1, <2>2
  <2>4. \A i \in DOMAIN queue'[p] : i \in Nat /\ i <= len + 1
    BY <2>1, <2>2
  <2>5. ASSUME NEW i \in DOMAIN queue'[p], queue'[p][i].run = run
        PROVE  queue'[p][i].rt <= rtMaxStart[p]
    BY <1>1, <2>1, <2>2, <2>3, <2>5 DEF Rising
  <2>6. ASSUME NEW i \in DOMAIN queue'[p], queue'[p][i].run = run,
               NEW j \in DOMAIN queue'[p], i < j, queue'[p][j].kind = "sync"
        PROVE  queue'[p][i].rt <= queue'[p][j].rt
    <3>1. i \in DOMAIN queue[p]
      BY <2>2, <2>3, <2>4, <2>6
    <3>2. CASE j \in DOMAIN queue[p]
      BY <1>1, <2>1, <2>6, <3>1, <3>2 DEF Rising
    <3>3. CASE j = len + 1
      BY <1>1, <2>1, <2>2, <2>6, <3>1, <3>3 DEF Rising
    <3> QED
      BY <2>3, <3>2, <3>3
  <2> QED
    BY <1>2, <2>1, <2>5, <2>6 DEF Rising
<1> QED
  BY <1>3, <1>4

LEMMA RisingStep ==
    ASSUME Inv, [Next]_vars, Streaming', NEW p \in Pins
    PROVE  Rising(p)'
<1>1. TypeOK /\ Handshake /\ Owned
  BY DEF Inv
<1>2. CASE Pause
  <2>1. run' = run + 1 /\ upc'[p] = "idle" /\ queue' = queue
    BY <1>2 DEF Pause
  <2>2. \A i \in DOMAIN queue[p] : queue[p][i].run # run + 1
    BY <1>1, Elements DEF Owned
  <2> QED
    BY <2>1, <2>2 DEF Rising
<1>3. ASSUME ~Pause
      PROVE  Streaming /\ run' = run /\ ~Inactive
  BY <1>1, <1>3, StreamingStep
<1>4. ASSUME ~Pause, UNCHANGED <<queue, rtMaxStart, upc, hand>>
      PROVE  Rising(p)'
  BY <1>1, <1>3, <1>4, RisingKept DEF Inv, Stream
<1>5. ASSUME ~Pause, Pop
      PROVE  Rising(p)'
  <2>1. CASE queue[best] = <<>>
    BY <1>4, <1>5, <2>1 DEF Pop, uvars
  <2>2. CASE queue[best] # <<>>
    BY <1>3, <1>5, <2>2, RisingPopped
  <2> QED
    BY <2>1, <2>2
<1>6. ASSUME ~Pause, NEW q \in Pins, Receive(q) \/ EndOfStream(q)
      PROVE  Rising(p)'
  BY <1>3, <1>6, RisingPushed
<1>7. ASSUME ~Pause, NEW q \in Pins, PushAdd(q)
      PROVE  Rising(p)'
  BY <1>3, <1>7, RisingAdded
<1>8. ASSUME ~Pause, NEW q \in Pins, PushWait(q) \/ GiveUp(q)
      PROVE  Rising(p)'
  <2>1. state # "stopped"
    BY <1>1, <1>3, <1>8 DEF Streaming, Handshake
  <2>2. upc' = [upc EXCEPT ![q] = "add"] /\ upc[q] = "wait" /\ UNCHANGED <<queue, rtMaxStart, hand>>
    BY <1>8, <2>1 DEF PushWait, GiveUp, Leave, pins
  <2>3. upc'[p] = "idle" <=> upc[p] = "idle"
    BY <1>1, <2>2, TypeParts DEF SourceTypes
  <2> QED
    BY <1>1, <1>3, <1>8, <2>2, <2>3, RisingKept DEF Inv, Stream
<1> QED
  BY <1>2, <1>3, <1>4, <1>5, <1>6, <1>7, <1>8
     DEF Next, Worker, App, Source, GetRequest, Loop, Scan, Choose, Signal, Finish,
         SetStopped, Returned, Switch, Stop, vars, pins, uvars

------------------------------------------------------------------------------
\* The end of the streams.

LEMMA EndedStep ==
    ASSUME Inv, [Next]_vars, Streaming'
    PROVE  Ended'
<1>1. TypeOK /\ Handshake /\ Scanned /\ graph' = graph
  BY GraphKept DEF Inv
<1>2. \A p \in Pins : Eos(p)' = Eos(p)
  BY <1>1 DEF Eos
<1>3. CASE Pause
  BY <1>3 DEF Pause, Ended
<1>4. ASSUME ~Pause
      PROVE  Streaming /\ run' = run /\ Ended /\ req # "exit" /\ ~Inactive
  <2>1. Streaming /\ run' = run /\ ~Inactive
    BY <1>1, <1>4, StreamingStep
  <2> QED
    BY <1>1, <2>1 DEF Inv, Stream, Streaming, Handshake
<1>5. ASSUME ~Pause, UNCHANGED <<wpc, active, spoilt, finished, lastOut>>
      PROVE  Ended'
  BY <1>2, <1>4, <1>5 DEF Ended, Whole
<1>6. CASE GetRequest
  <2>1. ~Pause
    BY <1>6 DEF GetRequest, Pause, avars
  <2>2. wpc' = "loop" /\ active' = Pins /\ req = "run" /\ finished' = finished
    BY <1>4, <1>6, <2>1 DEF GetRequest
  <2> QED
    BY <1>1, <2>2 DEF Ended, Handshake
<1>7. CASE Loop
  <2>1. ~Pause /\ wpc = "loop" /\ UNCHANGED <<active, finished, spoilt, lastOut>>
    BY <1>7 DEF Loop, Pause, avars, out
  <2>2. wpc' = "scan" \/ (wpc' = "finish" /\ active = {})
    BY <1>1, <1>4, <1>7, <2>1 DEF Loop, CheckRequest, ScanFrom, Handshake
  <2> QED
    BY <1>2, <1>4, <2>1, <2>2 DEF Ended, Whole
<1>8. CASE Scan \/ Choose \/ Signal
  <2>1. /\ ~Pause /\ wpc \in {"scan", "signal"} /\ wpc' \in {"scan", "pop", "signal", "loop"}
        /\ UNCHANGED <<active, finished, spoilt, lastOut>>
    BY <1>8 DEF Scan, Choose, Signal, ScanFrom, Pause, avars, out
  <2> QED
    BY <1>2, <1>4, <2>1 DEF Ended, Whole
<1>9. CASE Pop
  <2>1. ~Pause /\ wpc = "pop" /\ finished' = finished /\ wpc' \in {"loop", "finish"}
    BY <1>9 DEF Pop, Write, Pause, avars
  <2>2. CASE queue[best] = <<>>
    BY <1>2, <1>4, <1>9, <2>1, <2>2 DEF Pop, Write, Ended, Whole, out
  <2>3. CASE queue[best] # <<>>
    <3> DEFINE head == queue[best][1]
    <3>1. /\ best \in active /\ best \in Pins /\ 1 \in DOMAIN queue[best] /\ Mux(head)
          /\ spoilt' = spoilt \cup Stale(head) \cup (IF wpc' = "finish" THEN {"write"} ELSE {})
      BY <1>1, <1>9, <2>3, Popped
    <3>2. Line(best)
      BY <1>4, <2>1, <3>1 DEF Inv, Stream
    <3>3. wpc' = "finish" => ~Whole'
      BY <3>1 DEF Whole
    <3>4. Whole' => Whole
      BY <3>1 DEF Whole
    <3>5. ASSUME Whole', NEW p \in Pins \ active'
          PROVE  lastOut'[p] = Eos(p)
      <4>1. lastOut \in [Pins -> Nat]
        BY <1>1, TypeParts DEF OutTypes
      <4>2. CASE p \in active
        <5>1. head.kind = "eos" /\ p = best
          BY <3>1, <3>5, <4>2 DEF Mux, Rest
        <5>2. head.run = run
          BY <3>1, <3>5, <5>1 DEF Stale, Whole
        <5>3. head.n = lastOut[best] + 1 /\ head.n = Eos(best)
          BY <1>1, <3>1, <3>2, <5>1, <5>2, NextInLine DEF Numbered
        <5> QED
          BY <3>1, <4>1, <5>1, <5>2, <5>3 DEF Mux
      <4>3. CASE p \notin active
        <5>1. p # best
          BY <3>1, <4>3
        <5>2. lastOut'[p] = lastOut[p]
          BY <3>1, <4>1, <5>1 DEF Mux, out
        <5> QED
          BY <1>4, <2>1, <3>4, <3>5, <4>3, <5>2 DEF Ended
      <4> QED
        BY <4>2, <4>3
    <3> HIDE DEF head
    <3>6. ~finished
      BY <1>4, <2>1 DEF Ended
    <3> QED
      BY <1>2, <2>1, <3>3, <3>5, <3>6 DEF Ended
  <2> QED
    BY <2>2, <2>3
<1>10. CASE Finish
  <2>1. /\ ~Pause /\ wpc = "finish" /\ wpc' = "request" /\ finished' /\ UNCHANGED <<spoilt, lastOut>>
    BY <1>10 DEF Finish, Pause, avars, out
  <2> QED
    BY <1>2, <1>4, <2>1 DEF Ended, Whole
<1> QED
  BY <1>3, <1>4, <1>5, <1>6, <1>7, <1>8, <1>9, <1>10
     DEF Next, Worker, App, Source, Inactive, SetStopped, Returned, Switch, Stop,
         Receive, EndOfStream, PushWait, GiveUp, PushAdd, vars, wvars, out

------------------------------------------------------------------------------
\* The order of the sync points of a run.

LEMMA AnyAfterNone ==
    ASSUME TypeOK, Owned, NEW p \in Pins, NEW min \in Nat, min = 0
    PROVE  /\ min <= rtMaxStart[p]
           /\ \A i \in DOMAIN queue[p] : min <= queue[p][i].rt
           /\ upc[p] # "idle" => min <= hand[p].rt
  BY Elements, HeldTime

LEMMA NotBeforeKept ==
    ASSUME NEW p \in Pins, NotBefore(p), UNCHANGED <<run, lastSync>>, queue'[p] = queue[p],
           rtMaxStart'[p] = rtMaxStart[p],
           upc'[p] = "idle" <=> upc[p] = "idle", upc[p] # "idle" => hand'[p] = hand[p]
    PROVE  NotBefore(p)'
  BY DEF NotBefore, Fresh

\* What GetPacket takes starts no later than what any other pin can still show.
LEMMA TakesEarliest ==
    ASSUME Inv, Streaming, Pop, queue[best] # <<>>, queue[best][1].kind = "sync",
           NEW p \in active, p # best, Fresh(p), NEW rt, rt = queue[best][1].rt
    PROVE  /\ rt <= rtMaxStart[p]
           /\ \A i \in DOMAIN queue[p] : queue[p][i].kind = "sync" => rt <= queue[p][i].rt
           /\ upc[p] # "idle" /\ hand[p].kind = "sync" => rt <= hand[p].rt
<1>1. TypeOK /\ Owned /\ Scanned /\ p \in Pins
  BY TypeParts DEF Inv, WorkerTypes
<1>2. Rising(p) /\ wpc = "pop"
  BY <1>1 DEF Inv, Stream, Pop
<1>3. best \in Pins /\ 1 \in DOMAIN queue[best]
  BY <1>1, Popped
<1>4. rt \in Nat
  BY <1>1, <1>3, Elements
<1>5. Head(queue[best]) = queue[best][1]
  BY <1>1, <1>3, HeadFacts, TypeParts DEF QueueTypes
<1>6. CASE Untimed(Head(queue[best]))
  <2>1. rt = 0
    BY <1>5, <1>6 DEF Untimed
  <2> QED
    BY <1>1, <1>4, <2>1, AnyAfterNone
<1>7. CASE Smallest /\ \A q \in active : Shown(q)
  <2>1. queue[p] # <<>> /\ rt <= Head(queue[p]).rt
    BY <1>5, <1>7 DEF Smallest, Shown
  <2>2. /\ Head(queue[p]) = queue[p][1] /\ 1 \in DOMAIN queue[p] /\ queue[p] \in Seq(Packets)
    BY <1>1, <2>1, HeadFacts, TypeParts DEF QueueTypes
  <2>3. rt <= queue[p][1].rt /\ queue[p][1].run = run
    BY <2>1, <2>2 DEF Fresh
  <2>4. /\ queue[p][1].rt <= rtMaxStart[p]
        /\ \A j \in DOMAIN queue[p] :
             1 < j /\ queue[p][j].kind = "sync" => queue[p][1].rt <= queue[p][j].rt
        /\ upc[p] # "idle" /\ hand[p].kind = "sync" => queue[p][1].rt <= hand[p].rt
    BY <1>2, <2>2, <2>3 DEF Rising
  <2>5. /\ rtMaxStart[p] \in Nat /\ DOMAIN queue[p] = 1 .. Len(queue[p]) /\ Len(queue[p]) \in Nat
        /\ \A j \in DOMAIN queue[p] : queue[p][j].rt \in Nat
    BY <1>1, Elements
  <2>6. upc[p] # "idle" => hand[p].rt \in Nat
    BY <1>1, HeldTime
  <2>7. \A j \in DOMAIN queue[p] : j = 1 \/ 1 < j
    BY <2>5
  <2>8. ASSUME NEW j \in DOMAIN queue[p], queue[p][j].kind = "sync"
        PROVE  rt <= queue[p][j].rt
    <3>1. queue[p][1].rt <= queue[p][j].rt
      BY <2>2, <2>4, <2>5, <2>7, <2>8
    <3> QED
      BY <1>4, <2>2, <2>3, <2>5, <3>1
  <2>9. rt <= rtMaxStart[p]
    BY <1>4, <2>2, <2>3, <2>4, <2>5
  <2>10. upc[p] # "idle" /\ hand[p].kind = "sync" => rt <= hand[p].rt
    BY <1>4, <2>2, <2>3, <2>4, <2>5, <2>6
  <2> QED
    BY <2>8, <2>9, <2>10
<1> QED
  BY <1>1, <1>2, <1>6, <1>7 DEF Scanned

LEMMA LaterPopped ==
    ASSUME Inv, Streaming, Pop, queue[best] # <<>>
    PROVE  Later'
<1> DEFINE head == queue[best][1]
<1>1. TypeOK /\ Owned /\ Scanned /\ Later
  BY DEF Inv, Stream
<1>2. /\ best \in active /\ best \in Pins /\ 1 \in DOMAIN queue[best] /\ Mux(head)
      /\ \A p \in Pins : p # best => queue'[p] = queue[p]
      /\ \A i \in DOMAIN queue'[best] :
           i \in Nat \ {0} /\ i + 1 \in DOMAIN queue[best] /\ queue'[best][i] = queue[best][i + 1]
      /\ spoilt \cup Stale(head) \subseteq spoilt'
  BY <1>1, Popped
<1>3. UNCHANGED <<run, upc, hand, rtMaxStart>>
  BY DEF Pop, avars, uvars
<1>4. SUFFICES ASSUME "sample" \notin spoilt', NEW p \in active', Fresh(p)'
               PROVE  /\ lastSync' <= rtMaxStart[p]
                      /\ \A i \in DOMAIN queue'[p] :
                           queue'[p][i].kind = "sync" => lastSync' <= queue'[p][i].rt
                      /\ upc[p] # "idle" /\ hand[p].kind = "sync" => lastSync' <= hand[p].rt
  BY <1>3 DEF Later, NotBefore
<1>5. p \in active /\ p \in Pins /\ (p = best => head.kind # "eos")
  BY <1>1, <1>2, TypeParts DEF Mux, Rest, WorkerTypes
<1>6. NotBefore(p) /\ Line(p) /\ Rising(p)
  BY <1>1, <1>2, <1>4, <1>5 DEF Later, Inv, Stream
<1>7. lastSync' = lastSync \/ (head.run = run /\ head.kind = "sync" /\ lastSync' = head.rt)
  BY <1>2 DEF Mux, out
<1>8. CASE p # best
  <2>1. Fresh(p) /\ queue'[p] = queue[p]
    BY <1>2, <1>3, <1>4, <1>5, <1>8 DEF Fresh
  <2>2. CASE lastSync' = lastSync
    BY <1>6, <2>1, <2>2 DEF NotBefore
  <2>3. CASE head.kind = "sync" /\ lastSync' = head.rt
    BY <1>5, <1>8, <2>1, <2>3, TakesEarliest
  <2> QED
    BY <1>7, <2>2, <2>3
<1>9. CASE p = best
  <2>1. head.run = run
    BY <1>2, <1>4, <1>5, <1>9 DEF Stale
  <2>2. Fresh(p)
    BY <1>1, <1>2, <1>5, <1>6, <1>9, <2>1, FreshLine
  <2>3. CASE lastSync' = lastSync
    <3>1. ASSUME NEW i \in DOMAIN queue'[p], queue'[p][i].kind = "sync"
          PROVE  lastSync' <= queue'[p][i].rt
      BY <1>2, <1>6, <1>9, <2>2, <2>3, <3>1 DEF NotBefore
    <3> QED
      BY <1>6, <2>2, <2>3, <3>1 DEF NotBefore
  <2>4. CASE lastSync' = head.rt
    <3>1. ASSUME NEW i \in DOMAIN queue'[p], queue'[p][i].kind = "sync"
          PROVE  lastSync' <= queue'[p][i].rt
      <4>1. 1 < i + 1 /\ i + 1 \in DOMAIN queue[p] /\ queue'[p][i] = queue[p][i + 1]
        BY <1>2, <1>9
      <4> QED
        BY <1>2, <1>6, <1>9, <2>1, <2>4, <3>1, <4>1 DEF Rising
    <3> QED
      BY <1>2, <1>6, <1>9, <2>1, <2>4, <3>1 DEF Rising
  <2> QED
    BY <1>7, <2>3, <2>4
<1> QED
  BY <1>8, <1>9

LEMMA LaterPushed ==
    ASSUME Inv, Streaming, NEW q \in Pins, Receive(q) \/ EndOfStream(q), run' = run
    PROVE  Later'
<1>1. TypeOK /\ Handshake /\ Later /\ SourceTypes /\ active \in SUBSET Pins
  BY TypeParts DEF Inv, Stream, WorkerTypes
<1>2. UNCHANGED <<queue, active, spoilt, lastSync>>
  BY DEF Receive, EndOfStream, pins, wvars, out
<1>3. PICK rt \in 0 .. MaxTime, kind \in Kinds :
        /\ Push(q, rt, kind) /\ upc[q] = "idle" /\ (kind = "sync" => rt >= rtMaxStart[q])
        /\ rtMaxStart' = [rtMaxStart EXCEPT ![q] = IF rt > @ THEN rt ELSE @]
  BY <1>1, Pushed
<1>4. SUFFICES ASSUME "sample" \notin spoilt, NEW p \in active
               PROVE  NotBefore(p)'
  BY <1>2 DEF Later
<1>5. NotBefore(p) /\ p \in Pins
  BY <1>1, <1>4 DEF Later
<1>6. CASE p # q
  <2>1. rtMaxStart'[p] = rtMaxStart[p] /\ upc'[p] = upc[p] /\ hand'[p] = hand[p]
    BY <1>1, <1>3, <1>5, <1>6 DEF Push, SourceTypes
  <2> QED
    BY <1>2, <1>5, <2>1, NotBeforeKept
<1>7. CASE p = q
  <2>1. /\ hand'[p].rt = rt /\ hand'[p].kind = kind /\ upc'[p] = "wait"
        /\ rtMaxStart'[p] = IF rt > rtMaxStart[p] THEN rt ELSE rtMaxStart[p]
    BY <1>1, <1>3, <1>7 DEF Push, SourceTypes
  <2>2. rt \in Nat /\ rtMaxStart[p] \in Nat /\ lastSync \in Nat
    BY <1>1, <1>5, Elements
  <2>3. ASSUME Fresh(p)
        PROVE  /\ lastSync <= rtMaxStart'[p] /\ (kind = "sync" => lastSync <= rt)
               /\ \A i \in DOMAIN queue[p] : queue[p][i].kind = "sync" => lastSync <= queue[p][i].rt
    <3>1. /\ lastSync <= rtMaxStart[p]
          /\ \A i \in DOMAIN queue[p] : queue[p][i].kind = "sync" => lastSync <= queue[p][i].rt
      BY <1>5, <2>3 DEF NotBefore
    <3>2. kind = "sync" => rt >= rtMaxStart[p]
      BY <1>3, <1>7
    <3> QED
      BY <2>1, <2>2, <3>1, <3>2
  <2>4. Fresh(p)' => Fresh(p)
    BY <1>2 DEF Fresh
  <2> QED
    BY <1>2, <2>1, <2>3, <2>4 DEF NotBefore
<1> QED
  BY <1>6, <1>7

LEMMA LaterAdded ==
    ASSUME Inv, Streaming, NEW q \in Pins, PushAdd(q), run' = run
    PROVE  Later'
<1>1. TypeOK /\ Owned /\ Later /\ SourceTypes /\ active \in SUBSET Pins
  BY TypeParts DEF Inv, Stream, WorkerTypes
<1>2. UNCHANGED <<rtMaxStart, active, spoilt, lastSync>>
  BY DEF PushAdd, Leave, wvars, out
<1>3. SUFFICES ASSUME "sample" \notin spoilt, NEW p \in active
               PROVE  NotBefore(p)'
  BY <1>2 DEF Later
<1>4. NotBefore(p) /\ p \in Pins
  BY <1>1, <1>3 DEF Later
<1>5. CASE p # q
  <2>1. upc'[p] = upc[p] /\ hand'[p] = hand[p] /\ queue'[p] = queue[p]
    BY <1>1, <1>4, <1>5, Added DEF SourceTypes
  <2> QED
    BY <1>2, <1>4, <2>1, NotBeforeKept
<1>6. CASE p = q
  <2>1. /\ upc[p] # "idle" /\ upc'[p] = "idle" /\ Len(queue[p]) \in Nat
        /\ DOMAIN queue[p] = 1 .. Len(queue[p]) /\ DOMAIN queue'[p] = 1 .. Len(queue[p]) + 1
        /\ \A i \in DOMAIN queue[p] : queue'[p][i] = queue[p][i]
        /\ queue'[p][Len(queue[p]) + 1] = hand[p]
    BY <1>1, <1>6, Added DEF SourceTypes
  <2>2. PICK len \in Nat : len = Len(queue[p])
    BY <2>1
  <2>3. \A i \in DOMAIN queue[p] : i \in DOMAIN queue'[p]
    BY <2>1, <2>2
  <2>4. Fresh(p)' => Fresh(p)
    BY <2>1, <2>3 DEF Fresh
  <2>5. ASSUME Fresh(p), NEW i \in DOMAIN queue'[p], queue'[p][i].kind = "sync"
        PROVE  lastSync <= queue'[p][i].rt
    <3>1. i \in DOMAIN queue[p] \/ i = len + 1
      BY <2>1, <2>2
    <3> QED
      BY <1>4, <2>1, <2>2, <2>5, <3>1 DEF NotBefore
  <2> QED
    BY <1>2, <1>4, <2>1, <2>4, <2>5 DEF NotBefore
<1> QED
  BY <1>5, <1>6

LEMMA LaterStep ==
    ASSUME Inv, [Next]_vars, Streaming'
    PROVE  Later'
<1>1. TypeOK /\ Handshake /\ Owned /\ Scanned /\ active \in SUBSET Pins
  BY TypeParts DEF Inv, WorkerTypes
<1>2. CASE Pause
  <2>1. UNCHANGED <<active, queue, upc, hand>> /\ lastSync' = 0
    BY <1>2 DEF Pause
  <2>2. ASSUME NEW p \in active
        PROVE  NotBefore(p)'
    <3>1. rtMaxStart'[p] = 0 /\ 0 <= 0 /\ p \in Pins
      BY <1>1, <1>2 DEF Pause, Active
    <3>2. /\ \A i \in DOMAIN queue[p] : 0 <= queue[p][i].rt
          /\ upc[p] # "idle" => 0 <= hand[p].rt
      BY <1>1, <3>1, AnyAfterNone
    <3> QED
      BY <2>1, <3>1, <3>2 DEF NotBefore
  <2> QED
    BY <2>1, <2>2 DEF Later
<1>3. ASSUME ~Pause
      PROVE  Streaming /\ run' = run /\ ~Inactive /\ Later /\ req # "exit"
  <2>1. Streaming /\ run' = run /\ ~Inactive
    BY <1>1, <1>3, StreamingStep
  <2> QED
    BY <1>1, <2>1 DEF Inv, Stream, Streaming, Handshake
<1>4. ASSUME ~Pause, UNCHANGED <<queue, rtMaxStart, upc, hand, lastSync, spoilt>>,
             active' \subseteq active
      PROVE  Later'
  BY <1>1, <1>3, <1>4, NotBeforeKept DEF Later
<1>5. CASE GetRequest
  <2>1. ~Pause /\ UNCHANGED <<run, queue, rtMaxStart, upc, hand, lastSync>> /\ active' \subseteq Pins
    BY <1>1, <1>5 DEF GetRequest, Pause, avars, pins, uvars, out
  <2>2. lastSync = 0
    BY <1>1, <1>3, <1>5, <2>1 DEF GetRequest, Handshake
  <2>3. ASSUME NEW p \in Pins
        PROVE  NotBefore(p)'
    <3>1. /\ 0 <= rtMaxStart[p] /\ \A i \in DOMAIN queue[p] : 0 <= queue[p][i].rt
          /\ upc[p] # "idle" => 0 <= hand[p].rt
      BY <1>1, AnyAfterNone
    <3> QED
      BY <2>1, <2>2, <3>1 DEF NotBefore
  <2> QED
    BY <2>1, <2>3 DEF Later
<1>6. ASSUME ~Pause, Pop
      PROVE  Later'
  <2>1. CASE queue[best] = <<>>
    BY <1>4, <1>6, <2>1 DEF Pop, uvars, out
  <2>2. CASE queue[best] # <<>>
    BY <1>3, <1>6, <2>2, LaterPopped
  <2> QED
    BY <2>1, <2>2
<1>7. ASSUME ~Pause, NEW q \in Pins, Receive(q) \/ EndOfStream(q)
      PROVE  Later'
  BY <1>3, <1>7, LaterPushed
<1>8. ASSUME ~Pause, NEW q \in Pins, PushAdd(q)
      PROVE  Later'
  BY <1>3, <1>8, LaterAdded
<1>9. ASSUME ~Pause, NEW q \in Pins, PushWait(q) \/ GiveUp(q)
      PROVE  Later'
  <2>1. state # "stopped"
    BY <1>1, <1>3, <1>9 DEF Streaming, Handshake
  <2>2. /\ upc' = [upc EXCEPT ![q] = "add"] /\ upc[q] = "wait"
        /\ UNCHANGED <<queue, rtMaxStart, hand, active, spoilt, lastSync>>
    BY <1>9, <2>1 DEF PushWait, GiveUp, Leave, pins, wvars, out
  <2>3. \A p \in Pins : upc'[p] = "idle" <=> upc[p] = "idle"
    BY <1>1, <2>2, TypeParts DEF SourceTypes
  <2> QED
    BY <1>1, <1>3, <1>9, <2>2, <2>3, NotBeforeKept DEF Later
<1>10. ASSUME ~Pause, Loop \/ Scan \/ Choose \/ Signal \/ Finish \/ SetStopped \/ Returned
                      \/ Switch \/ Stop \/ UNCHANGED vars
       PROVE  Later'
  BY <1>4, <1>10
     DEF Loop, Scan, Choose, Signal, Finish, SetStopped, Returned, Switch, Stop, vars, wvars, pins,
         uvars, out
<1> QED
  BY <1>2, <1>3, <1>5, <1>6, <1>7, <1>8, <1>9, <1>10 DEF Next, Worker, App, Source

------------------------------------------------------------------------------
\* Every behaviour of the muxer, its sources and the application keeps Inv.
THEOREM Invariance == Spec => []Inv
<1>1. Init => Inv
  BY InitInv
<1>2. Inv /\ [Next]_vars => Inv'
  <2> SUFFICES ASSUME Inv, [Next]_vars PROVE Inv'
    OBVIOUS
  <2>1. Stream'
    BY LineStep, RisingStep, EndedStep, LaterStep DEF Stream, Pins
  <2> QED
    BY <2>1, TypeStep, HandshakeStep, OwnedStep, ScannedStep DEF Inv
<1> QED
  BY <1>1, <1>2, PTL DEF Spec

\* The variables keep their types; that GetPacket's count of the pins it has not
\* seen a packet of stays within 0 .. NumPins is the part that is not by shape.
THEOREM TypeCorrect == Spec => []TypeOK
<1>1. Inv => TypeOK
  BY DEF Inv
<1> QED
  BY <1>1, Invariance, PTL

\* The end of stream goes downstream when every pin has been muxed to its end.
THEOREM Complete == Spec => []FinishedComplete
<1>1. Inv => FinishedComplete
  BY DEF Inv, Stream, Streaming, Ended, FinishedComplete
<1> QED
  BY <1>1, Invariance, PTL

\* A pin's packets are muxed one after the other.
THEOREM NoGap == Spec => Gapless
<1> DEFINE A == \A p \in Pins : lastOut'[p] # lastOut[p] /\ run' = run /\ apc = "idle"
                                  => lastOut'[p] = lastOut[p] + 1
<1>1. Inv /\ [Next]_vars => [A]_vars
  <2> SUFFICES ASSUME Inv, [Next]_vars, NEW p \in Pins, lastOut'[p] # lastOut[p], run' = run, apc = "idle"
               PROVE  lastOut'[p] = lastOut[p] + 1
    OBVIOUS
  <2>1. TypeOK /\ Handshake /\ Scanned /\ run \in Nat /\ lastOut \in [Pins -> Nat]
    BY Elements, TypeParts DEF Inv, OutTypes
  <2>2. ~UNCHANGED lastOut
    OBVIOUS
  <2>3. Pop
    BY <2>1, <2>2 DEF Next, Worker, App, Source, GetRequest, Loop, Scan, Choose, Signal, Finish,
       Inactive, SetStopped, Returned, Pause, Switch, Stop, Receive, EndOfStream, PushWait,
       PushAdd, GiveUp, vars, out
  <2>4. queue[best] # <<>>
    BY <2>2, <2>3 DEF Pop, out
  <2>5. best \in Pins /\ 1 \in DOMAIN queue[best] /\ Mux(queue[best][1])
    BY <2>1, <2>3, <2>4, Popped
  <2>6. p = best /\ queue[best][1].run = run /\ lastOut'[best] = queue[best][1].n
    BY <2>1, <2>5 DEF Mux, out
  <2>7. Streaming
    BY <2>1, <2>3 DEF Pop, Handshake, Streaming
  <2>8. Line(best)
    BY <2>5, <2>7 DEF Inv, Stream
  <2> QED
    BY <2>1, <2>5, <2>6, <2>8, NextInLine DEF Numbered
<1>2. Spec => [][A]_vars
  BY <1>1, Invariance, PTL DEF Spec
<1> QED
  BY <1>2 DEF Gapless

\* The sync points of a run are in the order of their times.
THEOREM InOrder == Spec => SyncInOrder
<1> DEFINE A == run' = run /\ apc = "idle" /\ "sample" \notin spoilt => lastSync' >= lastSync
<1>1. Inv /\ [Next]_vars => [A]_vars
  <2> SUFFICES ASSUME Inv, [Next]_vars, run' = run, apc = "idle", "sample" \notin spoilt
               PROVE  lastSync' >= lastSync
    OBVIOUS
  <2>1. TypeOK /\ Handshake /\ Scanned /\ run \in Nat /\ lastSync \in Nat
    BY GraphFacts, TypeParts DEF Inv, OutTypes, AppTypes
  <2>2. CASE lastSync' = lastSync
    BY <2>1, <2>2
  <2>3. CASE lastSync' # lastSync
    <3>1. Pop
      BY <2>1, <2>3 DEF Next, Worker, App, Source, GetRequest, Loop, Scan, Choose, Signal, Finish,
         Inactive, SetStopped, Returned, Pause, Switch, Stop, Receive, EndOfStream, PushWait,
         PushAdd, GiveUp, vars, out
    <3>2. queue[best] # <<>>
      BY <2>3, <3>1 DEF Pop, out
    <3>3. /\ best \in active /\ best \in Pins /\ 1 \in DOMAIN queue[best]
          /\ Mux(queue[best][1])
      BY <2>1, <3>1, <3>2, Popped
    <3>4. /\ queue[best][1].run = run /\ queue[best][1].kind = "sync"
          /\ lastSync' = queue[best][1].rt
      BY <2>3, <3>3 DEF Mux, out
    <3>5. Streaming
      BY <2>1, <3>1 DEF Pop, Handshake, Streaming
    <3>6. Line(best) /\ NotBefore(best)
      BY <3>3, <3>5 DEF Inv, Stream, Later
    <3>7. Fresh(best)
      BY <2>1, <3>3, <3>4, <3>6, FreshLine
    <3>8. lastSync <= queue[best][1].rt /\ queue[best][1].rt \in Nat
      BY <2>1, <3>3, <3>4, <3>6, <3>7, Elements DEF NotBefore
    <3> QED
      BY <2>1, <3>4, <3>8
  <2> QED
    BY <2>2, <2>3
<1>2. Spec => [][A]_vars
  BY <1>1, Invariance, PTL DEF Spec
<1> QED
  BY <1>2 DEF SyncInOrder
=============================================================================
