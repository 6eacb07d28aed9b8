-------------------------- MODULE UdpReaderProofs --------------------------
(***************************************************************************)
(* Proofs about CamThread and about UdpReader, which extends it.           *)
(*                                                                         *)
(* CamThread: its types for every choice of the constants, and, while no   *)
(* call times out, the inductive invariant Handshake, from which each      *)
(* call's answer is its own, no request is wiped out or served twice, and  *)
(* the handshake implements Rendezvous.  Nothing of UdpReader is used.     *)
(*                                                                         *)
(* UdpReader: what it promises of its list of packets, for any sizes that  *)
(* keep the relation of UdpAssumption, streams of any length and any       *)
(* number of Loads, with time-outs and without.                            *)
(***************************************************************************)
EXTENDS UdpReader, FiniteSetTheorems, TLAPS

------------------------------------------------------------------------------
(* The handshake.                                                          *)

(* Every word and every program counter keeps its type, with time-outs and *)
(* without.                                                                *)
THEOREM Types == LateSpec => []TypeOK
<1> USE NobodyAssumption, MaxCallsAssumption DEF Calls, Params, Failed, Pending, NextCall
<1>1. Init => TypeOK
  <2> SUFFICES ASSUME Init PROVE TypeOK
    OBVIOUS
  <2> USE DEF Init
  <2>1. outcome \in [Calls -> Params \cup {Failed, Pending}]
    OBVIOUS
  <2>2. command \in [Calls -> {"work", "exit"}]
    OBVIOUS
  <2>3. call \in [Clients -> Params] /\ taken \in [Workers -> Params]
    OBVIOUS
  <2>4. /\ cpc \in [Clients -> {"idle", "entered", "paramSet", "waiting", "woken",
                               "timedOut", "paramCleared", "completeReset"}]
        /\ wpc \in [Workers -> {"none", "getRequest", "readParam", "exiting",
                               "serving", "resetSend", "setComplete"}]
    OBVIOUS
  <2>5. 0 \in Params /\ served \in SUBSET Calls
    OBVIOUS
  <2> QED BY <2>1, <2>2, <2>3, <2>4, <2>5 DEF TypeOK
<1>2. TypeOK /\ [Next \/ \E c \in Clients : Late(c)]_vars => TypeOK'
  <2> SUFFICES ASSUME TypeOK, [Next \/ \E c \in Clients : Late(c)]_vars PROVE TypeOK'
    OBVIOUS
  <2> USE DEF TypeOK, cvars, evars, wvars
  <2>1. ASSUME NEW w \in Workers, Create(w) PROVE TypeOK'
    BY <2>1 DEF Create
  <2>2. ASSUME NEW w \in Workers, Worker(w) PROVE TypeOK'
    <3>1. CASE GetRequest(w)
      BY <3>1 DEF GetRequest
    <3>2. CASE ReadParam(w)
      BY <3>2 DEF ReadParam
    <3>3. CASE DropHandle(w)
      BY <3>3 DEF DropHandle
    <3>4. CASE ReplyValue(w)
      BY <3>4 DEF ReplyValue
    <3>5. CASE ReplyReset(w)
      BY <3>5 DEF ReplyReset, ResetSend
    <3>6. CASE ReplySignal(w)
      BY <3>6 DEF ReplySignal, SetComplete
    <3> QED BY <2>2, <3>1, <3>2, <3>3, <3>4, <3>5, <3>6 DEF Worker
  <2>3. ASSUME NEW c \in Clients, Client(c) PROVE TypeOK'
    <3>1. CASE Lock(c)
      BY <3>1 DEF Lock
    <3>2. CASE NoThread(c)
      BY <3>2 DEF NoThread, ReturnWith
    <3>3. CASE SetParam(c)
      BY <3>3 DEF SetParam
    <3>4. CASE Signal(c)
      BY <3>4 DEF Signal
    <3>5. CASE Wake(c)
      BY <3>5 DEF Wake, ConsumeComplete
    <3>6. CASE Answered(c)
      BY <3>6 DEF Answered, ReturnWith
    <3> QED BY <2>3, <3>1, <3>2, <3>3, <3>4, <3>5, <3>6 DEF Client
  <2>4. ASSUME NEW c \in Clients, Late(c) PROVE TypeOK'
    <3>1. CASE TimeOut(c)
      BY <3>1 DEF TimeOut, WaitElapses
    <3>2. CASE ClearParam(c)
      BY <3>2 DEF ClearParam
    <3>3. CASE ClearComplete(c)
      BY <3>3 DEF ClearComplete
    <3>4. CASE ClearSend(c)
      BY <3>4 DEF ClearSend, ResetSend, ReturnWith
    <3> QED BY <2>4, <3>1, <3>2, <3>3, <3>4 DEF Late
  <2>5. CASE UNCHANGED vars
    BY <2>5 DEF vars
  <2> QED BY <2>1, <2>2, <2>3, <2>4, <2>5 DEF Next
<1> QED BY <1>1, <1>2, PTL DEF LateSpec

(* Without time-outs there are fewer behaviours.                           *)
LEMMA TypesInTime == Spec => []TypeOK
<1>1. [Next]_vars => [Next \/ \E c \in Clients : Late(c)]_vars
  OBVIOUS
<1> QED BY Types, <1>1, PTL DEF Spec, LateSpec

(* A step of the handshake in which no call times out preserves Handshake. *)
(* The argument turns on the access lock: an awake worker implies that the *)
(* lock's owner waits, so at most one call is in progress, every shared    *)
(* word is about that call, and only one worker can be awake.              *)
LEMMA HandshakeStep ==
  ASSUME TypeOK, Handshake, [Next]_vars
  PROVE  Handshake'
<1> USE NobodyAssumption, MaxCallsAssumption DEF Calls, Params, Failed, Pending
<1> USE DEF TypeOK, Handshake, cvars, evars, wvars, Busy, Awake, ClientWaits, IsExit
\* a new thread: the old one, if any is left, would hold the access lock through its client
<1>1. ASSUME NEW w \in Workers, Create(w) PROVE Handshake'
  <2> USE <1>1 DEF Create
  <2>1. ASSUME NEW d \in Clients PROVE ClientInv(d)'
    BY DEF ClientInv
  <2>2. ASSUME NEW v \in Workers PROVE WorkerInv(v)'
    BY DEF WorkerInv
  <2>3. EventInv'
    BY DEF EventInv
  <2>4. OneWorker' /\ AnswerIsOwn'
    BY DEF WorkerInv, OneWorker, AnswerIsOwn
  <2> QED BY <2>1, <2>2, <2>3, <2>4 DEF Handshake
\* m_EventSend set means a request nobody serves yet
<1>2. ASSUME NEW w \in Workers, GetRequest(w) PROVE Handshake'
  <2> USE <1>2 DEF GetRequest
  <2>1. ASSUME NEW d \in Clients PROVE ClientInv(d)'
    BY DEF ClientInv
  <2>2. ASSUME NEW v \in Workers PROVE WorkerInv(v)'
    BY DEF WorkerInv, EventInv, OneWorker
  <2>3. EventInv'
    BY DEF EventInv
  <2>4. OneWorker' /\ AnswerIsOwn'
    BY DEF OneWorker, AnswerIsOwn
  <2> QED BY <2>1, <2>2, <2>3, <2>4 DEF Handshake
\* the parameter read is the current call
<1>3. ASSUME NEW w \in Workers, ReadParam(w) PROVE Handshake'
  <2> USE <1>3 DEF ReadParam
  <2>1. ASSUME NEW d \in Clients PROVE ClientInv(d)'
    BY DEF ClientInv, WorkerInv
  <2>2. ASSUME NEW v \in Workers PROVE WorkerInv(v)'
    BY DEF ClientInv, WorkerInv, OneWorker
  <2>3. EventInv'
    BY DEF ClientInv, WorkerInv, EventInv
  <2>4. OneWorker' /\ AnswerIsOwn'
    BY DEF OneWorker, AnswerIsOwn
  <2> QED BY <2>1, <2>2, <2>3, <2>4 DEF Handshake
\* the handle is dropped by the one worker, for an exit
<1>4. ASSUME NEW w \in Workers, DropHandle(w) PROVE Handshake'
  <2> USE <1>4 DEF DropHandle
  <2>1. ASSUME NEW d \in Clients PROVE ClientInv(d)'
    BY DEF ClientInv
  <2>2. ASSUME NEW v \in Workers PROVE WorkerInv(v)'
    BY DEF WorkerInv, OneWorker
  <2>3. EventInv'
    BY DEF EventInv
  <2>4. OneWorker' /\ AnswerIsOwn'
    BY DEF OneWorker, AnswerIsOwn
  <2> QED BY <2>1, <2>2, <2>3, <2>4 DEF Handshake
<1>5. ASSUME NEW w \in Workers, ReplyValue(w) PROVE Handshake'
  <2> USE <1>5 DEF ReplyValue
  <2>1. ASSUME NEW d \in Clients PROVE ClientInv(d)'
    BY DEF ClientInv, WorkerInv
  <2>2. ASSUME NEW v \in Workers PROVE WorkerInv(v)'
    BY DEF WorkerInv
  <2>3. EventInv'
    BY DEF WorkerInv, EventInv
  <2>4. OneWorker' /\ AnswerIsOwn'
    BY DEF OneWorker, AnswerIsOwn
  <2> QED BY <2>1, <2>2, <2>3, <2>4 DEF Handshake
\* m_EventSend is reset before the client can know
<1>6. ASSUME NEW w \in Workers, ReplyReset(w) PROVE Handshake'
  <2> USE <1>6 DEF ReplyReset, ResetSend
  <2>1. ASSUME NEW d \in Clients PROVE ClientInv(d)'
    BY DEF ClientInv
  <2>2. ASSUME NEW v \in Workers PROVE WorkerInv(v)'
    BY DEF WorkerInv, OneWorker
  <2>3. EventInv'
    BY DEF EventInv
  <2>4. OneWorker' /\ AnswerIsOwn'
    BY DEF OneWorker, AnswerIsOwn
  <2> QED BY <2>1, <2>2, <2>3, <2>4 DEF Handshake
\* the client is told, m_EventSend is down already
<1>7. ASSUME NEW w \in Workers, ReplySignal(w) PROVE Handshake'
  <2> USE <1>7 DEF ReplySignal, SetComplete
  <2>1. ASSUME NEW d \in Clients PROVE ClientInv(d)'
    BY DEF ClientInv
  <2>2. ASSUME NEW v \in Workers PROVE WorkerInv(v)'
    BY DEF WorkerInv, OneWorker
  <2>3. EventInv'
    BY DEF WorkerInv, EventInv
  <2>4. OneWorker' /\ AnswerIsOwn'
    BY DEF OneWorker, AnswerIsOwn
  <2> QED BY <2>1, <2>2, <2>3, <2>4 DEF Handshake
\* a new call finds every worker at rest
<1>8. ASSUME NEW c \in Clients, Lock(c) PROVE Handshake'
  <2> USE <1>8 DEF Lock, NextCall
  <2>1. ASSUME NEW d \in Clients PROVE ClientInv(d)'
    BY DEF ClientInv, EventInv
  <2>2. ASSUME NEW v \in Workers PROVE WorkerInv(v)'
    BY DEF WorkerInv
  <2>3. EventInv'
    BY DEF EventInv
  <2>4. OneWorker' /\ AnswerIsOwn'
    BY DEF OneWorker, AnswerIsOwn
  <2> QED BY <2>1, <2>2, <2>3, <2>4 DEF Handshake
<1>9. ASSUME NEW c \in Clients, NoThread(c) PROVE Handshake'
  <2> USE <1>9 DEF NoThread, ReturnWith
  <2>1. ASSUME NEW d \in Clients PROVE ClientInv(d)'
    BY DEF ClientInv
  <2>2. ASSUME NEW v \in Workers PROVE WorkerInv(v)'
    BY DEF ClientInv, WorkerInv
  <2>3. EventInv'
    BY DEF ClientInv, EventInv
  <2>4. OneWorker' /\ AnswerIsOwn'
    BY DEF OneWorker, AnswerIsOwn
  <2> QED BY <2>1, <2>2, <2>3, <2>4 DEF Handshake
<1>10. ASSUME NEW c \in Clients, SetParam(c) PROVE Handshake'
  <2> USE <1>10 DEF SetParam
  <2>1. ASSUME NEW d \in Clients PROVE ClientInv(d)'
    BY DEF ClientInv
  <2>2. ASSUME NEW v \in Workers PROVE WorkerInv(v)'
    BY DEF WorkerInv
  <2>3. EventInv'
    BY DEF EventInv
  <2>4. OneWorker' /\ AnswerIsOwn'
    BY DEF OneWorker, AnswerIsOwn
  <2> QED BY <2>1, <2>2, <2>3, <2>4 DEF Handshake
<1>11. ASSUME NEW c \in Clients, Signal(c) PROVE Handshake'
  <2> USE <1>11 DEF Signal
  <2>1. ASSUME NEW d \in Clients PROVE ClientInv(d)'
    BY DEF ClientInv
  <2>2. ASSUME NEW v \in Workers PROVE WorkerInv(v)'
    BY DEF ClientInv, WorkerInv
  <2>3. EventInv'
    BY DEF ClientInv, EventInv
  <2>4. OneWorker' /\ AnswerIsOwn'
    BY DEF OneWorker, AnswerIsOwn
  <2> QED BY <2>1, <2>2, <2>3, <2>4 DEF Handshake
<1>12. ASSUME NEW c \in Clients, Wake(c) PROVE Handshake'
  <2> USE <1>12 DEF Wake, ConsumeComplete
  <2>1. ASSUME NEW d \in Clients PROVE ClientInv(d)'
    BY DEF ClientInv, EventInv
  <2>2. ASSUME NEW v \in Workers PROVE WorkerInv(v)'
    BY DEF WorkerInv
  <2>3. EventInv'
    BY DEF EventInv
  <2>4. OneWorker' /\ AnswerIsOwn'
    BY DEF OneWorker, AnswerIsOwn
  <2> QED BY <2>1, <2>2, <2>3, <2>4 DEF Handshake
\* the value returned is the current call
<1>13. ASSUME NEW c \in Clients, Answered(c) PROVE Handshake'
  <2> USE <1>13 DEF Answered, ReturnWith
  <2>1. ASSUME NEW d \in Clients PROVE ClientInv(d)'
    BY DEF ClientInv
  <2>2. ASSUME NEW v \in Workers PROVE WorkerInv(v)'
    BY DEF ClientInv, WorkerInv
  <2>3. EventInv'
    BY DEF ClientInv, EventInv
  <2>4. OneWorker' /\ AnswerIsOwn'
    BY DEF ClientInv, OneWorker, AnswerIsOwn
  <2> QED BY <2>1, <2>2, <2>3, <2>4 DEF Handshake
<1>14. CASE UNCHANGED vars
  BY <1>14 DEF vars, ClientInv, WorkerInv, EventInv, OneWorker, AnswerIsOwn
<1> QED
  BY <1>1, <1>2, <1>3, <1>4, <1>5, <1>6, <1>7, <1>8, <1>9, <1>10,
     <1>11, <1>12, <1>13, <1>14 DEF Next, Client, Worker

(* While no call times out the two events, the two shared words and the    *)
(* threads around them agree on the one call in progress.                  *)
THEOREM HandshakeHolds == Spec => []Handshake
<1>1. Init => Handshake
  BY NobodyAssumption
     DEF Init, Handshake, ClientInv, WorkerInv, EventInv, OneWorker, AnswerIsOwn,
         Busy, Awake, ClientWaits, Pending
<1>2. TypeOK /\ Handshake /\ [Next]_vars => Handshake'
  BY HandshakeStep
<1> QED BY TypesInTime, <1>1, <1>2, PTL DEF Spec

(* CallWorker returns the answer to its own request (wxutil.cpp:183).      *)
THEOREM AnswersAreOwn == Spec => []AnswerIsOwn
<1>1. Handshake => AnswerIsOwn
  BY DEF Handshake
<1> QED BY HandshakeHolds, <1>1, PTL

(* A CAMThread never has two threads in ThreadProc (wxutil.cpp:132-156).   *)
THEOREM SingleWorker == Spec => []OneWorker
<1>1. Handshake => OneWorker
  BY DEF Handshake
<1> QED BY HandshakeHolds, <1>1, PTL

(* A request taken up once is not taken up again, though m_EventSend stays *)
(* set until Reply (wxutil.cpp:187-194).                                   *)
THEOREM TakenUpOnce == Spec => ServedOnce
<1>1. TypeOK /\ Handshake /\ [Next]_vars =>
        [\A w \in Workers :
           wpc[w] = "readParam" /\ wpc'[w] # "readParam" => dwParam \notin served]_vars
  BY DEF Handshake, ClientInv, WorkerInv, Awake, ClientWaits, vars
<1> QED BY TypesInTime, HandshakeHolds, <1>1, PTL DEF Spec, ServedOnce

(* Reply never resets m_EventSend over a request that nobody has taken up  *)
(* (wxutil.cpp:218-222).                                                   *)
THEOREM RequestsSurviveReply == Spec => NoRequestWiped
<1>1. TypeOK /\ Handshake /\ [Next]_vars =>
        [\A w \in Workers :
           wpc[w] = "resetSend" /\ wpc'[w] # "resetSend" /\ eventSend
             => dwParam \in served]_vars
  BY DEF Handshake, ClientInv, WorkerInv, Awake, Busy, ClientWaits, vars
<1> QED BY TypesInTime, HandshakeHolds, <1>1, PTL DEF Spec, NoRequestWiped

(* Which calls have returned: all up to the last one admitted, and that    *)
(* one too unless its client still holds the access lock.                  *)
Numbered ==
  \A n \in Calls : outcome[n] = Pending <=> n > issued \/ (accessLock # Nobody /\ n = issued)

LEMMA NumberedStep ==
  ASSUME TypeOK, Handshake, Numbered, [Next]_vars
  PROVE  Numbered'
<1> USE NobodyAssumption, MaxCallsAssumption
    DEF Calls, Params, Failed, Pending, TypeOK, cvars, evars, wvars, Numbered
<1>1. ASSUME NEW w \in Workers, Create(w) \/ Worker(w) PROVE Numbered'
  BY <1>1 DEF Create, Worker, GetRequest, ReadParam, DropHandle, ReplyValue, ReplyReset,
              ReplySignal
<1>2. ASSUME NEW c \in Clients, Lock(c) PROVE Numbered'
  BY <1>2 DEF Lock, NextCall
<1>3. ASSUME NEW c \in Clients, NoThread(c) \/ Answered(c) PROVE Numbered'
  BY <1>3 DEF Handshake, ClientInv, NoThread, Answered, ReturnWith
<1>4. ASSUME NEW c \in Clients, SetParam(c) \/ Signal(c) \/ Wake(c) PROVE Numbered'
  BY <1>4 DEF SetParam, Signal, Wake
<1>5. CASE UNCHANGED vars
  BY <1>5 DEF vars
<1> QED BY <1>1, <1>2, <1>3, <1>4, <1>5 DEF Next, Client

LEMMA RendezvousStep ==
  ASSUME TypeOK, Handshake, Numbered, [Next]_vars
  PROVE  [R!Next]_(R!rvars)
<1> USE NobodyAssumption, MaxCallsAssumption
    DEF Calls, Params, Failed, Pending, TypeOK, cvars, evars, wvars,
        current, R!rvars, R!Calls, R!Pending, R!Refused
<1>1. ASSUME NEW w \in Workers, Create(w) \/ Worker(w) PROVE UNCHANGED R!rvars
  BY <1>1 DEF Create, Worker, GetRequest, ReadParam, DropHandle, ReplyValue, ReplyReset,
              ReplySignal
<1>2. ASSUME NEW c \in Clients, Lock(c) PROVE R!Next
  <2>1. issued + 1 \in Calls
    BY <1>2 DEF Lock
  <2>2. R!Ask(issued + 1)
    BY <1>2, <2>1 DEF Lock, NextCall, Numbered, R!Ask
  <2> QED BY <2>1, <2>2 DEF R!Next
<1>3. ASSUME NEW c \in Clients, NoThread(c) \/ Answered(c) PROVE R!Next
  <2>1. /\ issued \in Calls
        /\ accessLock = c
        /\ call[c] = issued
        /\ cpc[c] = "woken" => dwReturnVal = issued
    BY <1>3 DEF NoThread, Answered, Handshake, ClientInv
  <2>2. R!Return(issued)
    BY <1>3, <2>1 DEF NoThread, Answered, ReturnWith, R!Return
  <2> QED BY <2>1, <2>2 DEF R!Next
<1>4. ASSUME NEW c \in Clients, SetParam(c) \/ Signal(c) \/ Wake(c)
      PROVE  UNCHANGED R!rvars
  BY <1>4 DEF SetParam, Signal, Wake
<1>5. CASE UNCHANGED vars
  BY <1>5 DEF vars
<1> QED BY <1>1, <1>2, <1>3, <1>4, <1>5 DEF Next, Client

(* The handshake implements the rendezvous: calls are admitted one at a    *)
(* time and each returns its own answer or is refused (wxutil.cpp:158-185).*)
THEOREM ImplementsRendezvous == Spec => IsRendezvous
<1>1. Init => R!Init /\ Numbered
  BY MaxCallsAssumption
     DEF Init, Numbered, Calls, Pending, current, R!Init, R!Calls, R!Pending
<1>2. TypeOK /\ Handshake /\ Numbered /\ [Next]_vars => Numbered'
  BY NumberedStep
<1>3. TypeOK /\ Handshake /\ Numbered /\ [Next]_vars => [R!Next]_(R!rvars)
  BY RendezvousStep
<1> QED BY TypesInTime, HandshakeHolds, <1>1, <1>2, <1>3, PTL DEF Spec, IsRendezvous, R!Spec

------------------------------------------------------------------------------
(* The reader.                                                             *)

\* Whose thread it is: there is one exactly from Create to the last Reply, and
\* none, and nothing in the list, while nothing is loaded.
ThreadInv ==
    /\ DOMAIN wpc = Workers
    /\ spc = "none" <=> wpc[Thread] = "none"
    /\ opc = "new" => spc = "none" /\ packets = {}

\* What the socket thread has collected.
BuffInv ==
    /\ buff \in Nat
    /\ spc \in {"check", "recv"} => buff < Packet
    /\ spc = "append" => 0 < buff /\ buff < Packet + Datagram

\* The splitter's thread lives while the stream is open, and what it goes to
\* or goes back to lies within the stream.
ReaderInv ==
    /\ rpc # "none" => opc = "open" /\ packets # {}
    /\ rpc = "none" => mode = "search" /\ fpos = 0 /\ cached = [at |-> 0, len |-> 0]
    /\ fpos \in Nat /\ fpos <= len
    /\ cached \in [at : Nat, len : Nat] /\ cached.at + cached.len <= len
    /\ want \in Nat /\ asked \in Nat
    /\ rpc \in {"ask", "sync"} => from \in 0 .. len
    /\ IF mode = "seek" THEN last \subseteq 0 .. len ELSE last = {}

Wide == Packet + Datagram

\* The packets of ps are pieces of a stream of n bytes ...
Pieces(ps, n) ==
    /\ ps \subseteq [start : Nat, end : Nat, of : Nat] /\ IsFiniteSet(ps)
    /\ \A p \in ps : p.start < p.end /\ p.end <= n /\ p.end - p.start < Wide
    /\ \A p, q \in ps : p = q \/ p.end <= q.start \/ q.end <= p.start

\* ... and leave nothing out from the first one, h, on.
Covers(ps, h, n) ==
    /\ h \in ps /\ \A p \in ps : h.start <= p.start
    /\ \A b \in Nat : h.start <= b /\ b < n => \E p \in ps : p.start <= b /\ b < p.end
    /\ \E p \in ps : p.end = n

\* What is gone lies more than Keep behind what has been read.
Reaches(h, r) == h.start = 0 \/ h.start + Keep <= r

ListInv ==
    /\ len \in Nat /\ life \in Nat /\ reached \in Nat
    /\ Pieces(packets, len)
    /\ packets = {} => len = 0
    /\ packets # {} => \E h \in packets : Covers(packets, h, len) /\ Reaches(h, reached)
    /\ \A p \in packets : p.of = life /\ len - p.start < 2 * First + Wide

IInv == ThreadInv /\ BuffInv /\ ReaderInv /\ ListInv

------------------------------------------------------------------------------
\* The constants, one by one.
LEMMA Sizes ==
    /\ First \in Nat /\ First > 0 /\ Packet \in Nat /\ Packet > 0
    /\ Datagram \in Nat /\ Datagram > 0 /\ Keep \in Nat /\ Keep > 0
    /\ Cache \in Nat /\ Cache > 0 /\ FromEnd \in Nat
    /\ Packet + Datagram <= 2 * First
  BY UdpAssumption

LEMMA ThreadIsWorker == Thread \in Workers
<1>1. Cardinality(Workers) = 1
  BY UdpAssumption
<1>2. Cardinality({}) = 0
  BY FS_EmptySet
<1>3. Workers # {}
  BY <1>1, <1>2
<1> QED
  BY <1>3 DEF Thread

LEMMA MinIs ==
  ASSUME NEW S \in SUBSET Int, NEW m \in S, \A x \in S : m <= x
  PROVE  Min(S) = m
<1>1. \E x \in S : \A y \in S : x <= y
  OBVIOUS
<1>2. Min(S) \in S /\ \A y \in S : Min(S) <= y
  BY <1>1 DEF Min
<1>3. Min(S) <= m /\ m <= Min(S) /\ Min(S) \in Int /\ m \in Int
  BY <1>2
<1> QED
  BY <1>3

LEMMA MaxIs ==
  ASSUME NEW S \in SUBSET Int, NEW m \in S, \A x \in S : x <= m
  PROVE  Max(S) = m
<1>1. \E x \in S : \A y \in S : x >= y
  OBVIOUS
<1>2. Max(S) \in S /\ \A y \in S : Max(S) >= y
  BY <1>1 DEF Max
<1>3. Max(S) <= m /\ m <= Max(S) /\ Max(S) \in Int /\ m \in Int
  BY <1>2
<1> QED
  BY <1>3

LEMMA MaxOfTwo ==
  ASSUME NEW a \in Nat, NEW b \in Nat
  PROVE  Max({a, b}) \in Nat /\ a <= Max({a, b}) /\ b <= Max({a, b})
<1>1. CASE a <= b
  <2>1. Max({a, b}) = b
    BY <1>1, MaxIs
  <2> QED
    BY <2>1, <1>1
<1>2. CASE b <= a
  <2>1. Max({a, b}) = a
    BY <1>2, MaxIs
  <2> QED
    BY <2>1, <1>2
<1> QED
  BY <1>1, <1>2

\* The two ends of the list.
LEMMA Ends ==
  ASSUME ListInv, NEW h \in packets, Covers(packets, h, len)
  PROVE  HeadStart = h.start /\ TailEnd = len /\ ListSize = len - h.start
<1> DEFINE Starts == {p.start : p \in packets}
           Stops  == {p.end : p \in packets}
<1>1. packets \subseteq [start : Nat, end : Nat, of : Nat] /\ len \in Nat
  BY DEF ListInv, Pieces
<1>2. Starts \subseteq Int /\ h.start \in Starts /\ \A x \in Starts : h.start <= x
  BY <1>1 DEF Covers
<1>3. Stops \subseteq Int /\ len \in Stops /\ \A x \in Stops : x <= len
  BY <1>1 DEF Covers, ListInv, Pieces
<1> HIDE DEF Starts, Stops
<1>4. Min(Starts) = h.start
  BY <1>2, MinIs
<1>5. Max(Stops) = len
  BY <1>3, MaxIs
<1> QED
  BY <1>4, <1>5 DEF HeadStart, TailEnd, ListSize, Starts, Stops

\* Read leaves a list that is sound again and begins where it may.
LEMMA Trimmed ==
  ASSUME ListInv, packets # {}, NEW at \in Nat, at <= len
  PROVE  /\ Pieces(Remaining(at), len)
         /\ \A p \in Remaining(at) : p \in packets
         /\ \A r \in Nat : reached <= r /\ at <= r =>
              \E h \in Remaining(at) : Covers(Remaining(at), h, len) /\ Reaches(h, r)
<1> DEFINE ps == Remaining(at)
<1>1. ps \subseteq packets
  BY DEF Remaining
<1>2. PICK h \in packets : Covers(packets, h, len) /\ Reaches(h, reached)
  BY DEF ListInv
<1>3. packets \subseteq [start : Nat, end : Nat, of : Nat] /\ IsFiniteSet(packets)
      /\ len \in Nat /\ reached \in Nat
  BY DEF ListInv, Pieces
<1>4. \A p \in packets : p.start < p.end /\ p.end <= len
  BY DEF ListInv, Pieces
<1>5. Pieces(ps, len)
  <2>1. IsFiniteSet(ps)
    BY <1>1, <1>3, FS_Subset
  <2> QED
    BY <1>1, <2>1 DEF ListInv, Pieces
<1>6. ASSUME NEW r \in Nat, reached <= r, at <= r
      PROVE  \E g \in ps : Covers(ps, g, len) /\ Reaches(g, r)
  <2>1. CASE First > at \/ at - Keep <= h.start
    <3>1. ps = packets
      BY <2>1, <1>2, <1>3, <1>4, Sizes DEF Remaining, Covers
    <3>2. Reaches(h, r)
      BY <1>2, <1>3, <1>6, Sizes DEF Reaches
    <3> QED
      BY <1>2, <3>1, <3>2
  <2>2. CASE First <= at /\ h.start < at - Keep
    <3>1. PICK c \in Nat : c = at - Keep
      BY <2>2, <1>3, Sizes
    <3>2. ps = {p \in packets : p.end > c}
      BY <2>2, <3>1 DEF Remaining
    <3>3. h.start <= c /\ c < len
      BY <2>2, <3>1, <1>3, Sizes
    <3>4. PICK g \in packets : g.start <= c /\ c < g.end
      BY <1>2, <3>3 DEF Covers
    <3>5. g \in ps
      BY <3>2, <3>4, <1>3
    <3>6. ASSUME NEW p \in ps
          PROVE  g.start <= p.start
      BY <3>2, <3>4, <3>6, <1>3, <1>4 DEF ListInv, Pieces
    <3>7. ASSUME NEW b \in Nat, g.start <= b, b < len
          PROVE  \E p \in ps : p.start <= b /\ b < p.end
      <4>1. CASE b < c
        BY <4>1, <3>4, <3>5, <3>7, <1>3
      <4>2. CASE c <= b
        <5>1. PICK p \in packets : p.start <= b /\ b < p.end
          BY <1>2, <3>3, <3>7, <4>2, <1>3 DEF Covers
        <5>2. p \in ps
          BY <5>1, <4>2, <3>2, <1>3
        <5> QED
          BY <5>1, <5>2
      <4> QED
        BY <4>1, <4>2
    <3>8. \E p \in ps : p.end = len
      BY <1>2, <3>2, <3>3, <1>3 DEF Covers
    <3>9. Reaches(g, r)
      BY <3>1, <3>4, <1>3, <1>6, Sizes DEF Reaches
    <3> HIDE DEF ps
    <3>10. Covers(ps, g, len)
      BY <3>5, <3>6, <3>7, <3>8 DEF Covers
    <3> QED
      BY <3>5, <3>9, <3>10
  <2>3. First \in Int /\ at - Keep \in Int /\ h.start \in Int /\ at \in Int
    BY <1>3, Sizes
  <2> QED
    BY <2>1, <2>2, <2>3
<1> QED
  BY <1>1, <1>5, <1>6

------------------------------------------------------------------------------
\* The list is not touched ...
LEMMA ListKept ==
  ASSUME ListInv, UNCHANGED <<packets, len, life, reached>>
  PROVE  ListInv'
BY DEF ListInv, Pieces, Covers, Reaches

\* ... a packet is added at its end, if it is not too long ...
LEMMA Added ==
  ASSUME ListInv, NEW n \in Nat, 0 < n, n < Wide, NEW x,
         x = [start |-> len, end |-> len + n, of |-> life],
         \A p \in packets : len + n - p.start < 2 * First + Wide,
         packets' = packets \cup {x}, len' = len + n,
         UNCHANGED <<life, reached>>
  PROVE  ListInv'
<1>1. packets \subseteq [start : Nat, end : Nat, of : Nat] /\ IsFiniteSet(packets)
      /\ len \in Nat /\ reached \in Nat /\ life \in Nat /\ Wide \in Nat
  BY Sizes DEF ListInv, Pieces, Wide
<1>2. /\ x \in [start : Nat, end : Nat, of : Nat]
      /\ x.start = len /\ x.end = len + n /\ x.of = life
  BY <1>1
<1>3. \A p \in packets : p.start < p.end /\ p.end <= len /\ p.end - p.start < Wide
  BY DEF ListInv, Pieces
<1>4. \A p, q \in packets : p = q \/ p.end <= q.start \/ q.end <= p.start
  BY DEF ListInv, Pieces
<1>5. PICK ps : ps = packets \cup {x}
  OBVIOUS
<1>6. PICK m \in Nat : m = len + n
  BY <1>1
<1>7. Pieces(ps, m)
  <2>1. IsFiniteSet(ps)
    BY <1>1, <1>5, FS_AddElement
  <2>2. \A p \in ps : p.start < p.end /\ p.end <= m /\ p.end - p.start < Wide
    <3>1. \A p \in packets : p.end <= m
      BY <1>1, <1>3, <1>6
    <3>2. x.start < x.end /\ x.end <= m /\ x.end - x.start < Wide
      BY <1>1, <1>2, <1>6
    <3> QED
      BY <1>3, <1>5, <3>1, <3>2
  <2>3. \A p, q \in ps : p = q \/ p.end <= q.start \/ q.end <= p.start
    BY <1>2, <1>3, <1>4, <1>5
  <2> QED
    BY <1>1, <1>2, <1>5, <2>1, <2>2, <2>3 DEF Pieces
<1>8. \E h \in ps : Covers(ps, h, m) /\ Reaches(h, reached)
  <2>1. CASE packets = {}
    <3>1. x.start = 0 /\ ps = {x} /\ len = 0
      BY <2>1, <1>2, <1>5 DEF ListInv
    <3>2. Covers(ps, x, m)
      BY <3>1, <1>1, <1>2, <1>6 DEF Covers
    <3> QED
      BY <3>1, <3>2 DEF Reaches
  <2>2. CASE packets # {}
    <3>1. PICK h \in packets : Covers(packets, h, len) /\ Reaches(h, reached)
      BY <2>2 DEF ListInv
    <3>2. h.start <= x.start
      BY <1>1, <1>2, <1>3, <3>1
    <3>3. ASSUME NEW b \in Nat, h.start <= b, b < m
          PROVE  \E p \in ps : p.start <= b /\ b < p.end
      <4>1. CASE b < len
        BY <4>1, <3>1, <3>3, <1>5 DEF Covers
      <4>2. CASE len <= b
        BY <4>2, <3>3, <1>2, <1>5, <1>6
      <4> QED
        BY <4>1, <4>2, <1>1
    <3>4. Covers(ps, h, m)
      BY <3>1, <3>2, <3>3, <1>2, <1>5, <1>6 DEF Covers
    <3> QED
      BY <3>1, <3>4, <1>5
  <2> QED
    BY <2>1, <2>2
<1>9. \A p \in ps : p.of = life /\ m - p.start < 2 * First + Wide
  <2>1. m - x.start < 2 * First + Wide
    BY <1>1, <1>2, <1>6, Sizes
  <2>2. ASSUME NEW p \in packets
        PROVE  m - p.start < 2 * First + Wide
    <3>1. p.start \in Nat /\ len + n - p.start < 2 * First + Wide
      BY <1>1
    <3> QED
      BY <3>1, <1>1, <1>6, Sizes
  <2>3. \A p \in packets : p.of = life
    BY DEF ListInv
  <2> QED
    BY <2>1, <2>2, <2>3, <1>2, <1>5
<1>10. ps # {} /\ packets' = ps /\ len' = m
  BY <1>5, <1>6
<1> QED
  BY <1>1, <1>7, <1>8, <1>9, <1>10 DEF ListInv

\* ... or Read takes away what it has left behind.
LEMMA Taken ==
  ASSUME ListInv, packets # {}, NEW at \in Nat, at <= len,
         packets' = Remaining(at), reached' \in Nat, reached <= reached', at <= reached',
         UNCHANGED <<len, life>>
  PROVE  ListInv' /\ packets' # {}
<1>1. PICK r \in Nat : r = reached'
  OBVIOUS
<1>2. PICK ps : ps = Remaining(at)
  OBVIOUS
<1>3. Pieces(ps, len) /\ (\A p \in ps : p \in packets)
      /\ \E h \in ps : Covers(ps, h, len) /\ Reaches(h, r)
  BY <1>1, <1>2, Trimmed
<1>4. ps # {}
  BY <1>3
<1>5. \A p \in ps : p.of = life /\ len - p.start < 2 * First + Wide
  BY <1>3 DEF ListInv
<1> QED
  BY <1>1, <1>2, <1>3, <1>4, <1>5 DEF ListInv

\* Append: at most one packet, or a list that is not too long.
LEMMA AppendKeeps ==
  ASSUME IInv, Append
  PROVE  ListInv'
<1> USE DEF IInv
<1>1. spc = "append" /\ buff \in Nat /\ 0 < buff /\ buff < Wide /\ Wide \in Nat
  BY Sizes DEF Append, BuffInv, Wide
<1>2. UNCHANGED <<life, reached>>
  BY DEF Append, owner, reader
<1>3. packets \subseteq [start : Nat, end : Nat, of : Nat] /\ IsFiniteSet(packets)
      /\ len \in Nat
      /\ \A p \in packets : p.start < p.end /\ p.end <= len /\ p.end - p.start < Wide
  BY DEF ListInv, Pieces
<1>4. CASE Cardinality(packets) > 1 /\ Drops
  BY <1>2, <1>4, ListKept DEF Append
<1>5. CASE ~(Cardinality(packets) > 1 /\ Drops)
  <2>1. PICK x : x = [start |-> len, end |-> len + buff, of |-> life]
    OBVIOUS
  <2>2. packets' = packets \cup {x} /\ len' = len + buff
    BY <1>5, <2>1 DEF Append
  <2>3. \A p \in packets : len + buff - p.start < 2 * First + Wide
    <3>1. CASE Cardinality(packets) > 1
      <4>1. Cardinality({}) = 0
        BY FS_EmptySet
      <4>2. packets # {}
        BY <3>1, <4>1
      <4>3. PICK h \in packets : Covers(packets, h, len)
        BY <4>2 DEF ListInv
      <4>4. ListSize = len - h.start
        BY <4>3, Ends
      <4>5. ListSize < 2 * First
        <5>1. ~Drops
          BY <1>5, <3>1
        <5>2. len - h.start \in Int
          BY <1>3
        <5> QED
          BY <4>4, <5>1, <5>2, Sizes DEF Drops, TooMuch
      <4>6. \A p \in packets : len - p.start <= len - h.start
        BY <4>3, <1>3 DEF Covers
      <4> QED
        BY <1>1, <1>3, <4>4, <4>5, <4>6, Sizes
    <3>2. CASE ~(Cardinality(packets) > 1)
      <4>1. Cardinality(packets) = 0 \/ Cardinality(packets) = 1
        BY <3>2, <1>3, FS_CardinalityType
      <4>2. packets = {} \/ \E p : packets = {p}
        BY <4>1, <1>3, FS_EmptySet, FS_Singleton
      <4>3. \A p \in packets : p.end = len
        BY <4>2 DEF ListInv, Covers
      <4>4. \A p \in packets : len - p.start < Wide
        BY <1>3, <4>3
      <4>5. Wide <= 2 * First /\ First \in Nat
        BY Sizes DEF Wide
      <4> QED
        BY <1>1, <1>3, <4>4, <4>5
    <3> QED
      BY <3>1, <3>2
  <2> QED
    BY <1>1, <1>2, <2>1, <2>2, <2>3, Added
<1> QED
  BY <1>4, <1>5

\* SyncRead reads within the stream.
LEMMA SyncReadKeeps ==
  ASSUME IInv, SyncRead
  PROVE  ListInv' /\ packets' # {}
<1> USE DEF IInv
<1>1. rpc = "sync" /\ packets # {} /\ fpos \in Nat /\ fpos <= len
  BY DEF SyncRead, ReaderInv
<1>2. TailEnd = len /\ len \in Nat /\ reached \in Nat
  BY <1>1, Ends DEF ListInv
<1>3. UNCHANGED <<len, life>>
  BY DEF SyncRead, owner
<1>4. CASE fpos + asked > TailEnd
  <2>1. packets' = Remaining(len) /\ reached' = Max({reached, len})
    BY <1>2, <1>4 DEF SyncRead, Spin
  <2>2. reached' \in Nat /\ reached <= reached' /\ len <= reached'
    BY <1>2, <2>1, MaxOfTwo
  <2> QED
    BY <1>1, <1>2, <1>3, <2>1, <2>2, Taken
<1>5. CASE ~(fpos + asked > TailEnd)
  <2>1. packets' = Remaining(fpos) /\ reached' = Max({reached, fpos})
    BY <1>5 DEF SyncRead, Fetch
  <2>2. reached' \in Nat /\ reached <= reached' /\ fpos <= reached'
    BY <1>1, <1>2, <2>1, MaxOfTwo
  <2> QED
    BY <1>1, <1>3, <2>1, <2>2, Taken
<1> QED
  BY <1>4, <1>5

\* Nothing else touches the list, but for Load and Clear.
LEMMA ListStep ==
  ASSUME IInv, [UdpNext]_uvars
  PROVE  ListInv'
<1> USE DEF owner, thread, stream, reader
<1>1. CASE LoadCreates
  <2>1. packets = {} /\ UNCHANGED <<packets, len, reached>> /\ life' = life + 1
    BY <1>1 DEF LoadCreates, IInv, ThreadInv
  <2> QED
    BY <2>1 DEF IInv, ListInv, Pieces
<1>2. CASE Cleared
  <2>1. packets' = {} /\ len' = 0 /\ reached' = 0 /\ life' = life
    BY <1>2 DEF Cleared
  <2> QED
    BY <2>1, FS_EmptySet DEF IInv, ListInv, Pieces
<1>3. CASE Append
  BY <1>3, AppendKeeps
<1>4. CASE SyncRead
  BY <1>4, SyncReadKeeps
<1>5. CASE UNCHANGED <<packets, len, life, reached>>
  BY <1>5, ListKept DEF IInv
<1>6. Release \/ CallRun \/ Calling \/ RunFails \/ RunReturns \/ LoadReturns \/ ClearSocket
        \/ CallExit \/ ExitReturns \/ Close
        => UNCHANGED <<packets, len, life, reached>>
  BY DEF Release, CallRun, Calling, RunFails, RunReturns, LoadReturns, ClearSocket, CallExit,
         ExitReturns, Close, udp
<1>7. OpenSocket \/ Bind \/ TakeRequest \/ CloseOnExit \/ ReplyResult \/ ReplyAgain
        \/ Replied \/ CheckForRequest \/ Recv \/ RecvFails \/ FallSilent
        => UNCHANGED <<packets, len, life, reached>>
  BY DEF OpenSocket, Bind, TakeRequest, CloseOnExit, ReplyResult, ReplyAgain, Replied,
         CheckForRequest, Recv, RecvFails, FallSilent, udp
<1>8. OpenFile \/ Search \/ DemuxSeek \/ NextPTS \/ NoPTS \/ DemuxNextPacket \/ AskLength
        \/ SyncReadFails
        => UNCHANGED <<packets, len, life, reached>>
  BY DEF OpenFile, Search, DemuxSeek, NextPTS, NoPTS, DemuxNextPacket, AskLength,
         SyncReadFails, StreamOnly
<1>9. CASE UNCHANGED uvars
  BY <1>5, <1>9 DEF uvars, udp
<1> QED
  BY <1>1, <1>2, <1>3, <1>4, <1>5, <1>6, <1>7, <1>8, <1>9
     DEF UdpNext, OwnerStep, SocketThread, Reader

------------------------------------------------------------------------------
\* The steps of the owner, of the socket thread and of the splitter.
LEMMA BuffStep ==
  ASSUME IInv, [UdpNext]_uvars
  PROVE  BuffInv'
<1> USE DEF owner, thread, stream, reader, IInv
<1>1. ASSUME UNCHANGED <<spc, buff>>
      PROVE  BuffInv'
  BY <1>1 DEF BuffInv
<1>2. CASE LoadCreates \/ OpenSocket \/ Bind
  BY <1>2 DEF LoadCreates, OpenSocket, Bind, BuffInv
<1>3. CASE Replied
  BY <1>3, Sizes DEF Replied, BuffInv
<1>4. CASE CheckForRequest
  BY <1>4 DEF CheckForRequest, BuffInv
<1>5. CASE Recv
  <2>1. PICK n \in 1 .. Datagram : buff' = buff + n
    BY <1>5 DEF Recv
  <2>2. buff \in Nat /\ buff < Packet
    BY <1>5 DEF Recv, BuffInv
  <2>3. buff' \in Nat /\ 0 < buff' /\ buff' < Packet + Datagram
    BY <2>1, <2>2, Sizes
  <2>4. CASE buff' >= Packet \/ len = 0
    <3>1. spc' = "append"
      BY <1>5, <2>4 DEF Recv
    <3> QED
      BY <2>3, <3>1 DEF BuffInv
  <2>5. CASE ~(buff' >= Packet \/ len = 0)
    <3>1. spc' = "check"
      BY <1>5, <2>5 DEF Recv
    <3> QED
      BY <2>3, <2>5, <3>1, Sizes DEF BuffInv
  <2> QED
    BY <2>4, <2>5
<1>6. CASE RecvFails
  BY <1>6 DEF RecvFails, BuffInv
<1>7. CASE Append
  BY <1>7, Sizes DEF Append, BuffInv
<1>8. Release \/ CallRun \/ Calling \/ RunFails \/ RunReturns \/ LoadReturns \/ ClearSocket
        \/ CallExit \/ ExitReturns \/ Close \/ Cleared
        => UNCHANGED <<spc, buff>>
  BY DEF Release, CallRun, Calling, RunFails, RunReturns, LoadReturns, ClearSocket, CallExit,
         ExitReturns, Close, Cleared, udp
<1>9. TakeRequest \/ CloseOnExit \/ ReplyResult \/ ReplyAgain \/ FallSilent
        => UNCHANGED <<spc, buff>>
  BY DEF TakeRequest, CloseOnExit, ReplyResult, ReplyAgain, FallSilent, udp
<1>10. OpenFile \/ Search \/ DemuxSeek \/ NextPTS \/ NoPTS \/ DemuxNextPacket \/ AskLength
        \/ SyncReadFails \/ SyncRead
        => UNCHANGED <<spc, buff>>
  BY DEF OpenFile, Search, DemuxSeek, NextPTS, NoPTS, DemuxNextPacket, AskLength,
         SyncReadFails, SyncRead, StreamOnly
<1>11. CASE UNCHANGED uvars
  BY <1>1, <1>11 DEF uvars, udp
<1> QED
  BY <1>1, <1>2, <1>3, <1>4, <1>5, <1>6, <1>7, <1>8, <1>9, <1>10, <1>11
     DEF UdpNext, OwnerStep, SocketThread, Reader

LEMMA ThreadStep ==
  ASSUME IInv, [UdpNext]_uvars
  PROVE  ThreadInv'
<1> USE ThreadIsWorker DEF owner, thread, stream, reader, IInv, ThreadInv
<1>1. ASSUME UNCHANGED <<spc, wpc, packets>>, opc' = opc \/ opc' # "new"
      PROVE  ThreadInv'
  BY <1>1
<1>2. CASE LoadCreates
  BY <1>2 DEF LoadCreates, Create
<1>3. CASE Cleared
  BY <1>3 DEF Cleared, ThreadEnded, vars, wvars
<1>4. CASE OpenSocket \/ Bind \/ CheckForRequest \/ Recv \/ RecvFails
  BY <1>4 DEF OpenSocket, Bind, CheckForRequest, Recv, RecvFails, vars, wvars
<1>5. CASE TakeRequest
  BY <1>5 DEF TakeRequest, GetRequest, ReadParam, udp
<1>6. CASE CloseOnExit
  BY <1>6 DEF CloseOnExit
<1>7. CASE ReplyResult \/ ReplyAgain
  BY <1>7 DEF ReplyResult, ReplyAgain, ReplyValue, ReplyReset, udp
<1>8. CASE Replied
  BY <1>8 DEF Replied, ReplySignal
<1>9. CASE Append
  BY <1>9 DEF Append, vars, wvars
<1>10. CASE SyncRead
  <2>1. opc # "new" /\ UNCHANGED <<opc, spc, wpc>>
    BY <1>10 DEF SyncRead, ReaderInv, vars, wvars
  <2> QED
    BY <2>1
<1>11. Release \/ CallRun \/ Calling \/ RunFails \/ RunReturns \/ LoadReturns \/ ClearSocket
        \/ CallExit \/ ExitReturns \/ Close
        => UNCHANGED <<spc, wpc, packets>> /\ (opc' = opc \/ opc' # "new")
  BY DEF Release, CallRun, Calling, RunFails, RunReturns, LoadReturns, ClearSocket, CallExit,
         ExitReturns, Close, udp, vars, wvars, Lock, SetParam, Signal, Wake, TimeOut,
         ClearParam, ClearComplete, ClearSend, Answered
<1>12. FallSilent \/ OpenFile \/ Search \/ DemuxSeek \/ NextPTS \/ NoPTS \/ DemuxNextPacket
        \/ AskLength \/ SyncReadFails
        => UNCHANGED <<spc, wpc, packets, opc>>
  BY DEF FallSilent, OpenFile, Search, DemuxSeek, NextPTS, NoPTS, DemuxNextPacket, AskLength,
         SyncReadFails, StreamOnly, vars, wvars
<1>13. CASE UNCHANGED uvars
  BY <1>13 DEF uvars, udp, vars, wvars
<1> QED
  BY <1>1, <1>2, <1>3, <1>4, <1>5, <1>6, <1>7, <1>8, <1>9, <1>10, <1>11, <1>12, <1>13
     DEF UdpNext, OwnerStep, SocketThread, Reader

\* Where the splitter goes lies within the stream.
LEMMA Clamped ==
  ASSUME NEW p \in Int, len \in Nat
  PROVE  Clamp(p) \in 0 .. len
BY DEF Clamp, Least

\* A read ends somewhere within the stream, and leaves what is remembered there.
Rests ==
    /\ rpc' = "idle" /\ want' = 0 /\ asked' = 0 /\ from' = 0 /\ fpos' \in 0 .. len
    /\ IF mode' = "seek" THEN last' \subseteq 0 .. len ELSE last' = {}

LEMMA EndedRests ==
  ASSUME ReaderInv, NEW at \in 0 .. len, NEW got \in BOOLEAN, Ended(at, got),
         rpc \in {"ask", "sync"}, len \in Nat
  PROVE  Rests
<1>1. Behind(at) \subseteq 0 .. len
  <2>1. \A n \in 0 .. Cache : at + n \in Int
    BY Sizes
  <2> QED
    BY <2>1, Clamped DEF Behind
<1>2. from \in 0 .. len /\ IF mode = "seek" THEN last \subseteq 0 .. len ELSE last = {}
  BY DEF ReaderInv
<1>3. CASE Demuxed(at)
  BY <1>1, <1>2, <1>3 DEF Demuxed, Rests, Ended
<1>4. CASE NextPacket(at, got)
  BY <1>1, <1>2, <1>4 DEF NextPacket, Rests, Ended
<1>5. CASE HasPTS(got)
  BY <1>2, <1>5 DEF HasPTS, Rests, Ended
<1>6. CASE BackToLast(at)
  BY <1>2, <1>6 DEF BackToLast, Rests, Ended
<1> QED
  BY <1>3, <1>4, <1>5, <1>6 DEF Ended

LEMMA ReaderFrom ==
  ASSUME ReaderInv, Rests, len \in Nat, len' = len, packets' # {}, opc' = "open",
         cached' \in [at : Nat, len : Nat], cached'.at + cached'.len <= len
  PROVE  ReaderInv'
BY DEF ReaderInv, Rests

LEMMA StartReads ==
  ASSUME ReaderInv, NEW n \in Nat, StartRead(n), len \in Nat,
         UNCHANGED <<opc, packets, len>>
  PROVE  ReaderInv'
BY DEF ReaderInv, StartRead

LEMMA AskLengthKeeps ==
  ASSUME IInv, AskLength
  PROVE  ReaderInv'
<1> USE DEF IInv
<1>1. /\ rpc = "ask" /\ opc = "open" /\ packets # {} /\ len \in Nat
      /\ fpos \in Nat /\ fpos <= len /\ want \in Nat /\ from \in 0 .. len
      /\ cached \in [at : Nat, len : Nat] /\ cached.at + cached.len <= len
  BY DEF AskLength, ReaderInv, ListInv
<1>2. UNCHANGED <<opc, packets, len, cached>>
  BY DEF AskLength, StreamOnly, owner, stream
<1>3. InCache \in Nat /\ InCache <= want /\ fpos + InCache <= len
  <2>1. PICK e \in Nat : e = cached.at + cached.len
    BY <1>1
  <2> QED
    BY <1>1, <2>1 DEF InCache, Least
<1>4. PICK at \in Nat : at = fpos + InCache /\ at <= len
  BY <1>1, <1>3
<1>5. PICK left \in Nat : left = want - InCache
  BY <1>1, <1>3
<1>6. PICK n \in Int : n = Available(at)
  BY <1>1, <1>4, Sizes DEF Available, Least
<1>7. CASE left = 0 \/ n <= 0
  <2>1. Ended(at, left = 0)
    BY <1>4, <1>5, <1>6, <1>7 DEF AskLength
  <2>2. at \in 0 .. len
    BY <1>1, <1>4
  <2>3. PICK got \in BOOLEAN : got <=> left = 0
    OBVIOUS
  <2>4. Ended(at, got)
    BY <2>1, <2>3 DEF Ended, NextPacket, HasPTS
  <2>5. Rests
    BY <1>1, <2>2, <2>4, EndedRests
  <2> QED
    BY <1>1, <1>2, <2>5, ReaderFrom
<1>8. CASE ~(left = 0 \/ n <= 0)
  <2>1. /\ rpc' = "sync" /\ fpos' = at /\ want' = left /\ asked' = n
        /\ UNCHANGED <<mode, from, last>>
    BY <1>4, <1>5, <1>6, <1>8 DEF AskLength
  <2>2. n \in Nat
    BY <1>6, <1>8
  <2> QED
    BY <1>1, <1>2, <1>4, <1>5, <2>1, <2>2 DEF ReaderInv
<1> QED
  BY <1>7, <1>8

LEMMA SyncReadEnds ==
  ASSUME IInv, SyncRead \/ SyncReadFails
  PROVE  ReaderInv'
<1> USE DEF IInv
<1>1. /\ rpc = "sync" /\ opc = "open" /\ packets # {} /\ len \in Nat
      /\ fpos \in Nat /\ fpos <= len /\ want \in Nat /\ asked \in Nat /\ from \in 0 .. len
      /\ cached \in [at : Nat, len : Nat] /\ cached.at + cached.len <= len
  BY DEF SyncRead, SyncReadFails, ReaderInv, ListInv
<1>2. TailEnd = len
  BY <1>1, Ends DEF ListInv
<1>3. UNCHANGED <<opc, len>>
  BY DEF SyncRead, SyncReadFails, StreamOnly, owner, stream
<1>4. CASE SyncReadFails
  <2>1. Ended(fpos, FALSE) /\ UNCHANGED <<packets, cached>>
    BY <1>4 DEF SyncReadFails, StreamOnly, stream
  <2>2. fpos \in 0 .. len
    BY <1>1
  <2>3. Rests
    BY <1>1, <2>1, <2>2, EndedRests
  <2> QED
    BY <1>1, <1>3, <2>1, <2>3, ReaderFrom
<1>5. CASE SyncRead /\ fpos + asked > TailEnd
  <2>1. packets' # {}
    BY <1>5, SyncReadKeeps
  <2>2. Spin
    BY <1>5 DEF SyncRead
  <2> QED
    BY <1>1, <1>3, <2>1, <2>2 DEF Spin, ReaderInv
<1>6. CASE SyncRead /\ ~(fpos + asked > TailEnd)
  <2>1. packets' # {}
    BY <1>6, SyncReadKeeps
  <2>2. Fetch
    BY <1>6 DEF SyncRead
  <2>3. fpos + asked <= len
    BY <1>1, <1>2, <1>6
  <2>4. PICK n \in Nat : n = Least(want, asked) /\ n <= want /\ n <= asked
    BY <1>1 DEF Least
  <2>5. cached' = [at |-> fpos, len |-> asked]
    BY <2>2 DEF Fetch
  <2>6. cached' \in [at : Nat, len : Nat] /\ cached'.at + cached'.len <= len
    BY <1>1, <2>3, <2>5
  <2>7. CASE n = want
    <3>1. Ended(fpos + n, TRUE)
      BY <2>2, <2>4, <2>7 DEF Fetch
    <3>2. fpos + n \in 0 .. len
      BY <1>1, <2>3, <2>4
    <3>3. Rests
      BY <1>1, <3>1, <3>2, EndedRests
    <3> QED
      BY <1>1, <1>3, <2>1, <2>6, <3>3, ReaderFrom
  <2>8. CASE n # want
    <3>1. /\ rpc' = "ask" /\ fpos' = fpos + n /\ want' = want - n
          /\ UNCHANGED <<mode, asked, from, last>>
      BY <2>2, <2>4, <2>8 DEF Fetch
    <3>2. fpos' \in Nat /\ fpos' <= len /\ want' \in Nat
      BY <1>1, <2>3, <2>4, <3>1
    <3> QED
      BY <1>1, <1>3, <2>1, <2>6, <3>1, <3>2 DEF ReaderInv
  <2> QED
    BY <2>7, <2>8
<1> QED
  BY <1>4, <1>5, <1>6

LEMMA ReaderStep ==
  ASSUME IInv, [UdpNext]_uvars
  PROVE  ReaderInv'
<1> USE DEF owner, thread, stream, reader, IInv
<1>1. len \in Nat
  BY DEF ListInv
<1>2. ASSUME UNCHANGED <<reader, packets, len>>, opc' = opc \/ rpc = "none"
      PROVE  ReaderInv'
  BY <1>2 DEF ReaderInv
<1>3. CASE Release
  BY <1>3, <1>1 DEF Release, NotReading, ReaderInv
<1>4. CASE Cleared
  <2>1. opc # "open" /\ len' = 0 /\ UNCHANGED <<rpc, mode, fpos, cached, want, asked, from, last>>
    BY <1>4 DEF Cleared
  <2> QED
    BY <2>1 DEF ReaderInv
<1>5. CASE Append
  <2>1. UNCHANGED <<rpc, mode, fpos, cached, want, asked, from, last, opc>>
    BY <1>5 DEF Append
  <2>2. len' \in Nat /\ len <= len' /\ (packets # {} => packets' # {})
    <3>1. buff \in Nat
      BY DEF BuffInv
    <3> QED
      BY <1>1, <1>5, <3>1 DEF Append
  <2> QED
    BY <1>1, <2>1, <2>2 DEF ReaderInv
<1>6. CASE OpenFile
  <2>1. packets # {}
    <3>1. \A h \in packets : h.end \in Nat
      BY DEF ListInv, Pieces
    <3> QED
      BY <1>6, <1>1 DEF OpenFile, ListInv
  <2> QED
    BY <1>6, <2>1 DEF OpenFile, NotReading, StreamOnly, ReaderInv
<1>7. CASE Search \/ NextPTS \/ DemuxNextPacket
  <2>1. PICK n \in Nat : StartRead(n)
    BY <1>7, Sizes DEF Search, NextPTS, DemuxNextPacket
  <2>2. UNCHANGED <<opc, packets, len>>
    BY <1>7 DEF Search, NextPTS, DemuxNextPacket, StreamOnly
  <2> QED
    BY <1>1, <2>1, <2>2, StartReads
<1>8. CASE DemuxSeek
  <2>1. fpos' \in 0 .. len
    <3>1. len - FromEnd \in Int
      BY <1>1, Sizes
    <3> QED
      BY <1>1, <1>8, <3>1, Clamped DEF DemuxSeek
  <2> QED
    BY <1>1, <1>8, <2>1 DEF DemuxSeek, NotReading, StreamOnly, ReaderInv
<1>9. CASE NoPTS
  BY <1>1, <1>9 DEF NoPTS, BackToLast, StreamOnly, ReaderInv
<1>10. CASE AskLength
  BY <1>10, AskLengthKeeps
<1>11. CASE SyncRead \/ SyncReadFails
  BY <1>11, SyncReadEnds
<1>12. LoadCreates \/ CallRun \/ Calling \/ RunFails \/ RunReturns \/ LoadReturns
        \/ ClearSocket \/ CallExit \/ ExitReturns \/ Close
        => UNCHANGED <<reader, packets, len>> /\ (opc' = opc \/ opc # "open")
  BY DEF LoadCreates, CallRun, Calling, RunFails, RunReturns, LoadReturns, ClearSocket,
         CallExit, ExitReturns, Close, udp
<1>13. OpenSocket \/ Bind \/ TakeRequest \/ CloseOnExit \/ ReplyResult \/ ReplyAgain
        \/ Replied \/ CheckForRequest \/ Recv \/ RecvFails \/ FallSilent
        => UNCHANGED <<reader, packets, len, opc>>
  BY DEF OpenSocket, Bind, TakeRequest, CloseOnExit, ReplyResult, ReplyAgain, Replied,
         CheckForRequest, Recv, RecvFails, FallSilent, udp
<1>14. CASE UNCHANGED uvars
  BY <1>2, <1>14 DEF uvars, udp
<1>15. opc # "open" => rpc = "none"
  BY DEF ReaderInv
<1> QED
  BY <1>2, <1>3, <1>4, <1>5, <1>6, <1>7, <1>8, <1>9, <1>10, <1>11, <1>12, <1>13, <1>14, <1>15
     DEF UdpNext, OwnerStep, SocketThread, Reader

------------------------------------------------------------------------------
\* Every behaviour of owner, socket thread, network and splitter keeps IInv.
THEOREM Invariance == UdpSpec => []IInv
<1>1. UdpInit => IInv
  <2> SUFFICES ASSUME UdpInit
               PROVE  IInv
    OBVIOUS
  <2>1. ThreadInv
    BY ThreadIsWorker DEF UdpInit, Init, ThreadInv
  <2>2. BuffInv
    BY DEF UdpInit, BuffInv
  <2>3. ReaderInv
    BY DEF UdpInit, ReaderInv
  <2>4. ListInv
    BY FS_EmptySet DEF UdpInit, ListInv, Pieces
  <2> QED
    BY <2>1, <2>2, <2>3, <2>4 DEF IInv
<1>2. IInv /\ [UdpNext]_uvars => IInv'
  BY ThreadStep, BuffStep, ReaderStep, ListStep DEF IInv
<1> QED
  BY <1>1, <1>2, PTL DEF UdpSpec

\* The list stays bounded whatever the reader does and however long the
\* datagrams are, and what is in it came from the socket of this Load.
THEOREM ListIsSound == UdpSpec => []ListSound
<1>1. ASSUME IInv
      PROVE  ListBound
  <2>1. CASE packets # {}
    <3>1. PICK h \in packets : Covers(packets, h, len)
      BY <1>1, <2>1 DEF IInv, ListInv
    <3>2. ListSize = len - h.start
      BY <1>1, <3>1, Ends DEF IInv
    <3>3. len - h.start < 2 * First + Wide
      BY <1>1 DEF IInv, ListInv
    <3>4. 2 * First + Wide = 2 * First + Packet + Datagram
      BY Sizes DEF Wide
    <3> QED
      BY <3>2, <3>3, <3>4 DEF ListBound
  <2> QED
    BY <2>1 DEF ListBound
<1>2. IInv => NothingStale
  BY DEF IInv, ListInv, ThreadInv, NothingStale
<1>3. IInv => ListSound
  BY <1>1, <1>2 DEF ListSound
<1> QED
  BY <1>3, Invariance, PTL

\* What lies no more than Keep behind the furthest read is still in the list,
\* up to its end: SetPointer does not refuse it.
THEOREM NothingLost == UdpSpec => []StillThere
<1>1. ASSUME IInv, rpc = "sync", fpos + Keep >= reached
      PROVE  CanPoint(fpos)
  <2>1. packets # {} /\ fpos \in Nat /\ fpos <= len /\ reached \in Nat
    BY <1>1 DEF IInv, ReaderInv, ListInv
  <2>2. PICK h \in packets : Covers(packets, h, len) /\ Reaches(h, reached)
    BY <1>1, <2>1 DEF IInv, ListInv
  <2>3. HeadStart = h.start /\ TailEnd = len
    BY <1>1, <2>2, Ends DEF IInv
  <2>4. h.start \in Nat
    BY <1>1 DEF IInv, ListInv, Pieces
  <2>5. h.start <= fpos
    BY <1>1, <2>1, <2>2, <2>4, Sizes DEF Reaches
  <2> QED
    BY <2>1, <2>3, <2>5 DEF CanPoint
<1>2. IInv => StillThere
  BY <1>1 DEF StillThere
<1> QED
  BY <1>2, Invariance, PTL
============================================================================
