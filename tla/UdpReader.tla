------------------------------ MODULE UdpReader ------------------------------
(***************************************************************************)
(* Playing a live stream: CUDPStream (src/src/filters/reader/udpreader),   *)
(* its socket thread, which is a CAMThread and is started and stopped with *)
(* the handshake of CamThread, and the file it is to the MPEG splitter     *)
(* (CBaseSplitterFile, CMpegSplitterFile, CMpegSplitterFilter).            *)
(*                                                                         *)
(* Three threads: the one that calls Load and, in the end, Clear; the      *)
(* socket thread; the splitter's, which searches the stream, seeks to its  *)
(* end and demultiplexes.  Bytes are counted in units smaller than every   *)
(* packet; a byte is its position.  m_csLock is held for the whole of      *)
(* Append, of Size and of CAsyncRequest::Complete, so that each is a step, *)
(* except for a Read that waits for bytes: it keeps the lock.              *)
(***************************************************************************)
EXTENDS CamThread, FiniteSetsExt

CONSTANTS
    First,       \* BUFF_SIZE_FIRST
    Packet,      \* the bytes the socket thread collects for a packet: 65536
    Datagram,    \* the most one datagram brings: 65535
    Keep,        \* what Read leaves behind its position: 2048
    Cache,       \* DEFAULT_CACHE_LENGTH, the most one read asks for
    Demand,      \* what DemuxLoop wants ahead before it takes a packet
    FromEnd,     \* how far from the end of a live stream DemuxSeek goes
    CheckEvery,  \* datagrams between two calls of CheckRequest
    MaxLen,      \* bound on the length of the stream that is loaded first
    MaxLenAgain, \* and of those loaded later
    MaxLoads     \* bound on the number of Loads

ASSUME UdpAssumption ==
    /\ {First, Packet, Datagram, Keep, Cache, Demand, FromEnd, CheckEvery, MaxLen, MaxLenAgain}
           \subseteq Nat \ {0}
    /\ Packet + Datagram <= 2 * First
    /\ MaxLoads \in Nat /\ Cardinality(Clients) = 1 /\ Cardinality(Workers) = 1

Owner  == CHOOSE c \in Clients : TRUE
Thread == CHOOSE w \in Workers : TRUE

VARIABLES
    opc,        \* where the owner is: "new", "created", "run", "filling", "open",
                \* "clear", "callExit", "exit", "close", "join"
    reply,      \* the HRESULT the thread last replied with is S_OK
    socket,     \* m_socket >= 0
    spc,        \* where the socket thread is
    turn,       \* i % CheckEvery
    buff,       \* buffsize
    packets,    \* m_packets
    len,        \* m_len
    pos,        \* m_pos of the stream
    drop,       \* m_drop
    rpc,        \* where the splitter's thread is: "none", "idle", "ask", "sync", "spin"
    mode,       \* what it does: "search", "seek", "loop"
    fpos,       \* m_pos of the file
    cached,     \* m_cachepos and m_cachelen
    want,       \* what is left to be read
    asked,      \* maxlen: what SyncRead is to bring
    from,       \* where the packet starts that is being read
    last,       \* where the last one NextPTS read starts, if it has read one
    \* history
    life,       \* the number of Loads
    alive,      \* the network still sends
    reached,    \* the furthest position this stream has been read from
    slow        \* a Load gave up on a thread that was opening its socket

stream == <<packets, len, pos, drop>>
owner  == <<opc, life>>
thread == <<socket, spc, turn, buff>>
reader == <<rpc, mode, fpos, cached, want, asked, from, last>>
udp    == <<owner, thread, stream, reader, reached, reply, alive, slow>>
uvars  == <<vars, udp>>

UdpInit ==
    /\ Init
    /\ opc = "new" /\ reply = FALSE /\ socket = FALSE /\ spc = "none" /\ turn = 0 /\ buff = 0
    /\ packets = {} /\ len = 0 /\ pos = 0 /\ drop = FALSE
    /\ rpc = "none" /\ mode = "search" /\ fpos = 0 /\ cached = [at |-> 0, len |-> 0]
    /\ want = 0 /\ asked = 0 /\ from = 0 /\ last = {}
    /\ life = 0 /\ alive = TRUE /\ slow = FALSE /\ reached = 0

------------------------------------------------------------------------------
(* The list of packets.                                                    *)
HeadStart == Min({p.start : p \in packets})
TailEnd   == Max({p.end : p \in packets})
ListSize  == TailEnd - HeadStart

(* SetPointer succeeds.                                                    *)
CanPoint(at) ==
    IF packets = {} THEN at = 0 ELSE HeadStart <= at /\ at <= TailEnd

(* What Read leaves of the list when it reads from a position on: as it    *)
(* goes from packet to packet it removes those it has left behind.         *)
RemainingTight(at) == IF First <= at THEN {p \in packets : p.end > at} ELSE packets
Remaining(at) ==
    IF First <= at THEN {p \in packets : p.end > at - Keep} ELSE packets

NotReading == UNCHANGED <<want, asked, from, last>>

------------------------------------------------------------------------------
(* The owner: Load.                                                        *)
LoadCreates ==
    /\ opc = "new" /\ life < MaxLoads /\ Create(Thread)
    /\ opc' = "created" /\ life' = life + 1 /\ spc' = "setup"
    /\ UNCHANGED <<socket, turn, buff, stream, reader, reached, reply, alive, slow>>

CallRun ==
    /\ opc = "created" /\ Lock(Owner) /\ command'[NextCall] = "work" /\ opc' = "run"
    /\ UNCHANGED <<life, thread, stream, reader, reached, reply, alive, slow>>

(* CallWorker as CamThread has it.  Ten seconds may pass while the thread  *)
(* opens its socket; otherwise only when nobody is there to answer, or the *)
(* thread waits for the network.                                           *)
Unanswered ==
    \/ spc \in {"setup", "bind"} \/ wpc[Thread] = "none"
    \/ spc = "command" /\ wpc[Thread] = "getRequest" /\ ~eventSend
    \/ spc = "recv" /\ socket

Calling ==
    /\ \/ SetParam(Owner) \/ Signal(Owner) \/ Wake(Owner)
       \/ TimeOut(Owner) /\ Unanswered
       \/ ClearParam(Owner) \/ ClearComplete(Owner)
    /\ UNCHANGED udp

RunFails ==
    /\ opc = "run" /\ opc' = "clear"
    /\ \/ ClearSend(Owner) /\ slow' = TRUE
       \/ Answered(Owner) /\ ~reply /\ UNCHANGED slow
    /\ UNCHANGED <<life, thread, stream, reader, reached, reply, alive>>

RunReturns ==
    /\ opc = "run" /\ Answered(Owner) /\ reply /\ opc' = "filling"
    /\ UNCHANGED <<life, thread, stream, reader, reached, reply, alive, slow>>

LoadReturns ==                     \* three seconds, or a million bytes
    /\ opc = "filling" /\ opc' = "open"
    /\ UNCHANGED <<vars, life, thread, stream, reader, reached, reply, alive, slow>>

(* The splitter is stopped and gone before the stream is; its thread looks *)
(* for the request to stop when it has come back from DemuxSeek.           *)
Release ==
    /\ opc = "open" /\ rpc \in {"none", "idle"} /\ mode # "seek" /\ opc' = "clear" /\ rpc' = "none"
    /\ mode' = "search" /\ fpos' = 0 /\ cached' = [at |-> 0, len |-> 0] /\ NotReading
    /\ UNCHANGED <<vars, life, thread, stream, reached, reply, alive, slow>>

(* Clear.                                                                  *)
LeaveSocket == UNCHANGED socket
CloseSocket == socket' = FALSE

ClearSocket ==
    /\ opc = "clear" /\ opc' = "callExit" /\ CloseSocket
    /\ UNCHANGED <<vars, life, spc, turn, buff, stream, reader, reached, reply, alive, slow>>

CallExit ==
    /\ opc = "callExit" /\ hThread /\ Lock(Owner) /\ command'[NextCall] = "exit"
    /\ opc' = "exit"
    /\ UNCHANGED <<life, thread, stream, reader, reached, reply, alive, slow>>

ExitReturns ==
    /\ opc = "exit" /\ opc' = "close" /\ (Answered(Owner) \/ ClearSend(Owner))
    /\ UNCHANGED <<life, thread, stream, reader, reached, reply, alive, slow>>

Close ==
    /\ opc = "close" /\ opc' = "join" /\ hThread' = FALSE
    /\ UNCHANGED <<cvars, evars, wvars, dwParam, dwReturnVal, life, thread, stream, reader, reached,
                   reply, alive, slow>>

AssumeEnded == TRUE
ThreadEnded == wpc[Thread] = "none"

Cleared ==
    /\ opc = "join" /\ ThreadEnded /\ opc' = "new"
    /\ packets' = {} /\ len' = 0 /\ pos' = 0 /\ drop' = FALSE /\ reached' = 0
    /\ UNCHANGED <<vars, life, thread, reader, reply, alive, slow>>

OwnerStep ==
    \/ CallRun \/ Calling \/ RunFails \/ RunReturns \/ LoadReturns
    \/ ClearSocket \/ CallExit \/ ExitReturns \/ Close \/ Cleared

------------------------------------------------------------------------------
(* The socket thread.                                                      *)
OpenSocket ==
    /\ spc = "setup" /\ spc' = "bind" /\ socket' \in BOOLEAN
    /\ UNCHANGED <<vars, owner, turn, buff, stream, reader, reached, reply, alive, slow>>

Bind ==                            \* and the options; a failure closes it again
    /\ spc = "bind" /\ spc' = "command" /\ socket' \in {FALSE, socket}
    /\ UNCHANGED <<vars, owner, turn, buff, stream, reader, reached, reply, alive, slow>>

TakeRequest ==
    /\ spc = "command" /\ (GetRequest(Thread) \/ ReadParam(Thread)) /\ UNCHANGED udp

CloseOnExit ==
    /\ wpc[Thread] = "exiting" /\ wpc' = [wpc EXCEPT ![Thread] = "serving"] /\ socket' = FALSE
    /\ UNCHANGED <<cvars, evars, taken, served, hThread, dwParam, dwReturnVal, owner, spc,
                   turn, buff, stream, reader, reached, reply, alive, slow>>

ReplyResult ==                     \* S_OK to CMD_EXIT
    /\ ReplyValue(Thread) /\ reply' = (socket \/ IsExit(taken[Thread]))
    /\ UNCHANGED <<owner, thread, stream, reader, reached, alive, slow>>

ReplyAgain == ReplyReset(Thread) /\ UNCHANGED udp

Replied ==
    /\ ReplySignal(Thread) /\ turn' = 0 /\ buff' = 0
    /\ spc' = IF IsExit(taken[Thread]) THEN "none" ELSE "check"
    /\ UNCHANGED <<owner, socket, stream, reader, reached, reply, alive, slow>>

CheckForRequest ==
    /\ spc = "check"
    /\ spc' = IF turn = 0 /\ eventSend THEN "command" ELSE "recv"
    /\ UNCHANGED <<vars, owner, socket, turn, buff, stream, reader, reached, reply, alive, slow>>

Room == IF life = 1 THEN MaxLen ELSE MaxLenAgain

NextTurn == turn' = (turn + 1) % CheckEvery

Recv ==
    /\ spc = "recv" /\ socket /\ alive /\ len < Room
    /\ \E n \in 1 .. Datagram : buff' = buff + n
    /\ IF buff' >= Packet \/ len = 0
       THEN spc' = "append" /\ UNCHANGED turn
       ELSE spc' = "check" /\ NextTurn
    /\ UNCHANGED <<vars, owner, socket, stream, reader, reached, reply, alive, slow>>

RecvFails ==                       \* the socket was closed or never opened
    /\ spc = "recv" /\ ~socket /\ spc' = "check" /\ NextTurn
    /\ UNCHANGED <<vars, owner, socket, buff, stream, reader, reached, reply, alive, slow>>

(* Append: it stops taking packets when the reader is too far behind and   *)
(* takes them again when the list is short.                                *)
TooMuchOnceRead == pos >= First /\ ListSize >= First
TooMuch == (pos >= First /\ ListSize >= First) \/ ListSize >= 2 * First

DropsBlindly == drop \/ TooMuch
Drops == IF drop THEN ListSize > First ELSE TooMuch

Append ==
    /\ spc = "append" /\ rpc # "spin"
    /\ spc' = "check" /\ NextTurn /\ buff' = 0
    /\ IF Cardinality(packets) > 1 /\ Drops
       THEN drop' = TRUE /\ UNCHANGED <<packets, len, pos>>
       ELSE /\ drop' = (drop /\ Cardinality(packets) <= 1)
            /\ packets' = packets \cup {[start |-> len, end |-> len + buff, of |-> life]}
            /\ len' = len + buff /\ UNCHANGED pos
    /\ UNCHANGED <<vars, owner, socket, reader, reached, reply, alive, slow>>

SocketThread ==
    \/ OpenSocket \/ Bind \/ TakeRequest \/ CloseOnExit \/ ReplyResult \/ ReplyAgain
    \/ Replied \/ CheckForRequest \/ Recv \/ RecvFails \/ Append

FallSilent ==
    /\ alive /\ alive' = FALSE
    /\ UNCHANGED <<vars, owner, thread, stream, reader, reached, reply, slow>>

------------------------------------------------------------------------------
(* The splitter's thread.  CBaseSplitterFile::Read takes what the cache    *)
(* has, then as often as need be asks how much there is and reads that.    *)
Least(a, b) == IF a < b THEN a ELSE b
Clamp(p)  == IF p < 0 THEN 0 ELSE Least(p, len)
Remains   == len - fpos
StreamOnly == UNCHANGED <<vars, owner, thread, stream, reached, reply, alive, slow>>

(* The file is opened when something has come in, and searched.            *)
OpenFile ==
    /\ opc = "open" /\ rpc = "none" /\ len > 0 /\ rpc' = "idle"
    /\ UNCHANGED <<mode, fpos, cached>> /\ NotReading /\ StreamOnly

StartRead(n) ==
    /\ rpc = "idle" /\ rpc' = "ask" /\ want' = n /\ from' = fpos
    /\ UNCHANGED <<mode, fpos, cached, asked, last>>

Search == mode = "search" /\ Remains > 0 /\ StartRead(Cache) /\ StreamOnly

(* DemuxSeek, after the search and whenever the user seeks.                *)
DemuxSeek ==
    /\ rpc = "idle" /\ mode \in {"search", "loop"} /\ mode' = "seek"
    /\ fpos' = Clamp(len - FromEnd) /\ UNCHANGED <<rpc, cached>> /\ NotReading /\ StreamOnly

(* NextPTS goes on packet by packet until it finds a time or comes to the  *)
(* end, and then back to the start of the last packet it could read.       *)
NextPTS == mode = "seek" /\ Remains > 0 /\ StartRead(Cache) /\ StreamOnly
BackToLast(at) ==
    mode = "seek" /\ mode' = "loop" /\ fpos' \in (IF last = {} THEN {at} ELSE last) /\ last' = {}

NoPTS ==
    /\ rpc = "idle" /\ Remains <= 0 /\ BackToLast(fpos)
    /\ UNCHANGED <<rpc, cached, want, asked, from>> /\ StreamOnly

HasMoreData == Remains >= Demand

DemuxNextPacket ==
    /\ mode = "loop" /\ HasMoreData /\ (\E n \in 1 .. Cache : StartRead(n)) /\ StreamOnly

(* The read has ended.  What its header announces may be skipped; AddStream*)
(* goes back to where it began to look for a header of the stream.         *)
Behind(at) == {Clamp(at + n) : n \in 0 .. Cache}

Demuxed(at) == mode # "seek" /\ fpos' \in Behind(at) \cup {from} /\ UNCHANGED <<mode, last>>

(* NextPTS goes on behind the packet, whose place it remembers if it got   *)
(* it; or the packet has a time; or there is no start code far and wide.   *)
NextPacket(at, got) ==
    /\ mode = "seek" /\ fpos' \in Behind(at) /\ UNCHANGED mode
    /\ last' = IF got THEN {from} ELSE last

HasPTS(got) == got /\ mode = "seek" /\ mode' = "loop" /\ fpos' = from /\ last' = {}

Ended(at, got) ==
    /\ rpc' = "idle" /\ want' = 0 /\ asked' = 0 /\ from' = 0
    /\ Demuxed(at) \/ NextPacket(at, got) \/ HasPTS(got) \/ BackToLast(at)

InCache == IF cached.at <= fpos /\ fpos < cached.at + cached.len
           THEN Least(want, cached.at + cached.len - fpos) ELSE 0

AvailableOrNot(at) == Cache
Available(at) == Least(len - at, Cache)

AskLength ==
    /\ rpc = "ask"
    /\ LET at == fpos + InCache
           left == want - InCache
           n == Available(at)
       IN  IF left = 0 \/ n <= 0
           THEN Ended(at, left = 0)
           ELSE /\ rpc' = "sync" /\ fpos' = at /\ want' = left /\ asked' = n
                /\ UNCHANGED <<mode, from, last>>
    /\ UNCHANGED cached /\ StreamOnly

SyncReadFails ==
    /\ rpc = "sync" /\ ~CanPoint(fpos) /\ Ended(fpos, FALSE)
    /\ UNCHANGED cached /\ StreamOnly

(* Read goes round and round for bytes beyond the last packet, and only    *)
(* Append, which needs the lock, could bring them.                         *)
Spin ==
    /\ rpc' = "spin" /\ reached' = Max({reached, TailEnd})
    /\ pos' = TailEnd /\ packets' = Remaining(TailEnd)
    /\ UNCHANGED <<mode, fpos, cached, want, asked, from, last>>

Fetch ==
    /\ reached' = Max({reached, fpos}) /\ pos' = fpos + asked /\ packets' = Remaining(fpos)
    /\ cached' = [at |-> fpos, len |-> asked]
    /\ LET n == Least(want, asked)
       IN  IF n = want THEN Ended(fpos + n, TRUE)
           ELSE /\ rpc' = "ask" /\ fpos' = fpos + n /\ want' = want - n
                /\ UNCHANGED <<mode, asked, from, last>>

SyncRead ==
    /\ rpc = "sync" /\ CanPoint(fpos)
    /\ IF fpos + asked > TailEnd THEN Spin ELSE Fetch
    /\ UNCHANGED <<vars, owner, thread, len, drop, reply, alive, slow>>

Reader ==
    \/ NextPTS \/ NoPTS \/ DemuxNextPacket
    \/ AskLength \/ SyncReadFails \/ SyncRead

UdpNext ==
    \/ LoadCreates \/ Release \/ OwnerStep \/ SocketThread \/ FallSilent
    \/ OpenFile \/ Search \/ DemuxSeek \/ Reader

(* The threads go on; the network may fall silent, but while it does not   *)
(* it sends.                                                               *)
UdpSpec == /\ UdpInit /\ [][UdpNext]_uvars
           /\ WF_uvars(OwnerStep) /\ WF_uvars(SocketThread) /\ WF_uvars(Reader)
------------------------------------------------------------------------------
(* Packets follow one another without a hole, the list ends where m_len    *)
(* says, and each variable has values of its kind.                         *)
UdpTypeOK ==
    /\ opc \in {"new", "created", "run", "filling", "open", "clear", "callExit", "exit",
               "close", "join"}
    /\ spc \in {"none", "setup", "bind", "command", "check", "recv", "append"}
    /\ rpc \in {"none", "idle", "ask", "sync", "spin"} /\ mode \in {"search", "seek", "loop"}
    /\ {reply, socket, drop, alive, slow} \subseteq BOOLEAN
    /\ turn < CheckEvery /\ buff < Packet + Datagram /\ (rpc # "none" => fpos <= len)
    /\ packets # {} => TailEnd = len /\ pos <= len
    /\ \A p \in packets : p.start = HeadStart \/ \E q \in packets : q.end = p.start

(* The list is bounded whatever the reader does: also when it stands still *)
(* before it has reached the position from which on it is watched.         *)
ListBound == packets # {} => ListSize < 2 * First + Packet + Datagram

(* Every packet came from the socket of the present Load: when Clear       *)
(* empties the list the thread that filled it is gone.                     *)
NothingStale == \A p \in packets : p.of = life /\ opc # "new"

(* The list is sound: both of these hold of it.                            *)
ListSound == ListBound /\ NothingStale

(* What the splitter asks for is still there, unless it goes back by more  *)
(* than Keep from where it has been: also when NextPTS goes back to the    *)
(* start of a packet whose first bytes came from the cache, or AddStream to*)
(* the start of what it has searched.                                      *)
StillThere == rpc = "sync" /\ fpos + Keep >= reached => CanPoint(fpos)

(* A demultiplexer that waits for more gets more as long as the network    *)
(* sends: Append does not go on dropping what it waits for.  It does if    *)
(* the last read began before First and went beyond: it has removed        *)
(* nothing, the list is too long, the reader waits until more has come in, *)
(* and nothing more is taken until it reads.                               *)
NoneRemoved == cached.at < First
Waits == mode = "loop" /\ rpc = "idle" /\ ~HasMoreData
Stalled == drop /\ NoneRemoved /\ ListSize > First
FlowResumes == Waits ~> (~Waits \/ ~alive \/ len >= Room \/ Stalled)

(* The splitter's thread never stays in a read, which would keep the lock  *)
(* the bytes it waits for have to be appended under, and a seek ends.  Not *)
(* so one that goes back to a position that Read has given up: NextPTS     *)
(* asks for it for ever.                                                   *)
GivenUp == packets # {} /\ fpos < HeadStart
ReaderGoesOn == []<>(rpc = "none" \/ (rpc = "idle" /\ mode # "seek") \/ GivenUp)

(* Load and Clear return, however silent the network is: closing the       *)
(* socket brings the thread back to where it looks for its request.  Only  *)
(* a Load that gave up on a thread that still opened its socket may leave  *)
(* Close waiting for a thread whose request was wiped out.                 *)
OwnerReturns == []<>(opc \in {"new", "open"} \/ (slow /\ opc = "join"))
==============================================================================
