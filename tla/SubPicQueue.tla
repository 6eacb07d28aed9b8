---------------------------- MODULE SubPicQueue ----------------------------
(***************************************************************************)
(* CSubPicQueue (src/src/subpic/ISubPic.cpp): a thread renders subtitle    *)
(* pictures ahead of the clock into a queue that the video presenter looks *)
(* up.  The clock, the window thread (another subtitle, the destructor)    *)
(* and the thread of a subtitle stream embedded in the file (a new line of *)
(* text) tell it by flags and events; only the queue itself and the        *)
(* provider have a lock.  Nobody tells it of a picture that arrives in a   *)
(* VobSub stream, or that a new segment has emptied a stream.              *)
(*                                                                         *)
(* A line of a subtitle is <<start, stop>>.  Provider 1 is the embedded    *)
(* stream, of text or of VobSub pictures, whose lines arrive one by one; 0 *)
(* is NULL.  All providers share one lock, m_csSubLock.                    *)
(***************************************************************************)
EXTENDS Integers, Sequences, FiniteSetsExt

CONSTANTS
    MaxTime,       \* times are 0 .. MaxTime
    MaxSubPic,     \* m_nMaxSubPic
    Lookahead,     \* the sixty seconds a picture may be ahead of the clock
    StreamLines,   \* lines that may arrive in the embedded stream, if it is text,
    PictureLines,  \* or if it is pictures: these follow one another
    FileLines,     \* lines of the subtitle files
    NumProviders,  \* providers: the stream and NumProviders - 1 files
    Animated,      \* providers whose pictures last one frame and not a whole segment
    MayTear,       \* whether the 64 bits of m_rtNow are stored in two halves
    MaxOps         \* bound on the calls of the clients

Times == 0 .. MaxTime
Null  == 0

ASSUME SubPicQueueAssumption ==
    /\ {MaxTime, MaxSubPic, Lookahead, NumProviders, MaxOps} \subseteq Nat /\ MaxSubPic > 0
    /\ Animated \subseteq 1 .. NumProviders /\ MayTear \in BOOLEAN
    /\ StreamLines \cup PictureLines \cup FileLines \subseteq {d \in Times \X Times : d[1] < d[2]}
    /\ \A d, e \in PictureLines : d = e \/ d[2] <= e[1] \/ e[2] <= d[1]

AllLines == StreamLines \cup PictureLines \cup FileLines

VARIABLES
    now, torn,        \* m_rtNow; its store is half done
    eventTime, eventExit, breakBuffering, rtInvalidate,
    provider,         \* m_pSubPicProvider
    subtitleId,       \* CGraphCore::m_nSubtitleId
    vobsub,           \* the stream is a CVobSubStream
    lines,            \* the lines the stream has received
    subLock,          \* owner of m_csSubLock, "none" when free
    cpc, arg,         \* where each client is; what it is setting
    ops,              \* calls so far
    queue, nowLast,   \* m_Queue, m_rtNowLast
    wpc, again, rtNow, prov, pos, cur,   \* the thread and its locals
    passed,           \* stop of the last line skipped since UpdateQueue
    lost,             \* the thread cannot know of an invalidation or a seek
    holed,            \* no picture could be allocated for a segment since the last
                      \* time the clock went back
    silent            \* lines that came or went without an invalidation since the
                      \* thread last filled an empty queue

clock  == <<now, torn>>
flags  == <<eventTime, eventExit, breakBuffering, rtInvalidate>>
source == <<provider, subtitleId, vobsub, lines>>
client == <<cpc, arg, ops>>
local  == <<again, rtNow, prov, pos, cur>>
ghosts == <<passed, lost, holed, silent>>
vars   == <<clock, flags, source, subLock, client, queue, nowLast, wpc, local, ghosts>>

Clients == {"clock", "window", "stream"}
Arriving == IF vobsub THEN PictureLines ELSE StreamLines

TypeOK ==
    /\ now \in Times /\ torn \in BOOLEAN
    /\ eventTime \in BOOLEAN /\ eventExit \in BOOLEAN /\ breakBuffering \in BOOLEAN
    /\ rtInvalidate \in Times \cup {-1}
    /\ provider \in 0 .. NumProviders /\ subtitleId \in 0 .. NumProviders
    /\ vobsub \in BOOLEAN /\ lines \subseteq Arriving /\ silent \subseteq Arriving
    /\ subLock \in {"none", "window", "worker"}
    /\ cpc \in [Clients -> {"idle", "locked", "invalidate", "break", "signal", "destroy",
                            "close", "gone"}]
    /\ arg \in [Clients -> Times \cup 0 .. NumProviders \cup {-1}] /\ ops \in 0 .. MaxOps
    /\ queue \in Seq([start : Times, stop : Times, prov : 1 .. NumProviders,
                      subs : SUBSET AllLines])
    /\ Len(queue) <= MaxSubPic
    /\ prov \in 0 .. NumProviders
    /\ nowLast \in Times /\ rtNow \in Times /\ pos \in Times /\ cur \in Times
    /\ wpc \in {"wait", "update", "fetch", "lock", "loop", "skip", "ahead", "render",
                "handle", "remove", "reset", "gone"}
    /\ again \in BOOLEAN /\ passed \in Times
    /\ lost \in BOOLEAN /\ holed \in BOOLEAN

Init ==
    /\ now = 0 /\ torn = FALSE /\ nowLast = 0
    /\ eventTime = FALSE /\ eventExit = FALSE /\ breakBuffering = FALSE
    /\ rtInvalidate \in Times \cup {-1}         \* not initialised
    /\ provider = Null /\ subtitleId = Null /\ lines = {} /\ subLock = "none"
    /\ vobsub \in BOOLEAN /\ (vobsub => 1 \notin Animated)
    /\ cpc = [c \in Clients |-> "idle"] /\ arg = [c \in Clients |-> -1] /\ ops = 0
    /\ queue = <<>> /\ wpc = "wait" /\ again = TRUE
    /\ rtNow = 0 /\ prov = Null /\ pos = 0 /\ cur = 0
    /\ passed = 0 /\ lost = FALSE /\ holed = FALSE /\ silent = {}

------------------------------------------------------------------------------
(* What a provider shows: the lines that cover a time, and the segments    *)
(* between two neighbouring starts and stops in which it shows anything.   *)
Lines(p) == IF p = 1 THEN lines ELSE IF p = Null THEN {} ELSE FileLines
Cover(p, t) == {d \in Lines(p) : d[1] <= t /\ t < d[2]}
Bounds(p) == {d[1] : d \in Lines(p)} \cup {d[2] : d \in Lines(p)}
Segments(p) ==
    {s \in Bounds(p) \X Bounds(p) :
        s[1] < s[2] /\ Cover(p, s[1]) # {} /\ ~\E b \in Bounds(p) : s[1] < b /\ b < s[2]}

(* A read of m_rtNow while it is being stored may give any time.           *)
Now == IF torn THEN Times ELSE {now}

------------------------------------------------------------------------------
(* The clients.                                                            *)
Call(c) == cpc[c] = "idle" /\ cpc["window"] \notin {"destroy", "close", "gone"}
           /\ ops < MaxOps /\ ops' = ops + 1
Go(c, label) == cpc' = [cpc EXCEPT ![c] = label]

SetTime(t) ==
    /\ Call("clock") /\ Go("clock", "signal")
    /\ now' = t /\ torn' = MayTear
    /\ UNCHANGED <<flags, source, subLock, arg, queue, nowLast, wpc, local, ghosts>>

SetTimeDone ==
    /\ cpc["clock"] = "signal" /\ Go("clock", "idle")
    /\ torn' = FALSE /\ eventTime' = TRUE
    /\ UNCHANGED <<now, eventExit, breakBuffering, rtInvalidate, source, subLock, arg, ops,
                   queue, nowLast, wpc, local, ghosts>>

(* UpdateSubtitle: SetSubPicProvider under m_csSubLock, or without it when *)
(* the subtitle is switched off.                                           *)
UpdateSubtitle(p) ==
    /\ Call("window") /\ Go("window", "locked")
    /\ IF p = Null THEN UNCHANGED <<subLock, subtitleId>>
       ELSE subLock = "none" /\ subLock' = "window" /\ subtitleId' = p
    /\ arg' = [arg EXCEPT !["window"] = p]
    /\ UNCHANGED <<clock, flags, provider, vobsub, lines, queue, nowLast, wpc, local, ghosts>>

SetSubPicProvider ==
    /\ cpc["window"] = "locked" /\ Go("window", "invalidate")
    /\ provider' = arg["window"]
    /\ arg' = [arg EXCEPT !["window"] = -1]
    /\ UNCHANGED <<clock, flags, subtitleId, vobsub, lines, subLock, ops, queue, nowLast,
                   wpc, local, ghosts>>

(* CSubtitleInputPin::Receive adds a line of text under the lock and then  *)
(* calls InvalidateSubtitle without it.  It does not after a picture, which *)
(* CVobSubStream::Add puts in the place of all that start no earlier.      *)
Receive(d) ==
    /\ Call("stream") /\ subLock = "none" /\ d \in Arriving
    /\ \/ /\ ~vobsub /\ d \notin lines
          /\ lines' = lines \cup {d}
          /\ Go("stream", "invalidate") /\ arg' = [arg EXCEPT !["stream"] = d[1]]
          /\ UNCHANGED silent
       \/ /\ vobsub
          /\ lines' = {e \in lines : e[1] < d[1]} \cup {d}
          /\ silent' = silent \cup {d} \cup (lines \ lines')
          /\ UNCHANGED <<cpc, arg>>
    /\ UNCHANGED <<clock, flags, provider, subtitleId, vobsub, subLock, queue, nowLast, wpc,
                   local, passed, lost, holed>>

(* A seek reaches the pin as a new segment, which empties the stream.      *)
NewSegment ==
    /\ Call("stream") /\ subLock = "none" /\ lines # {}
    /\ lines' = {} /\ silent' = silent \cup lines
    /\ UNCHANGED <<clock, flags, provider, subtitleId, vobsub, subLock, cpc, arg, queue,
                   nowLast, wpc, local, passed, lost, holed>>

InvalidateSubtitle ==
    /\ cpc["stream"] = "invalidate" /\ subtitleId # 1 /\ Go("stream", "idle")
    /\ UNCHANGED <<clock, flags, source, subLock, arg, ops, queue, nowLast, wpc, local, ghosts>>

(* Invalidate stores the time, then the flag, then sets the event.  An     *)
(* invalidation is lost if it falls between the removal of the pictures    *)
(* and the reset of the flag, or takes the place of an earlier time that   *)
(* the thread has not seen.                                                *)
Pending == breakBuffering \/ \E c \in Clients : cpc[c] = "break"

StoreInvalidate(c) ==
    /\ cpc[c] = "invalidate" /\ (c = "stream" => subtitleId = 1) /\ Go(c, "break")
    /\ rtInvalidate' = arg[c]
    /\ lost' = (lost \/ wpc = "reset" \/ (Pending /\ rtInvalidate < arg[c]))
    /\ UNCHANGED <<clock, eventTime, eventExit, breakBuffering, source, subLock, arg, ops,
                   queue, nowLast, wpc, local, passed, holed, silent>>

Break == breakBuffering' = TRUE

BreakBuffering(c) ==
    /\ cpc[c] = "break" /\ Go(c, "signal")
    /\ Break
    /\ UNCHANGED <<clock, eventTime, eventExit, rtInvalidate, source, subLock, arg, ops,
                   queue, nowLast, wpc, local, ghosts>>

SignalInvalidate(c) ==
    /\ c # "clock" /\ cpc[c] = "signal" /\ Go(c, "idle")
    /\ eventTime' = TRUE
    /\ subLock' = IF subLock = c THEN "none" ELSE subLock
    /\ UNCHANGED <<clock, eventExit, breakBuffering, rtInvalidate, source, arg, ops, queue,
                   nowLast, wpc, local, ghosts>>

(* The destructor, when nobody uses the queue any more.                    *)
SetExit == eventExit' = TRUE

Destroy ==
    /\ \/ /\ \A c \in Clients : cpc[c] = "idle"
          /\ Go("window", "destroy") /\ Break /\ UNCHANGED eventExit
       \/ /\ cpc["window"] = "destroy" /\ Go("window", "close")
          /\ SetExit /\ UNCHANGED breakBuffering
       \/ /\ cpc["window"] = "close" /\ wpc = "gone" /\ Go("window", "gone")
          /\ UNCHANGED <<eventExit, breakBuffering>>
    /\ UNCHANGED <<clock, eventTime, rtInvalidate, source, subLock, arg, ops, queue, nowLast,
                   wpc, local, ghosts>>

ClientStep ==
    \/ SetTimeDone \/ SetSubPicProvider \/ InvalidateSubtitle
    \/ \E c \in Clients : StoreInvalidate(c) \/ BreakBuffering(c) \/ SignalInvalidate(c)
    \/ cpc["window"] \in {"destroy", "close"} /\ Destroy

Client ==
    \/ \E t \in Times : SetTime(t)
    \/ \E p \in 0 .. NumProviders : UpdateSubtitle(p)
    \/ \E d \in StreamLines \cup PictureLines : Receive(d)
    \/ NewSegment \/ Destroy \/ ClientStep

------------------------------------------------------------------------------
(* The thread.  EVENT_EXIT goes before EVENT_TIME.                         *)
ClientsUnchanged == UNCHANGED <<clock, eventExit, rtInvalidate, source, client>>
To(label) == wpc' = label

Wait ==
    /\ wpc = "wait"
    /\ IF eventExit THEN To("gone") /\ UNCHANGED <<eventTime, again>>
       ELSE (eventTime \/ again) /\ To("update") /\ eventTime' = FALSE /\ again' = FALSE
    /\ UNCHANGED <<breakBuffering, subLock, queue, nowLast, rtNow, prov, pos, cur, ghosts>>
    /\ ClientsUnchanged

(* What is left of a queue when only the places of I stay, in their order. *)
Places(I) ==
    CHOOSE f \in [1 .. Cardinality(I) -> I] :
        \A m, n \in 1 .. Cardinality(I) : m < n => f[m] < f[n]
Kept(q, I) == [n \in 1 .. Cardinality(I) |-> q[Places(I)[n]]]

Stops(q) == {q[i].stop : i \in 1 .. Len(q)}
FromClock(t, q) == t                                    \* variant: fills from the clock on
FillFrom(t, q) == Max({t} \cup Stops(q))

SeekIgnored(t) == FALSE                                 \* variant
SoughtBack(t) == t < nowLast

(* That LookupSubPic and UpdateQueue look at the end of a segment makes no  *)
(* difference: CopyTo leaves it behind.                                    *)
UpdateQueue(t) ==
    /\ wpc = "update" /\ To("fetch")
    /\ queue' = IF SoughtBack(t) THEN <<>>
                ELSE Kept(queue, {i \in 1 .. Len(queue) : queue[i].stop > t})
    /\ rtNow' = FillFrom(t, queue')
    /\ nowLast' = t
    /\ lost' = (lost \/ (nowLast <= t /\ t < passed)) /\ passed' = 0
    /\ holed' = (holed /\ ~SoughtBack(t))
    /\ UNCHANGED <<eventTime, breakBuffering, subLock, again, prov, pos, cur, silent>>
    /\ ClientsUnchanged

(* GetSubPicProvider, then Lock, then GetStartPosition.                    *)
GetSubPicProvider ==
    /\ wpc = "fetch" /\ To(IF provider = Null THEN "handle" ELSE "lock")
    /\ prov' = provider
    /\ UNCHANGED <<eventTime, breakBuffering, subLock, queue, nowLast, again, rtNow, pos, cur,
                   ghosts>>
    /\ ClientsUnchanged

Lock ==
    /\ wpc = "lock" /\ subLock = "none"
    /\ subLock' = "worker" /\ pos' = rtNow /\ To("loop")
    /\ silent' = IF queue = <<>> THEN {} ELSE silent
    /\ UNCHANGED <<eventTime, breakBuffering, queue, nowLast, again, rtNow, prov, cur, passed,
                   lost, holed>>
    /\ ClientsUnchanged

(* CVobSubStream::GetStartPosition looks for the last picture that starts  *)
(* by the time asked for; without one it finds none, not even a later one. *)
HasStart == prov = 1 /\ vobsub => \E d \in lines : d[1] <= rtNow

(* The loop over the segments that end after pos.                          *)
Left == {s \in Segments(prov) : s[2] > pos /\ HasStart}
Segment == CHOOSE s \in Left : \A r \in Left : s[1] <= r[1]

Room == Len(queue) < MaxSubPic

LoopDone == To("handle") /\ subLock' = "none"

Loop ==
    /\ wpc = "loop"
    /\ IF Left # {} /\ ~breakBuffering /\ Room THEN To("skip") /\ UNCHANGED subLock
       ELSE LoopDone
    /\ UNCHANGED <<eventTime, breakBuffering, queue, nowLast, local, ghosts>>
    /\ ClientsUnchanged

(* A segment that the clock has passed is skipped.                         *)
Skip(t) ==
    /\ wpc = "skip"
    /\ IF t >= Segment[2]
         THEN To("loop") /\ pos' = Segment[2] /\ passed' = Max({passed, Segment[2]})
         ELSE To("ahead") /\ UNCHANGED <<pos, passed>>
    /\ UNCHANGED <<eventTime, breakBuffering, subLock, queue, nowLast, again, rtNow, prov, cur,
                   lost, holed, silent>>
    /\ ClientsUnchanged

TooFarAhead(t) ==
    /\ wpc = "ahead"
    /\ IF Segment[1] >= t + Lookahead
         THEN LoopDone /\ UNCHANGED cur
         ELSE To("render") /\ cur' = Max({rtNow, Segment[1]}) /\ UNCHANGED subLock
    /\ UNCHANGED <<eventTime, breakBuffering, queue, nowLast, again, rtNow, prov, pos, ghosts>>
    /\ ClientsUnchanged

(* RenderTo asks for the provider anew: without one the segment is left,   *)
(* and so it is when no picture can be allocated or copied.                *)
SegmentLeft == To("loop") /\ pos' = Segment[2] /\ UNCHANGED <<queue, cur, again>>

Render ==
    /\ wpc = "render"
    /\ LET stop == IF prov \in Animated THEN Min({cur + 1, Segment[2]}) ELSE Segment[2]
           pic == [start |-> IF prov \in Animated THEN cur ELSE Segment[1], stop |-> stop,
                   prov |-> provider, subs |-> Cover(provider, cur)]
       IN  \/ provider = Null /\ SegmentLeft /\ UNCHANGED holed
           \/ SegmentLeft /\ holed' = TRUE
           \/ /\ provider # Null /\ UNCHANGED holed
              /\ queue' = Append(queue, pic) /\ again' = TRUE /\ cur' = stop
              /\ IF stop < Segment[2] /\ Room' THEN To("render") /\ UNCHANGED pos
                 ELSE To("loop") /\ pos' = Segment[2]
    /\ UNCHANGED <<eventTime, breakBuffering, subLock, nowLast, rtNow, prov, passed, lost,
                   silent>>
    /\ ClientsUnchanged

(* Removes what an invalidation has made stale.                            *)
RemovesEarlier(s) == s.start <= rtInvalidate            \* variant: starts for stops
Survives(s) == s.stop <= rtInvalidate

HandleInvalidate ==
    /\ \/ /\ wpc = "handle"
          /\ IF breakBuffering THEN To("remove") /\ again' = TRUE
             ELSE To("wait") /\ UNCHANGED again
          /\ UNCHANGED <<breakBuffering, queue>>
       \/ /\ wpc = "remove" /\ To("reset")
          /\ queue' = Kept(queue, {i \in 1 .. Len(queue) : Survives(queue[i])})
          /\ UNCHANGED <<breakBuffering, again>>
       \/ /\ wpc = "reset" /\ To("wait")
          /\ breakBuffering' = FALSE
          /\ UNCHANGED <<again, queue>>
    /\ UNCHANGED <<eventTime, subLock, nowLast, rtNow, prov, pos, cur, ghosts>>
    /\ ClientsUnchanged

Worker ==
    \/ Wait \/ GetSubPicProvider \/ Lock \/ Loop \/ Render \/ HandleInvalidate
    \/ \E t \in Now : UpdateQueue(t) \/ Skip(t) \/ TooFarAhead(t)

Next == Client \/ Worker
Spec == Init /\ [][Next]_vars
FairSpec == Spec /\ WF_vars(ClientStep) /\ WF_vars(Worker)
------------------------------------------------------------------------------
Fresh(s) ==
    /\ s.prov = provider
    /\ \A t \in s.start .. s.stop - 1 : SymDiff(Cover(provider, t), s.subs) \subseteq silent

Quiet == \A c \in Clients : cpc[c] \in {"idle", "signal"}

(* After an invalidation that the thread could see, no picture of another  *)
(* subtitle, or from before a line of text arrived, is left in the queue.  *)
(* What came or went in the stream without an invalidation is all that may *)
(* be missing from a picture, or be left on it, and that only until the    *)
(* thread fills an empty queue.                                            *)
NoStalePicture ==
    Quiet /\ ~breakBuffering /\ ~lost => \A i \in 1 .. Len(queue) : Fresh(queue[i])

(* No two pictures in the queue cover the same time, so that LookupSubPic  *)
(* has at most one to choose: what UpdateQueue returns is where the next   *)
(* picture may start.                                                      *)
NoOverlap ==
    ~lost /\ ~breakBuffering /\ Quiet =>
        \A i, j \in 1 .. Len(queue) : i < j => queue[i].stop <= queue[j].start

Looked(t) == {queue[i].subs : i \in {k \in 1 .. Len(queue) : queue[k].start <= t /\ t < queue[k].stop}}
Shown == Looked(now) = IF Cover(provider, now) = {} THEN {} ELSE {Cover(provider, now)}

(* When the clients leave the queue alone, the picture for the current     *)
(* time is there for good, whatever seeks, new lines and changes of the    *)
(* subtitle came before, unless one of them was lost on the thread or a    *)
(* segment got no picture: nothing renders it before the clock goes back.  *)
(* A picture that arrives unannounced for a time the clock has reached, or *)
(* goes, need not be seen.                                                 *)
EventuallyShown ==
    <>[](\/ lost \/ holed \/ cpc["window"] \in {"destroy", "close", "gone"}
         \/ \E d \in silent : d[1] <= now /\ now < d[2]
         \/ Shown)

==============================================================================
