---------------------------- MODULE AsyncIoProofs ----------------------------
(***************************************************************************)
(* The events and the flush of CAsyncIo, for any number of Processes,      *)
(* reads and requests queued at once.  Each critical section that touches  *)
(* the lists keeps the invariant by itself, so the proof goes by the       *)
(* critical sections and then by the actions that make them.  The second   *)
(* half, about what is left over and in which order samples are delivered, *)
(* does depend on who calls what, and goes by the actions.                 *)
(***************************************************************************)
EXTENDS AsyncIo, SequenceTheorems, TLAPS

\* What the lists hold, as far as the proof needs it.
ListTypes ==
    /\ m_listWork \in Seq(Nat \X Nat) /\ m_listDone \in Seq([r : Nat \X Nat, ok : BOOLEAN])
    /\ run \in Nat /\ queued \in Nat
    /\ io \in {<<"wait">>, <<"take">>} \cup (Nat \X Nat)

IInv == ListTypes /\ EventsMatch /\ FlushedIsQuiet

------------------------------------------------------------------------------
\* What the list operators do to lists of the right type.

LEMMA AppendFacts ==
    ASSUME NEW S, NEW s \in Seq(S), NEW e \in S
    PROVE  Append(s, e) \in Seq(S) /\ Append(s, e) # <<>>
<1>1. Append(s, e) \in Seq(S) /\ Len(Append(s, e)) = Len(s) + 1
  BY AppendProperties
<1>2. Len(s) \in Nat /\ Len(<<>>) = 0
  BY LenProperties, EmptySeq
<1> QED
  BY <1>1, <1>2

LEMMA TailFacts ==
    ASSUME NEW S, NEW s \in Seq(S), s # <<>>
    PROVE  /\ Head(s) \in S /\ Tail(s) \in Seq(S)
           /\ Tail(s) # <<>> <=> Len(s) > 1
  OBVIOUS

LEMMA FunctionIsSeq ==
    ASSUME NEW S, NEW n \in Nat, NEW f \in [1 .. n -> S]
    PROVE  f \in Seq(S) /\ Len(f) = n
<1>1. f \in Seq(S)
  BY SeqDef
<1>2. DOMAIN f = 1 .. Len(f) /\ Len(f) \in Nat
  BY <1>1, LenProperties
<1>3. 1 .. Len(f) = 1 .. n
  BY <1>2
<1>4. ASSUME NEW k \in Nat, 1 .. k = 1 .. n
      PROVE  k = n
  <2>1. \A i \in Int : i \in 1 .. k <=> i \in 1 .. n
    BY <1>4
  <2>2. ~ k < n
    BY <2>1, k + 1 \in 1 .. n <=> k + 1 \in 1 .. k
  <2>3. ~ n < k
    BY <2>1, n + 1 \in 1 .. n <=> n + 1 \in 1 .. k
  <2> QED
    BY <2>2, <2>3
<1> QED
  BY <1>1, <1>2, <1>3, <1>4

LEMMA CancelledFacts ==
    ASSUME ListTypes
    PROVE  /\ m_listDone \o Cancelled \in Seq([r : Nat \X Nat, ok : BOOLEAN])
           /\ m_listDone \o Cancelled # <<>> <=> m_listDone # <<>> \/ m_listWork # <<>>
<1> DEFINE T == [r : Nat \X Nat, ok : BOOLEAN]
<1>1. m_listDone \in Seq(T) /\ m_listWork \in Seq(Nat \X Nat)
  BY DEF ListTypes
<1>2. /\ Len(m_listWork) \in Nat /\ DOMAIN m_listWork = 1 .. Len(m_listWork)
      /\ \A i \in 1 .. Len(m_listWork) : m_listWork[i] \in Nat \X Nat
  BY <1>1, LenProperties, ElementOfSeq
<1>3. Cancelled = [i \in 1 .. Len(m_listWork) |-> [r |-> m_listWork[i], ok |-> FALSE]]
  BY <1>2 DEF Cancelled
<1>4. Cancelled \in [1 .. Len(m_listWork) -> T]
  BY <1>2, <1>3
<1> HIDE DEF T
<1>5. Cancelled \in Seq(T) /\ Len(Cancelled) = Len(m_listWork)
  BY <1>2, <1>4, FunctionIsSeq
<1>6. Cancelled = <<>> <=> m_listWork = <<>>
  BY <1>1, <1>5, EmptySeq
<1>7. m_listDone \o Cancelled \in Seq(T)
  BY <1>1, <1>5, ConcatProperties
<1>8. m_listDone \o Cancelled = <<>> <=> m_listDone = <<>> /\ Cancelled = <<>>
  BY <1>1, <1>5, ConcatEqualIffEmpty
<1> QED
  BY <1>6, <1>7, <1>8 DEF T

------------------------------------------------------------------------------
\* The critical sections.

LEMMA PutWorkItemKeeps ==
    ASSUME IInv, NEW r \in Nat \X Nat, ~m_bFlushing, PutWorkItem(r), UNCHANGED <<run, io>>, queued' \in Nat
    PROVE  IInv'
<1>1. m_listWork' \in Seq(Nat \X Nat) /\ m_listWork' # <<>>
  BY AppendFacts DEF IInv, ListTypes, PutWorkItem
<1>2. ListTypes'
  BY <1>1 DEF IInv, ListTypes, PutWorkItem
<1>3. EventsMatch'
  <2>1. m_evWork' <=> m_listWork' # <<>>
    BY <1>1 DEF PutWorkItem
  <2>2. m_listDone' # <<>> => m_evDone'
    BY DEF IInv, EventsMatch, PutWorkItem
  <2> QED
    BY <2>1, <2>2 DEF EventsMatch
<1>4. FlushedIsQuiet'
  BY DEF FlushedIsQuiet, PutWorkItem
<1> QED
  BY <1>2, <1>3, <1>4 DEF IInv

LEMMA GetDoneItemKeeps ==
    ASSUME IInv, GetDoneItem, UNCHANGED <<run, io>>, queued' \in Nat
    PROVE  IInv'
<1> DEFINE T == [r : Nat \X Nat, ok : BOOLEAN]
<1>1. m_listDone' \in Seq(T)
  BY TailFacts DEF IInv, ListTypes, GetDoneItem
<1>2. m_listDone' # <<>> => m_evDone'
  <2> SUFFICES ASSUME m_listDone' # <<>> PROVE m_evDone'
    OBVIOUS
  <2>1. m_listDone # <<>> /\ m_listDone' = Tail(m_listDone)
    BY DEF GetDoneItem
  <2>2. ~ResetWhenEmpty
    BY <2>1, TailFacts DEF IInv, ListTypes, ResetWhenEmpty
  <2>3. m_evDone
    BY <2>1, Zenon DEF IInv, EventsMatch
  <2> QED
    BY <2>2, <2>3, Zenon DEF GetDoneItem
<1>3. EventsMatch'
  BY <1>2 DEF IInv, EventsMatch, GetDoneItem
<1> QED
  BY <1>1, <1>3 DEF IInv, ListTypes, FlushedIsQuiet, GetDoneItem, Reading

LEMMA BeginFlushKeeps ==
    ASSUME IInv, BeginFlush, UNCHANGED <<run, queued, io>>
    PROVE  IInv'
<1>1. /\ m_listDone' \in Seq([r : Nat \X Nat, ok : BOOLEAN])
      /\ m_listDone' # <<>> <=> m_listDone # <<>> \/ m_listWork # <<>>
  BY CancelledFacts DEF IInv, BeginFlush
<1>2. EventsMatch'
  BY <1>1 DEF IInv, EventsMatch, BeginFlush
<1>3. FlushedIsQuiet'
  <2>1. m_listWork' = <<>>
    BY DEF BeginFlush
  <2>2. ~AllDone => m_bWaiting'
    BY Zenon DEF BeginFlush
  <2>3. AllDone => ~Reading'
    BY DEF AllDone, ItemsOut, Reading
  <2> QED
    BY <2>1, <2>2, <2>3, Zenon DEF FlushedIsQuiet
<1> QED
  BY <1>1, <1>2, <1>3 DEF IInv, ListTypes, BeginFlush

LEMMA FlushWaitKeeps ==
    ASSUME IInv, FlushWait, UNCHANGED <<run, queued, io>>
    PROVE  IInv'
  BY DEF IInv, ListTypes, EventsMatch, FlushedIsQuiet, FlushWait, Reading

LEMMA FlushCheckKeeps ==
    ASSUME IInv, FlushCheck, UNCHANGED <<run, queued, io>>
    PROVE  IInv'
  BY DEF IInv, ListTypes, EventsMatch, FlushedIsQuiet, FlushCheck, AllDone, ItemsOut, Reading

LEMMA EndFlushKeeps ==
    ASSUME IInv, EndFlush, UNCHANGED <<run, queued, io>>
    PROVE  IInv'
  BY DEF IInv, ListTypes, EventsMatch, FlushedIsQuiet, EndFlush, Reading

LEMMA UntouchedKeeps ==
    ASSUME IInv, UNCHANGED <<lists, io>>, run' \in Nat, queued' \in Nat
    PROVE  IInv'
  BY DEF IInv, ListTypes, EventsMatch, FlushedIsQuiet, lists, Reading

------------------------------------------------------------------------------
\* The threads.

LEMMA ReadingThreadKeeps ==
    ASSUME IInv, ReadingThread
    PROVE  IInv'
<1>1. CASE Wake
  BY <1>1 DEF Wake, IInv, ListTypes, EventsMatch, FlushedIsQuiet, lists, puller, Reading
<1>2. CASE TakeWork
  <2>1. ListTypes'
    <3>1. m_listWork # <<>> =>
             Head(m_listWork) \in Nat \X Nat /\ Tail(m_listWork) \in Seq(Nat \X Nat)
      BY TailFacts DEF IInv, ListTypes
    <3> QED BY <1>2, <3>1 DEF TakeWork, IInv, ListTypes, puller
  <2>2. EventsMatch'
    <3>1. CASE m_listWork = <<>>
      BY <1>2, <3>1 DEF TakeWork, WorkLeft, IInv, ListTypes, EventsMatch
    <3>2. CASE m_listWork # <<>>
      <4>1. m_listWork' # <<>> <=> WorkLeft
        BY <1>2, <3>2, TailFacts DEF TakeWork, WorkLeft, IInv, ListTypes
      <4> QED BY <1>2, <3>2, <4>1 DEF TakeWork, WorkLeft, IInv, EventsMatch
    <3> QED BY <3>1, <3>2
  <2>3. FlushedIsQuiet'
    BY <1>2 DEF TakeWork, IInv, FlushedIsQuiet, Reading
  <2> QED
    BY <2>1, <2>2, <2>3 DEF IInv
<1>3. CASE Finish
  <2>1. m_listDone' \in Seq([r : Nat \X Nat, ok : BOOLEAN])
    BY <1>3, AppendFacts DEF Finish, Reading, IInv, ListTypes
  <2> QED
    BY <1>3, <2>1 DEF Finish, IInv, ListTypes, EventsMatch, FlushedIsQuiet, puller, Reading
<1> QED
  BY <1>1, <1>2, <1>3 DEF ReadingThread

LEMMA PullingThreadKeeps ==
    ASSUME IInv, PullingThread
    PROVE  IInv'
<1>t. run \in Nat /\ queued \in Nat
  BY DEF IInv, ListTypes
<1>1. CASE Command
  BY <1>1, <1>t, UntouchedKeeps DEF Command, lists
<1>2. CASE Interrupted
  BY <1>2, <1>t, UntouchedKeeps DEF Interrupted, lists
<1>3. CASE QueueSample
  <2>1. CASE Refused
    BY <1>3, <1>t, <2>1, UntouchedKeeps DEF QueueSample, lists
  <2>2. CASE ~Refused
    BY <1>3, <1>t, <2>2, PutWorkItemKeeps DEF QueueSample, Refused
  <2> QED
    BY <2>1, <2>2
<1>4. CASE Collect
  BY <1>4, <1>t, UntouchedKeeps DEF Collect, lists
<1>5. CASE WaitDone
  BY <1>5, <1>t, UntouchedKeeps DEF WaitDone, lists
<1>6. CASE TakeNothing \/ TakeCancelled \/ Deliver
  BY <1>6, <1>t, GetDoneItemKeeps DEF TakeNothing, TakeCancelled, Deliver
<1>7. CASE Check
  BY <1>7, <1>t, UntouchedKeeps DEF Check, lists
<1>8. CASE PullerFlush
  BY <1>8, BeginFlushKeeps DEF PullerFlush
<1>9. CASE PullerFlushWait
  BY <1>9, FlushWaitKeeps DEF PullerFlushWait
<1>10. CASE PullerFlushCheck
  BY <1>10, FlushCheckKeeps DEF PullerFlushCheck
<1>11. CASE PullerEndFlush
  BY <1>11, EndFlushKeeps DEF PullerEndFlush
<1> QED
  BY <1>1, <1>2, <1>3, <1>4, <1>5, <1>6, <1>7, <1>8, <1>9, <1>10, <1>11 DEF PullingThread

LEMMA ApplicationKeeps ==
    ASSUME IInv, Application
    PROVE  IInv'
<1>t. run \in Nat /\ queued \in Nat
  BY DEF IInv, ListTypes
<1>1. CASE StartThread \/ CallWorker \/ Answered
  BY <1>1, <1>t, UntouchedKeeps DEF StartThread, CallWorker, Answered, lists, puller
<1>2. ASSUME NEW cmd \in {"TM_Pause", "TM_Exit"}, AppFlush(cmd)
      PROVE  IInv'
  BY <1>2, BeginFlushKeeps DEF AppFlush, puller
<1>3. CASE AppFlushWait
  BY <1>3, FlushWaitKeeps DEF AppFlushWait, puller
<1>4. CASE AppFlushCheck
  BY <1>4, FlushCheckKeeps DEF AppFlushCheck, puller
<1>5. CASE AppEndFlush
  BY <1>5, EndFlushKeeps DEF AppEndFlush, puller
<1> QED
  BY <1>1, <1>2, <1>3, <1>4, <1>5 DEF Application, Finishing

------------------------------------------------------------------------------
\* The inductive invariant: it holds at first, and each thread keeps it.
THEOREM Invariant == Spec => []IInv
<1>1. Init => IInv
  BY DEF Init, IInv, ListTypes, EventsMatch, FlushedIsQuiet, Reading
<1>2. IInv /\ [Next]_vars => IInv'
  <2> SUFFICES ASSUME IInv, [Next]_vars PROVE IInv'
    OBVIOUS
  <2>1. CASE Next
    BY <2>1, ReadingThreadKeeps, PullingThreadKeeps, ApplicationKeeps DEF Next
  <2>2. CASE UNCHANGED vars
    BY <2>2, UntouchedKeeps DEF vars, puller, IInv, ListTypes
  <2> QED
    BY <2>1, <2>2
<1> QED
  BY <1>1, <1>2, PTL DEF Spec

\* m_evWork is set exactly when the work list has a request, and m_evDone
\* whenever the done list has one, whatever the pulling thread and the
\* application do: no thread sleeps on a list that has work for it.
THEOREM NoHiddenRequest == Spec => []EventsMatch
<1>1. IInv => EventsMatch
  BY DEF IInv
<1> QED
  BY <1>1, Invariant, PTL

\* From the end of BeginFlush's wait to EndFlush no request is queued or read,
\* also when both threads flush at once.
THEOREM FlushIsComplete == Spec => []FlushedIsQuiet
<1>1. IInv => FlushedIsQuiet
  BY DEF IInv
<1> QED
  BY <1>1, Invariant, PTL

------------------------------------------------------------------------------
\* The pulling thread cleans up in this order: nothing to be read, nothing being
\* read, nothing that was read.
Cleaned ==
    /\ why \in {"collect", "cancelled", "cleanup"}
    /\ pull \in InFlush => m_listWork = <<>> /\ why = "cleanup"
    /\ pull \in {"wait", "take", "check"} /\ why = "cleanup" => m_listWork = <<>> /\ ~Reading
    /\ pull = "check" /\ why = "cleanup" => m_listDone = <<>>
    /\ pull \in {"endFlush", "idle", "gone"} => m_listWork = <<>> /\ m_listDone = <<>> /\ ~Reading

\* Its Process is under way and nothing has been cancelled that it knows of.
Collecting == pull = "process" \/ (why = "collect" /\ pull \in {"wait", "take", "check"})

AllRead == \A i \in DOMAIN m_listDone : m_listDone[i].ok
Nth(n) == <<run, collected + n>>

\* Up to the first one that failed or was cancelled the done list has the next
\* reads in turn; while there is none, what is being read and what is to be
\* read follow, up to the last one queued.
InLine ==
    Collecting =>
      /\ \A i \in DOMAIN m_listDone :
           (\A j \in 1 .. i : m_listDone[j].ok) => m_listDone[i].r = Nth(i)
      /\ AllRead =>
           /\ Reading => io = Nth(Len(m_listDone) + 1)
           /\ \A k \in DOMAIN m_listWork : m_listWork[k] = Nth(Len(m_listDone) + ItemsOut + k)
           /\ queued = collected + Len(m_listDone) + ItemsOut + Len(m_listWork)

Turn == collected \in Nat /\ Cleaned /\ InLine

LEMMA CleanedStep ==
    ASSUME IInv, Cleaned, [Next]_vars
    PROVE  Cleaned'
<1> USE DEF Cleaned, InFlush, Reading
<1>1. CASE Wake
  BY <1>1 DEF Wake, lists, puller
<1>2. CASE TakeWork
  BY <1>2 DEF TakeWork, puller
<1>3. CASE Finish
  BY <1>3 DEF Finish, puller
<1>4. CASE Command
  BY <1>4 DEF Command, lists
<1>5. CASE Interrupted
  BY <1>5 DEF Interrupted, lists
<1>6. CASE QueueSample
  BY <1>6 DEF QueueSample, lists
<1>7. CASE Collect
  BY <1>7 DEF Collect, lists
<1>8. CASE WaitDone
  BY <1>8 DEF WaitDone, Null, lists, IInv, EventsMatch
<1>9. CASE TakeNothing
  BY <1>9 DEF TakeNothing, GetDoneItem
<1>10. CASE TakeCancelled
  BY <1>10 DEF TakeCancelled, GetDoneItem
<1>11. CASE Deliver
  BY <1>11 DEF Deliver, GetDoneItem
<1>12. CASE Check
  BY <1>12 DEF Check, Null, lists
<1>13. CASE PullerFlush
  BY <1>13 DEF PullerFlush, BeginFlush, AfterFlush, AllDone, ItemsOut
<1>14. CASE PullerFlushWait
  BY <1>14 DEF PullerFlushWait, FlushWait
<1>15. CASE PullerFlushCheck
  BY <1>15 DEF PullerFlushCheck, FlushCheck, AfterFlush, AllDone, ItemsOut
<1>16. CASE PullerEndFlush
  BY <1>16 DEF PullerEndFlush, EndFlush
<1>17. CASE StartThread
  BY <1>17 DEF StartThread, lists
<1>18. CASE CallWorker \/ Answered
  BY <1>18 DEF CallWorker, Answered, lists, puller
<1>19. ASSUME NEW cmd \in {"TM_Pause", "TM_Exit"}, AppFlush(cmd)
       PROVE  Cleaned'
  <2>1. m_listDone' # <<>> <=> m_listDone # <<>> \/ m_listWork # <<>>
    BY <1>19, CancelledFacts DEF AppFlush, BeginFlush, IInv
  <2> QED
    BY <1>19, <2>1 DEF AppFlush, BeginFlush, puller
<1>20. CASE AppFlushWait \/ AppFlushCheck \/ AppEndFlush
  BY <1>20 DEF AppFlushWait, AppFlushCheck, AppEndFlush, FlushWait, FlushCheck, EndFlush, puller
<1>21. CASE UNCHANGED vars
  BY <1>21 DEF vars, lists, puller
<1> QED
  BY <1>1, <1>2, <1>3, <1>4, <1>5, <1>6, <1>7, <1>8, <1>9, <1>10, <1>11, <1>12, <1>13, <1>14,
     <1>15, <1>16, <1>17, <1>18, <1>19, <1>20, <1>21
     DEF Next, ReadingThread, PullingThread, Application, Finishing

------------------------------------------------------------------------------
Item == [r : Nat \X Nat, ok : BOOLEAN]

LEMMA LineTypes ==
    ASSUME IInv
    PROVE  /\ m_listDone \in Seq(Item) /\ m_listWork \in Seq(Nat \X Nat)
           /\ Len(m_listDone) \in Nat /\ DOMAIN m_listDone = 1 .. Len(m_listDone)
           /\ Len(m_listWork) \in Nat /\ DOMAIN m_listWork = 1 .. Len(m_listWork)
           /\ run \in Nat /\ queued \in Nat
<1>1. m_listDone \in Seq(Item) /\ m_listWork \in Seq(Nat \X Nat) /\ run \in Nat /\ queued \in Nat
  BY DEF IInv, ListTypes, Item
<1> QED
  BY <1>1, LenProperties

LEMMA LineKept ==
    ASSUME InLine, UNCHANGED <<m_listDone, m_listWork, io, run, queued, collected>>,
           Collecting' => Collecting
    PROVE  InLine'
  BY DEF InLine, AllRead, Nth, Reading, ItemsOut

LEMMA FinishLine ==
    ASSUME IInv, collected \in Nat, InLine, Finish
    PROVE  InLine'
<1>1. PICK ok \in BOOLEAN : m_listDone' = Append(m_listDone, [r |-> io, ok |-> ok])
  BY DEF Finish
<1>2. PICK n \in Nat : n = Len(m_listDone)
  BY LineTypes
<1>3. PICK x : x = [r |-> io, ok |-> ok]
  OBVIOUS
<1>4. x \in Item /\ x.r = io /\ x.ok = ok
  BY <1>3 DEF Finish, Reading, IInv, ListTypes, Item
<1>5. /\ Len(m_listDone') = n + 1 /\ DOMAIN m_listDone' = 1 .. (n + 1)
      /\ \A i \in 1 .. n : m_listDone'[i] = m_listDone[i]
      /\ m_listDone'[n + 1] = x
  <2>1. m_listDone' \in Seq(Item)
    BY <1>1, <1>3, <1>4, LineTypes, AppendFacts
  <2>2. /\ Len(m_listDone') = n + 1
        /\ \A i \in 1 .. n : m_listDone'[i] = m_listDone[i]
        /\ m_listDone'[n + 1] = x
    BY <1>1, <1>2, <1>3, <1>4, LineTypes, AppendProperties
  <2> QED
    BY <2>1, <2>2, LenProperties
<1>6. /\ UNCHANGED <<pull, why, run, queued, collected, m_listWork>>
      /\ Reading /\ io' = <<"take">> /\ DOMAIN m_listDone = 1 .. n
  BY <1>2, LineTypes DEF Finish, puller
<1>7. ItemsOut = 1 /\ ItemsOut' = 0 /\ ~Reading'
  BY <1>6 DEF ItemsOut, Reading
<1> SUFFICES ASSUME Collecting'
             PROVE  InLine'
  BY DEF InLine
<1>8. Collecting
  BY <1>6 DEF Collecting
<1>9. /\ \A i \in 1 .. n : (\A j \in 1 .. i : m_listDone[j].ok) => m_listDone[i].r = Nth(i)
      /\ (\A i \in 1 .. n : m_listDone[i].ok) =>
           /\ io = Nth(n + 1)
           /\ \A k \in DOMAIN m_listWork : m_listWork[k] = Nth(n + 1 + k)
           /\ queued = collected + n + 1 + Len(m_listWork)
  BY <1>2, <1>6, <1>7, <1>8 DEF InLine, AllRead
<1>10. ASSUME NEW i \in 1 .. (n + 1), \A j \in 1 .. i : m_listDone'[j].ok
       PROVE  m_listDone'[i].r = <<run, collected + i>>
  <2>1. CASE i = n + 1
    <3>1. \A j \in 1 .. n : m_listDone[j].ok
      BY <1>5, <1>10, <2>1
    <3> QED
      BY <1>4, <1>5, <1>9, <2>1, <3>1 DEF Nth
  <2>2. CASE i # n + 1
    <3>1. i \in 1 .. n /\ \A j \in 1 .. i : j \in 1 .. n
      BY <2>2
    <3>2. \A j \in 1 .. i : m_listDone[j].ok
      BY <1>5, <1>10, <3>1
    <3> QED
      BY <1>5, <1>9, <3>1, <3>2 DEF Nth
  <2> QED
    BY <2>1, <2>2
<1>11. ASSUME \A i \in 1 .. (n + 1) : m_listDone'[i].ok
       PROVE  /\ \A k \in DOMAIN m_listWork : m_listWork[k] = <<run, collected + (n + 1 + 0 + k)>>
              /\ queued = collected + (n + 1) + 0 + Len(m_listWork)
  <2>1. \A i \in 1 .. n : m_listDone[i].ok
    BY <1>5, <1>11
  <2>2. \A k \in DOMAIN m_listWork : n + 1 + k = n + 1 + 0 + k
    BY LineTypes
  <2> QED
    BY <1>9, <2>1, <2>2 DEF Nth
<1> QED
  BY <1>5, <1>6, <1>7, <1>10, <1>11 DEF InLine, AllRead, Nth

LEMMA TakeLine ==
    ASSUME IInv, collected \in Nat, InLine, TakeWork
    PROVE  InLine'
<1>1. /\ UNCHANGED <<pull, why, run, queued, collected, m_listDone>>
      /\ io = <<"take">> /\ ~Reading /\ ItemsOut = 0
  BY DEF TakeWork, puller, Reading, ItemsOut
<1> SUFFICES ASSUME Collecting'
             PROVE  InLine'
  BY DEF InLine
<1>2. Collecting
  BY <1>1 DEF Collecting
<1>3. PICK n \in Nat : n = Len(m_listDone)
  BY LineTypes
<1>4. /\ \A i \in DOMAIN m_listDone :
            (\A j \in 1 .. i : m_listDone[j].ok) => m_listDone[i].r = Nth(i)
      /\ AllRead => /\ \A k \in DOMAIN m_listWork : m_listWork[k] = Nth(n + 0 + k)
                    /\ queued = collected + n + 0 + Len(m_listWork)
  BY <1>1, <1>2, <1>3 DEF InLine
<1>5. CASE m_listWork = <<>>
  <2>1. io' = <<"wait">> /\ m_listWork' = <<>> /\ ItemsOut' = 0 /\ ~Reading'
    BY <1>5 DEF TakeWork, ItemsOut, Reading
  <2> QED
    BY <1>1, <1>3, <1>4, <1>5, <2>1 DEF InLine, AllRead, Nth
<1>6. CASE m_listWork # <<>>
  <2>1. io' = Head(m_listWork) /\ m_listWork' = Tail(m_listWork)
    BY <1>6 DEF TakeWork
  <2>2. PICK m \in Nat : m + 1 = Len(m_listWork)
    <3>1. Len(m_listWork) # 0
      BY <1>6, LineTypes, EmptySeq
    <3>2. PICK w \in Nat : w = Len(m_listWork)
      BY LineTypes
    <3>3. w - 1 \in Nat /\ (w - 1) + 1 = w
      BY <3>1, <3>2
    <3> QED
      BY <3>2, <3>3
  <2>3. /\ io' = m_listWork[1] /\ Len(m_listWork') = m /\ DOMAIN m_listWork' = 1 .. m
        /\ \A k \in 1 .. m : m_listWork'[k] = m_listWork[k + 1]
    <3>1. /\ Head(m_listWork) = m_listWork[1] /\ Tail(m_listWork) \in Seq(Nat \X Nat)
          /\ Len(Tail(m_listWork)) = Len(m_listWork) - 1
          /\ \A k \in 1 .. Len(Tail(m_listWork)) : Tail(m_listWork)[k] = m_listWork[k + 1]
      BY <1>6, LineTypes, HeadTailProperties
    <3>2. Len(Tail(m_listWork)) = m
      BY <2>2, <3>1
    <3> QED
      BY <2>1, <3>1, <3>2, LenProperties
  <2>4. DOMAIN m_listWork = 1 .. (m + 1) /\ m_listWork[1] \in Nat \X Nat
    <3>1. DOMAIN m_listWork = 1 .. (m + 1)
      BY <2>2, LineTypes
    <3> QED
      BY <2>2, <3>1, LineTypes, ElementOfSeq
  <2>5. Reading' /\ ItemsOut' = 1
    <3>1. \A p \in Nat \X Nat : p \notin {<<"wait">>, <<"take">>}
      OBVIOUS
    <3> QED
      BY <2>3, <2>4, <3>1 DEF Reading, ItemsOut
  <2>6. AllRead => /\ m_listWork[1] = Nth(n + 1)
                   /\ \A k \in 1 .. m : m_listWork[k + 1] = Nth(n + 1 + k)
                   /\ queued = collected + n + 1 + m
    <3>1. \A k \in 1 .. m : k + 1 \in 1 .. (m + 1) /\ n + 0 + (k + 1) = n + 1 + k
      OBVIOUS
    <3>2. ASSUME AllRead
          PROVE  \A k \in 1 .. (m + 1) : m_listWork[k] = <<run, collected + (n + 0 + k)>>
      BY <1>4, <2>4, <3>2 DEF Nth
    <3>3. ASSUME AllRead
          PROVE  \A k \in 1 .. m : m_listWork[k + 1] = <<run, collected + (n + 1 + k)>>
      BY <3>1, <3>2, <3>3
    <3>4. ASSUME AllRead
          PROVE  m_listWork[1] = <<run, collected + (n + 1)>>
      BY <3>2, <3>4
    <3>5. ASSUME AllRead
          PROVE  queued = collected + n + 1 + m
      BY <1>4, <2>2, <3>5
    <3> QED
      BY <3>3, <3>4, <3>5 DEF Nth
  <2> QED
    BY <1>1, <1>3, <1>4, <2>3, <2>5, <2>6 DEF InLine, AllRead, Nth
<1> QED
  BY <1>5, <1>6

\* A flush leaves the line as it is, or puts something cancelled behind it.
LEMMA FlushLine ==
    ASSUME IInv, collected \in Nat, InLine, BeginFlush, UNCHANGED <<io, puller>>
    PROVE  InLine'
<1>1. UNCHANGED <<pull, why, run, queued, collected, io>> /\ m_listWork' = <<>>
      /\ m_listDone' = m_listDone \o Cancelled
  BY DEF puller, BeginFlush
<1> SUFFICES ASSUME Collecting'
             PROVE  InLine'
  BY DEF InLine
<1>2. Collecting
  BY <1>1 DEF Collecting
<1>3. PICK n \in Nat, m \in Nat : n = Len(m_listDone) /\ m = Len(m_listWork)
  BY LineTypes
<1>4. DOMAIN m_listDone = 1 .. n /\ DOMAIN m_listWork = 1 .. m
  BY <1>3, LineTypes
<1>5. \A i \in 1 .. n : (\A j \in 1 .. i : m_listDone[j].ok) => m_listDone[i].r = Nth(i)
  BY <1>2, <1>4 DEF InLine
<1>6. Cancelled \in Seq(Item) /\ Len(Cancelled) = m /\ \A i \in 1 .. m : ~Cancelled[i].ok
  <2>1. \A i \in 1 .. m : m_listWork[i] \in Nat \X Nat
    BY <1>3, LineTypes, ElementOfSeq
  <2>2. Cancelled = [i \in 1 .. m |-> [r |-> m_listWork[i], ok |-> FALSE]]
    BY <1>4 DEF Cancelled
  <2>3. Cancelled \in [1 .. m -> Item]
    BY <2>1, <2>2 DEF Item
  <2>4. \A i \in 1 .. m : ~Cancelled[i].ok
    BY <2>2
  <2> QED
    BY <2>3, <2>4, FunctionIsSeq
<1>7. /\ Len(m_listDone') = n + m /\ DOMAIN m_listDone' = 1 .. (n + m)
      /\ \A i \in 1 .. n : m_listDone'[i] = m_listDone[i]
      /\ \A i \in 1 .. m : m_listDone'[n + i] = Cancelled[i]
  <2>1. /\ m_listDone \o Cancelled \in Seq(Item)
        /\ Len(m_listDone \o Cancelled) = n + m
        /\ \A i \in 1 .. (n + m) : (m_listDone \o Cancelled)[i] =
              IF i <= n THEN m_listDone[i] ELSE Cancelled[i - n]
    <3>1. /\ m_listDone \o Cancelled \in Seq(Item)
          /\ Len(m_listDone \o Cancelled) = Len(m_listDone) + Len(Cancelled)
          /\ \A i \in 1 .. Len(m_listDone) + Len(Cancelled) : (m_listDone \o Cancelled)[i] =
                IF i <= Len(m_listDone) THEN m_listDone[i] ELSE Cancelled[i - Len(m_listDone)]
      BY <1>6, LineTypes, ConcatProperties
    <3>2. Len(m_listDone) = n /\ Len(Cancelled) = m
      BY <1>3, <1>6
    <3> QED
      BY <3>1, <3>2
  <2>2. DOMAIN (m_listDone \o Cancelled) = 1 .. (n + m)
    BY <2>1, LenProperties
  <2> QED
    BY <1>1, <2>1, <2>2
<1>8. CASE m = 0
  <2>1. m_listDone' = m_listDone /\ m_listWork = <<>>
    BY <1>1, <1>3, <1>6, <1>8, LineTypes, EmptySeq, ConcatEmptySeq
  <2> QED
    BY <1>1, <1>2, <2>1 DEF InLine, AllRead, Nth, Reading, ItemsOut
<1>9. CASE m # 0
  <2>1. n + 1 \in 1 .. (n + m) /\ ~m_listDone'[n + 1].ok
    BY <1>6, <1>7, <1>9
  <2>2. ~AllRead'
    BY <1>7, <2>1 DEF AllRead
  <2>3. ASSUME NEW i \in 1 .. (n + m), \A j \in 1 .. i : m_listDone'[j].ok
        PROVE  m_listDone'[i].r = <<run, collected + i>>
    <3>1. ~(n + 1 \in 1 .. i)
      BY <2>1, <2>3
    <3>2. i \in 1 .. n /\ \A j \in 1 .. i : j \in 1 .. n
      BY <3>1
    <3>3. \A j \in 1 .. i : m_listDone[j].ok
      BY <1>7, <2>3, <3>2
    <3> QED
      BY <1>5, <1>7, <3>2, <3>3 DEF Nth
  <2> QED
    BY <1>1, <1>7, <2>2, <2>3 DEF InLine, Nth
<1> QED
  BY <1>8, <1>9

\* The request that is queued is the next one of the file.
LEMMA QueueLine ==
    ASSUME IInv, collected \in Nat, InLine, QueueSample
    PROVE  InLine'
<1>1. CASE Refused
  BY <1>1 DEF QueueSample, InLine, Collecting
<1>2. CASE ~Refused
  <2> DEFINE e == <<run, queued + 1>>
  <2>1. /\ m_listWork' = Append(m_listWork, e) /\ queued' = queued + 1
        /\ UNCHANGED <<m_listDone, io, pull, why, run, collected>> /\ Collecting
    BY <1>2 DEF QueueSample, PutWorkItem, Collecting
  <2>2. PICK n \in Nat, m \in Nat, c \in Nat :
           n = Len(m_listDone) /\ m = Len(m_listWork) /\ c = ItemsOut
    BY LineTypes DEF ItemsOut
  <2>3. e \in Nat \X Nat /\ queued \in Nat
    BY LineTypes
  <2>4. /\ Len(m_listWork') = m + 1 /\ DOMAIN m_listWork' = 1 .. (m + 1)
        /\ \A k \in 1 .. m : m_listWork'[k] = m_listWork[k]
        /\ m_listWork'[m + 1] = e
    <3> HIDE DEF e
    <3>1. m_listWork' \in Seq(Nat \X Nat)
      BY <2>1, <2>3, LineTypes, AppendFacts
    <3>2. /\ Len(m_listWork') = m + 1
          /\ \A k \in 1 .. m : m_listWork'[k] = m_listWork[k]
          /\ m_listWork'[m + 1] = e
      BY <2>1, <2>2, <2>3, LineTypes, AppendProperties
    <3> QED
      BY <3>1, <3>2, LenProperties
  <2>5. /\ \A i \in DOMAIN m_listDone :
             (\A j \in 1 .. i : m_listDone[j].ok) => m_listDone[i].r = Nth(i)
        /\ AllRead => /\ Reading => io = Nth(n + 1)
                      /\ \A k \in 1 .. m : m_listWork[k] = Nth(n + c + k)
                      /\ queued = collected + n + c + m
    <3>1. DOMAIN m_listWork = 1 .. m
      BY <2>2, LineTypes
    <3> QED
      BY <2>1, <2>2, <3>1 DEF InLine
  <2>6. ASSUME AllRead
        PROVE  /\ \A k \in 1 .. (m + 1) : m_listWork'[k] = <<run, collected + (n + c + k)>>
               /\ queued' = collected + n + c + (m + 1)
    <3>1. queued + 1 = collected + (n + c + (m + 1)) /\ queued + 1 = collected + n + c + (m + 1)
      BY <2>5, <2>6
    <3>2. ASSUME NEW k \in 1 .. (m + 1)
          PROVE  m_listWork'[k] = <<run, collected + (n + c + k)>>
      <4>1. CASE k = m + 1
        BY <2>4, <3>1, <4>1
      <4>2. CASE k # m + 1
        <5>1. k \in 1 .. m
          BY <4>2
        <5> QED
          BY <2>4, <2>5, <2>6, <5>1 DEF Nth
      <4> QED
        BY <4>1, <4>2
    <3> QED
      BY <2>1, <3>1, <3>2
  <2>7. AllRead' <=> AllRead
    BY <2>1 DEF AllRead
  <2>8. Reading' = Reading /\ ItemsOut' = c /\ Len(m_listDone') = n
    BY <2>1, <2>2 DEF Reading, ItemsOut
  <2> QED
    BY <2>1, <2>4, <2>5, <2>6, <2>7, <2>8 DEF InLine, Nth
<1> QED
  BY <1>1, <1>2

\* What is delivered leaves the line at its head, and the rest moves up.
LEMMA DeliverLine ==
    ASSUME IInv, collected \in Nat, InLine, Deliver
    PROVE  InLine'
<1> SUFFICES ASSUME Collecting'
             PROVE  InLine'
  BY DEF InLine
<1>1. /\ Collecting /\ m_listDone # <<>> /\ Head(m_listDone).ok
      /\ m_listDone' = Tail(m_listDone) /\ collected' = collected + 1
      /\ UNCHANGED <<io, run, queued, m_listWork>>
  BY DEF Deliver, GetDoneItem, Collecting
<1>2. PICK n \in Nat, m \in Nat, c \in Nat :
         n + 1 = Len(m_listDone) /\ m = Len(m_listWork) /\ c = ItemsOut
  <2>1. Len(m_listDone) # 0
    BY <1>1, LineTypes, EmptySeq
  <2>2. PICK w \in Nat : w = Len(m_listDone)
    BY LineTypes
  <2>3. w - 1 \in Nat /\ (w - 1) + 1 = w
    BY <2>1, <2>2
  <2> QED
    BY <2>2, <2>3, LineTypes DEF ItemsOut
<1>3. /\ m_listDone[1].ok /\ Len(m_listDone') = n /\ DOMAIN m_listDone' = 1 .. n
      /\ \A i \in 1 .. n : m_listDone'[i] = m_listDone[i + 1]
  <2>1. /\ Head(m_listDone) = m_listDone[1] /\ Tail(m_listDone) \in Seq(Item)
        /\ Len(Tail(m_listDone)) = Len(m_listDone) - 1
        /\ \A i \in 1 .. Len(Tail(m_listDone)) : Tail(m_listDone)[i] = m_listDone[i + 1]
    BY <1>1, LineTypes, HeadTailProperties
  <2>2. Len(Tail(m_listDone)) = n
    BY <1>2, <2>1
  <2> QED
    BY <1>1, <2>1, <2>2, LenProperties
<1>4. DOMAIN m_listDone = 1 .. (n + 1) /\ DOMAIN m_listWork = 1 .. m
  BY <1>2, LineTypes
<1>5. /\ \A i \in 1 .. (n + 1) :
           (\A j \in 1 .. i : m_listDone[j].ok) => m_listDone[i].r = <<run, collected + i>>
      /\ AllRead => /\ Reading => io = <<run, collected + (n + 1 + 1)>>
                    /\ \A k \in 1 .. m : m_listWork[k] = <<run, collected + (n + 1 + c + k)>>
                    /\ queued = collected + (n + 1) + c + m
  BY <1>1, <1>2, <1>4 DEF InLine, Nth
<1>6. ASSUME NEW i \in 1 .. n, \A j \in 1 .. i : m_listDone'[j].ok
      PROVE  m_listDone'[i].r = <<run, collected + 1 + i>>
  <2>1. ASSUME NEW j \in 1 .. (i + 1)
        PROVE  m_listDone[j].ok
    <3>1. CASE j = 1
      BY <1>3, <3>1
    <3>2. CASE j # 1
      <4>1. j - 1 \in 1 .. i /\ j - 1 \in 1 .. n /\ (j - 1) + 1 = j
        BY <3>2
      <4>2. m_listDone'[j - 1].ok /\ m_listDone'[j - 1] = m_listDone[(j - 1) + 1]
        BY <1>3, <1>6, <4>1
      <4> QED
        BY <4>1, <4>2
    <3> QED
      BY <3>1, <3>2
  <2>2. i + 1 \in 1 .. (n + 1) /\ collected + (i + 1) = collected + 1 + i
    OBVIOUS
  <2>3. m_listDone[i + 1].r = <<run, collected + (i + 1)>>
    BY <1>5, <2>1, <2>2
  <2> QED
    BY <1>3, <2>2, <2>3
<1>7. AllRead' => AllRead
  <2> SUFFICES ASSUME AllRead', NEW j \in 1 .. (n + 1)
               PROVE  m_listDone[j].ok
    BY <1>4 DEF AllRead
  <2>1. \A i \in 1 .. n : m_listDone'[i].ok
    BY <1>3 DEF AllRead
  <2>2. CASE j = 1
    BY <1>3, <2>2
  <2>3. CASE j # 1
    <3>1. j - 1 \in 1 .. n /\ (j - 1) + 1 = j
      BY <2>3
    <3>2. m_listDone'[j - 1].ok /\ m_listDone'[j - 1] = m_listDone[(j - 1) + 1]
      BY <1>3, <2>1, <3>1
    <3> QED
      BY <3>1, <3>2
  <2> QED
    BY <2>2, <2>3
<1>8. ASSUME AllRead
      PROVE  /\ Reading => io = <<run, collected + 1 + (n + 1)>>
             /\ \A k \in 1 .. m : m_listWork[k] = <<run, collected + 1 + (n + c + k)>>
             /\ queued = collected + 1 + n + c + m
  <2>1. /\ collected + (n + 1 + 1) = collected + 1 + (n + 1)
        /\ \A k \in 1 .. m : collected + (n + 1 + c + k) = collected + 1 + (n + c + k)
        /\ collected + (n + 1) + c + m = collected + 1 + n + c + m
    OBVIOUS
  <2> QED
    BY <1>5, <1>8, <2>1
<1>9. Reading' = Reading /\ ItemsOut' = c
  BY <1>1, <1>2 DEF Reading, ItemsOut
<1> QED
  BY <1>1, <1>2, <1>3, <1>4, <1>6, <1>7, <1>8, <1>9 DEF InLine, Nth

\* A Process begins with nothing queued, being read or read.
LEMMA CommandLine ==
    ASSUME IInv, Cleaned, InLine, Command
    PROVE  InLine'
<1>1. CASE pull' = "process"
  <2>1. m_listDone = <<>> /\ m_listWork = <<>> /\ ~Reading
    BY DEF Command, Cleaned
  <2>2. UNCHANGED <<m_listDone, m_listWork, io>> /\ queued' = 0 /\ collected' = 0
    BY <1>1 DEF Command, lists
  <2>3. Len(m_listDone') = 0 /\ Len(m_listWork') = 0 /\ DOMAIN m_listDone' = {}
        /\ DOMAIN m_listWork' = {} /\ ~Reading' /\ ItemsOut' = 0
    BY <2>1, <2>2 DEF Reading, ItemsOut
  <2> QED
    BY <2>2, <2>3 DEF InLine
<1>2. CASE pull' # "process"
  BY <1>2 DEF Command, InLine, Collecting
<1> QED
  BY <1>1, <1>2

LEMMA InLineStep ==
    ASSUME IInv, Turn, [Next]_vars
    PROVE  InLine'
<1> USE DEF Turn
<1>1. CASE Wake
  BY <1>1 DEF Wake, lists, puller, InLine, AllRead, Nth, Reading, ItemsOut, Collecting
<1>2. CASE TakeWork
  BY <1>2, TakeLine
<1>3. CASE Finish
  BY <1>3, FinishLine
<1>4. CASE Command
  BY <1>4, CommandLine
<1>5. CASE Interrupted
  BY <1>5 DEF Interrupted, InLine, Collecting
<1>6. CASE QueueSample
  BY <1>6, QueueLine
<1>7. CASE Collect
  BY <1>7, LineKept DEF Collect, lists, Collecting
<1>8. CASE WaitDone
  BY <1>8, LineKept DEF WaitDone, Null, lists, Collecting, Cleaned
<1>9. CASE TakeNothing
  BY <1>9, LineKept DEF TakeNothing, GetDoneItem, Collecting
<1>10. CASE TakeCancelled
  BY <1>10 DEF TakeCancelled, InLine, Collecting
<1>11. CASE Deliver
  BY <1>11, DeliverLine
<1>12. CASE Check
  BY <1>12, LineKept DEF Check, Null, lists, Collecting, Cleaned
<1>13. CASE PullerFlush
  BY <1>13 DEF PullerFlush, AfterFlush, InLine, Collecting
<1>14. CASE PullerFlushWait \/ PullerEndFlush
  BY <1>14 DEF PullerFlushWait, PullerEndFlush, InLine, Collecting
<1>15. CASE PullerFlushCheck
  BY <1>15, LineKept DEF PullerFlushCheck, FlushCheck, AfterFlush, Collecting, InFlush, Cleaned
<1>16. CASE StartThread
  BY <1>16, LineKept DEF StartThread, lists, Collecting
<1>17. CASE CallWorker \/ Answered
  BY <1>17, LineKept DEF CallWorker, Answered, lists, puller, Collecting
<1>18. ASSUME NEW cmd \in {"TM_Pause", "TM_Exit"}, AppFlush(cmd)
       PROVE  InLine'
  BY <1>18, FlushLine DEF AppFlush
<1>19. CASE AppFlushWait \/ AppFlushCheck \/ AppEndFlush
  BY <1>19, LineKept
     DEF AppFlushWait, AppFlushCheck, AppEndFlush, FlushWait, FlushCheck, EndFlush, puller, Collecting
<1>20. CASE UNCHANGED vars
  BY <1>20, LineKept DEF vars, lists, puller, Collecting
<1> QED
  BY <1>1, <1>2, <1>3, <1>4, <1>5, <1>6, <1>7, <1>8, <1>9, <1>10, <1>11, <1>12, <1>13, <1>14,
     <1>15, <1>16, <1>17, <1>18, <1>19, <1>20
     DEF Next, ReadingThread, PullingThread, Application, Finishing

\* The inductive invariant of the second half.
THEOREM TurnInvariant == Spec => [](IInv /\ Turn)
<1>1. Init => Turn
  <2> SUFFICES ASSUME Init PROVE Turn
    OBVIOUS
  <2> QED
    BY DEF Init, Turn, Cleaned, InLine, Collecting, InFlush, Reading
<1>2. IInv /\ Turn /\ [Next]_vars => Turn'
  <2> SUFFICES ASSUME IInv, Turn, [Next]_vars PROVE Turn'
    OBVIOUS
  <2>1. collected' \in {0, collected, collected + 1}
    BY DEF Next, ReadingThread, Wake, TakeWork, Finish,
           PullingThread, Command, Interrupted, QueueSample, Collect, WaitDone, TakeNothing,
           TakeCancelled, Deliver, Check, PullerFlush, PullerFlushWait, PullerFlushCheck,
           PullerEndFlush, Application, StartThread, AppFlush, Finishing, AppFlushWait,
           AppFlushCheck, CallWorker, Answered, AppEndFlush, vars, puller
  <2>2. collected' \in Nat
    BY <2>1 DEF Turn
  <2>3. Cleaned'
    BY CleanedStep DEF Turn
  <2> QED
    BY <2>2, <2>3, InLineStep DEF Turn
<1> QED
  BY <1>1, <1>2, Invariant, PTL DEF Spec

\* A pulling thread that waits for its next command, or has ended, has left no
\* request on a list or in the reading thread's hands, whatever the
\* application flushed in the meantime.
THEOREM NothingIsLeft == Spec => []NothingLeftOver
<1>1. Turn => NothingLeftOver
  BY DEF Turn, Cleaned, NothingLeftOver
<1> QED
  BY <1>1, TurnInvariant, PTL

\* DeliverSample is given the reads of a Process one after another from the
\* first, for any number of them queued at once, however many flushes cancel
\* what is queued, and nothing from an earlier Process.
THEOREM InFileOrder == Spec => DeliveredInOrder
<1>1. IInv /\ Turn /\ [Next]_vars =>
         [delivered' # delivered => delivered' = <<run, collected'>>]_vars
  <2> SUFFICES ASSUME IInv, Turn, Next, delivered' # delivered
               PROVE  delivered' = <<run, collected'>>
    BY DEF vars, puller
  <2>1. Deliver
    BY DEF Next, ReadingThread, Wake, TakeWork, Finish,
           PullingThread, Command, Interrupted, QueueSample, Collect, WaitDone, TakeNothing,
           TakeCancelled, Check, PullerFlush, PullerFlushWait, PullerFlushCheck,
           PullerEndFlush, Application, StartThread, AppFlush, Finishing, AppFlushWait,
           AppFlushCheck, CallWorker, Answered, AppEndFlush, puller
  <2>2. /\ Collecting /\ m_listDone # <<>> /\ Head(m_listDone).ok
        /\ delivered' = Head(m_listDone).r /\ collected' = collected + 1
    BY <2>1 DEF Deliver, Collecting
  <2>3. 1 \in DOMAIN m_listDone /\ Head(m_listDone) = m_listDone[1]
    <3>1. Len(m_listDone) # 0
      BY <2>2, LineTypes, EmptySeq
    <3> QED
      BY <3>1, <2>2, LineTypes, HeadTailProperties
  <2>4. (\A j \in 1 .. 1 : m_listDone[j].ok) => m_listDone[1].r = Nth(1)
    BY <2>2, <2>3 DEF Turn, InLine
  <2> QED
    BY <2>2, <2>3, <2>4 DEF Nth
<1> QED
  BY <1>1, TurnInvariant, PTL DEF Spec, DeliveredInOrder
=============================================================================
