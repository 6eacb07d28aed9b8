-------------------------- MODULE OpenCloseProofs --------------------------
(***************************************************************************)
(* Proofs about OpenClose, for any number of files, of engines that open   *)
(* on the window's thread and of times the user closes: its types, who     *)
(* holds m_csOpenClose, and, as long as no graph thread was terminated and *)
(* no error path overtook the next opening (Undisturbed), that a graph is  *)
(* never replaced and that CloseMedia releases what it closes. That the    *)
(* two threads do not embrace holds after a termination as well (Shape).   *)
(*                                                                         *)
(* The first two hold whatever happens.  The others need to know, for each *)
(* place the window's thread may be in, what the graph thread may then be  *)
(* doing and what may be in its queue: Phases.                             *)
(***************************************************************************)
EXTENDS OpenClose, TLAPS

(* Where a thread holds m_csOpenClose, and where it has something left to  *)
(* do of an opening.                                                       *)
Held    == {"begin", "create", "created", "show", "shown", "load", "loaded", "release", "closed"}
Working == {"begin", "create", "created", "show", "shown", "load", "loaded", "report", "close"}

LockInv == \A t \in Threads : pc[t] \in Held <=> lock = t

(* The window's thread is inside OpenMediaPrivate or CloseMediaPrivate     *)
(* only while it waits there; it opens only files, and m_fOpeningAborted is *)
(* set only while it waits for an opening to see it.                       *)
WindowInv ==
    /\ wpc \notin {"inOpen", "inClose"} => pc["window"] = "none"
    /\ wop = "open" => request \in Files
    /\ aborted => wpc = "aborting"
    /\ wpc \in {"load", "start"} => wop = "open"

(* A thread has a file from the start of an opening to its end, and an     *)
(* error in the error path only.                                           *)
FileInv ==
    \A t \in Threads :
        /\ pc[t] = "none" => file[t] = NoFile /\ err[t] = "none"
        /\ pc[t] \in {"open", "begin", "create", "created", "show", "shown", "load", "loaded"}
             => file[t] # NoFile /\ err[t] = "none"
        /\ pc[t] \in {"report", "invalid"} => file[t] # NoFile /\ err[t] # "none"
        /\ pc[t] \in {"close", "release", "closed"} => (file[t] = NoFile <=> err[t] = "none")

(* The queues there are.                                                   *)
Empty     == queue = <<>>
OpenNext  == Len(queue) = 1 /\ queue[1] # NoFile
CloseNext == Len(queue) = 1 /\ queue[1] = NoFile
BothNext  == Len(queue) = 2 /\ queue[1] # NoFile /\ queue[2] = NoFile

(* What the graph thread may be doing: nothing, an opening (up to the      *)
(* start of its error path), the rest of an error path, a TM_CLOSE.        *)
Rests  == pc["graph"] \in {"none", "invalid"}
Opens  == file["graph"] # NoFile /\ pc["graph"] \in Working \cup {"open"}
Fails  == file["graph"] # NoFile /\ pc["graph"] \in {"release", "closed"}
Closes == file["graph"] = NoFile /\ pc["graph"] \in {"close", "release", "closed"}

NoGraph == graph = NoFile

(* No opening starts over a graph, nor waits to do so.                     *)
GraphInv ==
    /\ \A t \in Threads : pc[t] \in {"begin", "create", "closed"} => NoGraph
    /\ pc["window"] = "invalid" => NoGraph
    /\ pc["graph"] = "open" => NoGraph
    /\ (OpenNext \/ BothNext) => NoGraph \/ pc["graph"] = "release"

Alone == Empty /\ Rests

(* Before SetClosing: an opening may be under way, and then the state says *)
(* so, or the error path of one.                                           *)
Calm == {"idle", "closeMedia", "aborting", "closing"}
CalmInv ==
    \/ Alone /\ state = "closed" /\ NoGraph
    \/ Alone /\ state = "loaded"
    \/ OpenNext /\ (Rests \/ Fails) /\ thru /\ state = "loading"
    \/ Empty /\ Opens /\ thru /\ state \in {"loading", "loaded"}
    \/ Empty /\ Fails /\ thru /\ state = "closing"

CloseGraphInv ==
    /\ \/ Alone
       \/ OpenNext /\ (Rests \/ Fails) /\ thru
       \/ Empty /\ (Opens \/ Fails) /\ thru
    /\ Fails => state = "closing"

(* TM_CLOSE is the last message, and its event says that it is done.       *)
WaitCloseInv ==
    /\ event => Empty /\ pc["graph"] = "none" /\ state = "closed" /\ NoGraph
    /\ ~event =>
       \/ CloseNext /\ (Rests \/ Opens \/ Fails)
       \/ BothNext /\ (Rests \/ Fails)
       \/ Empty /\ Closes
    /\ pc["graph"] \in {"release", "closed"} => state = "closing"

StartInv ==
    /\ Empty
    /\ (Rests /\ NoGraph) \/ (Fails /\ thru)
    /\ wpc = "start" => state = "loading"
    /\ wpc # "start" => IF Rests THEN state = "closed" ELSE state = "closing"

InOpenInv ==
    /\ Empty
    /\ Rests \/ (Fails /\ pc["window"] = "open")
    /\ pc["window"] \in {"open", "begin", "create", "created", "show", "shown", "load",
                         "report", "close"} => state = "loading"
    /\ pc["window"] = "open" /\ Rests => NoGraph
    /\ pc["window"] = "loaded" => state = "loaded"
    /\ pc["window"] \in {"release", "closed"} => state = "closing"
    /\ pc["window"] = "invalid" => state = "closed"
    /\ pc["window"] = "none" => (state = "loaded" \/ (state = "closed" /\ NoGraph))

InCloseInv ==
    /\ Alone /\ file["window"] = NoFile
    /\ pc["window"] \in {"none", "close", "release", "closed"}
    /\ pc["window"] \in {"release", "closed"} => state = "closing"
    /\ pc["window"] = "none" => state = "closed" /\ NoGraph

GoneInv ==
    /\ Empty \/ CloseNext
    /\ Rests \/ Fails \/ Closes

Phases ==
    /\ wpc \in Calm => CalmInv
    /\ wpc = "closeGraph" => CloseGraphInv
    /\ wpc = "waitClose" => WaitCloseInv
    /\ wpc \in {"load", "start", "exit"} => StartInv
    /\ wpc = "inOpen" => InOpenInv
    /\ wpc = "inClose" => InCloseInv
    /\ wpc \in {"waitExit", "gone"} => GoneInv

Disturbable == GraphInv /\ Phases
(* Without the graph and with any state, this much of Phases is left when  *)
(* a thread has been terminated.                                           *)
Shape ==
    /\ wpc \in Calm =>
       \/ Alone
       \/ OpenNext /\ (Rests \/ Fails) /\ thru /\ state = "loading"
       \/ Empty /\ Opens /\ thru /\ state \in {"loading", "loaded"}
       \/ Empty /\ Fails /\ thru /\ state = "closing"
    /\ wpc = "closeGraph" => CloseGraphInv
    /\ wpc = "waitClose" =>
       /\ event => Alone
       /\ ~event =>
          \/ CloseNext /\ (Rests \/ Opens \/ Fails)
          \/ BothNext /\ (Rests \/ Fails)
          \/ Empty /\ Closes
       /\ pc["graph"] \in {"release", "closed"} => state = "closing"
    /\ wpc \in {"load", "start", "exit"} =>
       /\ Empty /\ (Rests \/ (Fails /\ thru))
       /\ wpc # "start" /\ Fails => state = "closing"
       /\ wpc = "start" => state = "loading"
    /\ wpc = "inOpen" =>
       /\ Empty
       /\ Rests \/ (Fails /\ pc["window"] = "open" /\ state = "loading")
    /\ wpc = "inClose" => Alone

(* A step keeps the types; those of the window's place and of the threads' *)
(* are named here.                                                         *)
Stations == {"idle", "closeMedia", "aborting", "closing", "closeGraph", "waitClose",
             "inClose", "load", "start", "inOpen", "exit", "waitExit", "gone"}
Places   == {"none", "open", "begin", "create", "created", "show", "shown",
             "load", "loaded", "report", "close", "release", "closed", "invalid"}

LEMMA TypeStep ==
  ASSUME TypeOK, [Next]_vars
  PROVE  TypeOK'
<1>0. NoFile \in Messages /\ Files \subseteq Messages /\ Inline \subseteq Files
  BY OpenCloseAssumption DEF Messages, Files
<1> USE <1>0
    DEF TypeOK, Threads, Stations, Places, shared, mail, window, inside, user
<1>1. ASSUME NEW t \in Threads, Thread(t) PROVE TypeOK'
  <2>1. CASE EnterOpen(t)
    BY <2>1 DEF EnterOpen, Goto, Acquire
  <2>2. CASE RefuseOpen(t)
    BY <2>2 DEF RefuseOpen, Leave
  <2>3. CASE GoOn(t)
    BY <2>3 DEF GoOn, Goto
  <2>4. CASE AbortOpen(t)
    <3>1. /\ pc' = [pc EXCEPT ![t] = "report"] /\ err' = [err EXCEPT ![t] = "aborted"]
          /\ UNCHANGED <<state, aborted, thru, graph, mail, window, file, user, raced>>
          /\ lock' = "none" /\ bad' = bad
      BY <2>4 DEF AbortOpen, Goto, Throw
    <3>2. pc[t] \in {"begin", "create", "created", "shown"}
      BY <2>4 DEF AbortOpen, Goto
    <3> QED BY <3>1, <3>2
  <2>5. CASE CreateGraph(t)
    BY <2>5 DEF CreateGraph, Goto
  <2>6. CASE FailOpen(t)
    <3>1. /\ pc' = [pc EXCEPT ![t] = "report"] /\ err' = [err EXCEPT ![t] = "error"]
          /\ UNCHANGED <<state, aborted, thru, graph, mail, window, file, user, raced>>
          /\ lock' = "none" /\ bad' = bad \cup {file[t]}
      BY <2>6 DEF FailOpen, Goto, Throw
    <3>2. pc[t] \in {"begin", "create", "created", "shown"}
      BY <2>6 DEF FailOpen, Goto
    <3>3. bad' \subseteq Messages
      BY <3>1
    <3> QED BY <3>1, <3>2, <3>3
  <2>7. CASE ShowOnOsd(t)
    BY <2>7 DEF ShowOnOsd, Goto
  <2>8. CASE Loaded(t)
    BY <2>8 DEF Loaded, Goto
  <2>9. CASE FinishOpen(t)
    BY <2>9 DEF FinishOpen, Leave
  <2>10. CASE FinishTimesOut(t)
    BY <2>10 DEF FinishTimesOut, Goto, Throw
  <2>11. CASE Report(t)
    BY <2>11 DEF Report, Goto
  <2>12. CASE EnterClose(t)
    BY <2>12 DEF EnterClose, Goto, Acquire
  <2>13. CASE ReleaseGraph(t)
    BY <2>13 DEF ReleaseGraph, Goto
  <2>14. CASE Close(t)
    <3>1. pc' \in [Threads -> Places] /\ file' \in [Threads -> Messages]
      BY <2>14 DEF Close, Leave, Overtakes
    <3>2. err' \in [Threads -> {"none", "aborted", "error"}] /\ bad' \subseteq Messages
      BY <2>14 DEF Close, Leave, Overtakes
    <3>3. queue' \in Seq(Messages) /\ wpc' \in Stations
      BY <2>14 DEF Close, Leave, Overtakes
    <3>4. raced' \subseteq {"overtaken", "replayed", "killed"}
      BY <2>14 DEF Close, Leave, Overtakes
    <3> QED BY <2>14, <3>1, <3>2, <3>3, <3>4 DEF Close, Leave, Overtakes
  <2>15. CASE SetCurInvalid(t)
    BY <2>15 DEF SetCurInvalid, Leave
  <2> QED BY <1>1, <2>1, <2>2, <2>3, <2>4, <2>5, <2>6, <2>7, <2>8,
           <2>9, <2>10, <2>11, <2>12, <2>13, <2>14, <2>15 DEF Thread
<1>2. CASE UserOpens
  BY <1>2 DEF UserOpens, OpenMedia, Window
<1>3. CASE UserCloses
  BY <1>3 DEF UserCloses, Window
<1>4. CASE OnDestroy
  BY <1>4 DEF OnDestroy, Window
<1>5. CASE OnPlayPlay
  <2>1. pc' \in [Threads -> Places] /\ file' \in [Threads -> Messages]
    BY <1>5 DEF OnPlayPlay, OpenMedia, Window
  <2>2. err' \in [Threads -> {"none", "aborted", "error"}] /\ bad' \subseteq Messages
    BY <1>5 DEF OnPlayPlay, OpenMedia, Window
  <2>3. queue' \in Seq(Messages) /\ wpc' \in Stations
    BY <1>5 DEF OnPlayPlay, OpenMedia, Window
  <2>4. raced' \subseteq {"overtaken", "replayed", "killed"}
    BY <1>5 DEF OnPlayPlay, OpenMedia, Window
  <2> QED BY <1>5, <2>1, <2>2, <2>3, <2>4 DEF OnPlayPlay, OpenMedia, Window
<1>6. CASE NothingToClose
  BY <1>6 DEF NothingToClose, Window, AfterClose
<1>7. CASE StartClosing
  BY <1>7 DEF StartClosing, Window
<1>8. CASE AbortOpening
  BY <1>8 DEF AbortOpening, Window
<1>9. CASE StopAborting
  BY <1>9 DEF StopAborting, Window
<1>10. CASE SetClosing
  BY <1>10 DEF SetClosing, Window
<1>11. CASE PostClose
  <2>1. pc' \in [Threads -> Places] /\ file' \in [Threads -> Messages]
    BY <1>11 DEF PostClose, Window
  <2>2. err' \in [Threads -> {"none", "aborted", "error"}] /\ bad' \subseteq Messages
    BY <1>11 DEF PostClose, Window
  <2>3. queue' \in Seq(Messages) /\ wpc' \in Stations
    BY <1>11 DEF PostClose, Window
  <2>4. raced' \subseteq {"overtaken", "replayed", "killed"}
    BY <1>11 DEF PostClose, Window
  <2> QED BY <1>11, <2>1, <2>2, <2>3, <2>4 DEF PostClose, Window
<1>12. CASE CloseDirectly
  BY <1>12 DEF CloseDirectly, Window
<1>13. CASE Closed
  BY <1>13 DEF Closed, Window, AfterClose
<1>14. CASE CloseTimesOut
  <2>1. pc' \in [Threads -> Places] /\ file' \in [Threads -> Messages]
    BY <1>14 DEF CloseTimesOut, Window, AfterClose, Terminate
  <2>2. err' \in [Threads -> {"none", "aborted", "error"}] /\ bad' \subseteq Messages
    BY <1>14 DEF CloseTimesOut, Window, AfterClose, Terminate
  <2>3. queue' \in Seq(Messages) /\ wpc' \in Stations
    BY <1>14 DEF CloseTimesOut, Window, AfterClose, Terminate
  <2>4. raced' \subseteq {"overtaken", "replayed", "killed"}
    BY <1>14 DEF CloseTimesOut, Window, AfterClose, Terminate
  <2> QED BY <1>14, <2>1, <2>2, <2>3, <2>4 DEF CloseTimesOut, Window, AfterClose, Terminate
<1>15. CASE SetLoading
  BY <1>15 DEF SetLoading, Window
<1>16. CASE PostOpen
  BY <1>16 DEF PostOpen, Window
<1>17. CASE OpenDirectly
  BY <1>17 DEF OpenDirectly, Window
<1>18. CASE OpenReturns
  BY <1>18 DEF OpenReturns, Window
<1>19. CASE PostExit
  <2>1. pc' \in [Threads -> Places] /\ file' \in [Threads -> Messages]
    BY <1>19 DEF PostExit, Window
  <2>2. err' \in [Threads -> {"none", "aborted", "error"}] /\ bad' \subseteq Messages
    BY <1>19 DEF PostExit, Window
  <2>3. queue' \in Seq(Messages) /\ wpc' \in Stations
    BY <1>19 DEF PostExit, Window
  <2>4. raced' \subseteq {"overtaken", "replayed", "killed"}
    BY <1>19 DEF PostExit, Window
  <2> QED BY <1>19, <2>1, <2>2, <2>3, <2>4 DEF PostExit, Window
<1>20. CASE Exited
  BY <1>20 DEF Exited, Window
<1>21. CASE ExitTimesOut
  BY <1>21 DEF ExitTimesOut, Window, Terminate
<1>22. CASE Dispatch
  BY <1>22 DEF Dispatch
<1>23. CASE UNCHANGED vars
  BY <1>23 DEF vars
<1> QED
  BY <1>1, <1>2, <1>3, <1>4, <1>5, <1>6, <1>7, <1>8, <1>9, <1>10, <1>11, <1>12,
     <1>13, <1>14, <1>15, <1>16, <1>17, <1>18, <1>19, <1>20, <1>21, <1>22, <1>23
     DEF Next, WindowThread

(* The window's place, its request and the abort flag are changed by the   *)
(* window's thread alone, and it comes back only when it is done.          *)
LEMMA WindowStep ==
  ASSUME TypeOK, WindowInv, [Next]_vars
  PROVE  WindowInv'
<1> USE OpenCloseAssumption
    DEF TypeOK, WindowInv, Messages, Files, NoFile, Threads, shared, mail, window, inside, user
<1>1. ASSUME NEW t \in Threads, Thread(t) PROVE WindowInv'
  <2>1. CASE EnterOpen(t)
    BY <2>1 DEF EnterOpen, Goto, Acquire
  <2>2. CASE RefuseOpen(t)
    BY <2>2 DEF RefuseOpen, Leave
  <2>3. CASE GoOn(t)
    BY <2>3 DEF GoOn, Goto
  <2>4. CASE AbortOpen(t)
    BY <2>4 DEF AbortOpen, Goto, Throw
  <2>5. CASE CreateGraph(t)
    BY <2>5 DEF CreateGraph, Goto
  <2>6. CASE FailOpen(t)
    BY <2>6 DEF FailOpen, Goto, Throw
  <2>7. CASE ShowOnOsd(t)
    BY <2>7 DEF ShowOnOsd, Goto
  <2>8. CASE Loaded(t)
    BY <2>8 DEF Loaded, Goto
  <2>9. CASE FinishOpen(t)
    BY <2>9 DEF FinishOpen, Leave
  <2>10. CASE FinishTimesOut(t)
    BY <2>10 DEF FinishTimesOut, Goto, Throw
  <2>11. CASE Report(t)
    BY <2>11 DEF Report, Goto
  <2>12. CASE EnterClose(t)
    BY <2>12 DEF EnterClose, Goto, Acquire
  <2>13. CASE ReleaseGraph(t)
    BY <2>13 DEF ReleaseGraph, Goto
  <2>14. CASE Close(t)
    BY <2>14 DEF Close, Leave, Overtakes
  <2>15. CASE SetCurInvalid(t)
    BY <2>15 DEF SetCurInvalid, Leave
  <2> QED BY <1>1, <2>1, <2>2, <2>3, <2>4, <2>5, <2>6, <2>7, <2>8,
           <2>9, <2>10, <2>11, <2>12, <2>13, <2>14, <2>15 DEF Thread
<1>2. CASE UserOpens
  BY <1>2 DEF UserOpens, OpenMedia, Window
<1>3. CASE UserCloses
  BY <1>3 DEF UserCloses, Window
<1>4. CASE OnDestroy
  BY <1>4 DEF OnDestroy, Window
<1>5. CASE OnPlayPlay
  BY <1>5 DEF OnPlayPlay, OpenMedia, Window
<1>6. CASE NothingToClose
  BY <1>6 DEF NothingToClose, Window, AfterClose
<1>7. CASE StartClosing
  BY <1>7 DEF StartClosing, Window
<1>8. CASE AbortOpening
  BY <1>8 DEF AbortOpening, Window
<1>9. CASE StopAborting
  BY <1>9 DEF StopAborting, Window
<1>10. CASE SetClosing
  BY <1>10 DEF SetClosing, Window
<1>11. CASE PostClose
  BY <1>11 DEF PostClose, Window
<1>12. CASE CloseDirectly
  BY <1>12 DEF CloseDirectly, Window
<1>13. CASE Closed
  BY <1>13 DEF Closed, Window, AfterClose
<1>14. CASE CloseTimesOut
  BY <1>14 DEF CloseTimesOut, Window, AfterClose, Terminate
<1>15. CASE SetLoading
  BY <1>15 DEF SetLoading, Window
<1>16. CASE PostOpen
  BY <1>16 DEF PostOpen, Window
<1>17. CASE OpenDirectly
  BY <1>17 DEF OpenDirectly, Window
<1>18. CASE OpenReturns
  BY <1>18 DEF OpenReturns, Window
<1>19. CASE PostExit
  BY <1>19 DEF PostExit, Window
<1>20. CASE Exited
  BY <1>20 DEF Exited, Window
<1>21. CASE ExitTimesOut
  BY <1>21 DEF ExitTimesOut, Window, Terminate
<1>22. CASE Dispatch
  BY <1>22 DEF Dispatch
<1>23. CASE UNCHANGED vars
  BY <1>23 DEF vars
<1> QED
  BY <1>1, <1>2, <1>3, <1>4, <1>5, <1>6, <1>7, <1>8, <1>9, <1>10, <1>11, <1>12,
     <1>13, <1>14, <1>15, <1>16, <1>17, <1>18, <1>19, <1>20, <1>21, <1>22, <1>23
     DEF Next, WindowThread

(* Whoever enters waits for the lock to be free.                           *)
LEMMA LockStep ==
  ASSUME TypeOK, WindowInv, LockInv, [Next]_vars
  PROVE  LockInv'
<1> USE DEF TypeOK, WindowInv, LockInv, Held, Threads, shared, mail, window, inside, user
<1>1. ASSUME NEW t \in Threads, Thread(t) PROVE LockInv'
  <2>1. CASE EnterOpen(t)
    BY <2>1 DEF EnterOpen, Goto, Acquire
  <2>2. CASE RefuseOpen(t)
    BY <2>2 DEF RefuseOpen, Leave
  <2>3. CASE GoOn(t)
    BY <2>3 DEF GoOn, Goto
  <2>4. CASE AbortOpen(t)
    BY <2>4 DEF AbortOpen, Goto, Throw
  <2>5. CASE CreateGraph(t)
    BY <2>5 DEF CreateGraph, Goto
  <2>6. CASE FailOpen(t)
    BY <2>6 DEF FailOpen, Goto, Throw
  <2>7. CASE ShowOnOsd(t)
    BY <2>7 DEF ShowOnOsd, Goto
  <2>8. CASE Loaded(t)
    BY <2>8 DEF Loaded, Goto
  <2>9. CASE FinishOpen(t)
    BY <2>9 DEF FinishOpen, Leave
  <2>10. CASE FinishTimesOut(t)
    BY <2>10 DEF FinishTimesOut, Goto, Throw
  <2>11. CASE Report(t)
    BY <2>11 DEF Report, Goto
  <2>12. CASE EnterClose(t)
    BY <2>12 DEF EnterClose, Goto, Acquire
  <2>13. CASE ReleaseGraph(t)
    BY <2>13 DEF ReleaseGraph, Goto
  <2>14. CASE Close(t)
    BY <2>14 DEF Close, Leave, Overtakes
  <2>15. CASE SetCurInvalid(t)
    BY <2>15 DEF SetCurInvalid, Leave
  <2> QED BY <1>1, <2>1, <2>2, <2>3, <2>4, <2>5, <2>6, <2>7, <2>8,
           <2>9, <2>10, <2>11, <2>12, <2>13, <2>14, <2>15 DEF Thread
<1>2. CASE UserOpens
  BY <1>2 DEF UserOpens, OpenMedia, Window
<1>3. CASE UserCloses
  BY <1>3 DEF UserCloses, Window
<1>4. CASE OnDestroy
  BY <1>4 DEF OnDestroy, Window
<1>5. CASE OnPlayPlay
  BY <1>5 DEF OnPlayPlay, OpenMedia, Window
<1>6. CASE NothingToClose
  BY <1>6 DEF NothingToClose, Window, AfterClose
<1>7. CASE StartClosing
  BY <1>7 DEF StartClosing, Window
<1>8. CASE AbortOpening
  BY <1>8 DEF AbortOpening, Window
<1>9. CASE StopAborting
  BY <1>9 DEF StopAborting, Window
<1>10. CASE SetClosing
  BY <1>10 DEF SetClosing, Window
<1>11. CASE PostClose
  BY <1>11 DEF PostClose, Window
<1>12. CASE CloseDirectly
  BY <1>12 DEF CloseDirectly, Window
<1>13. CASE Closed
  BY <1>13 DEF Closed, Window, AfterClose
<1>14. CASE CloseTimesOut
  BY <1>14 DEF CloseTimesOut, Window, AfterClose, Terminate
<1>15. CASE SetLoading
  BY <1>15 DEF SetLoading, Window
<1>16. CASE PostOpen
  BY <1>16 DEF PostOpen, Window
<1>17. CASE OpenDirectly
  BY <1>17 DEF OpenDirectly, Window
<1>18. CASE OpenReturns
  BY <1>18 DEF OpenReturns, Window
<1>19. CASE PostExit
  BY <1>19 DEF PostExit, Window
<1>20. CASE Exited
  BY <1>20 DEF Exited, Window
<1>21. CASE ExitTimesOut
  BY <1>21 DEF ExitTimesOut, Window, Terminate
<1>22. CASE Dispatch
  BY <1>22 DEF Dispatch
<1>23. CASE UNCHANGED vars
  BY <1>23 DEF vars
<1> QED
  BY <1>1, <1>2, <1>3, <1>4, <1>5, <1>6, <1>7, <1>8, <1>9, <1>10, <1>11, <1>12,
     <1>13, <1>14, <1>15, <1>16, <1>17, <1>18, <1>19, <1>20, <1>21, <1>22, <1>23
     DEF Next, WindowThread

(* A thread takes its file with it through an opening, and its error from  *)
(* the place where it is thrown to the end of the error path.              *)
LEMMA FileStep ==
  ASSUME TypeOK, WindowInv, FileInv, [Next]_vars
  PROVE  FileInv'
<1> USE OpenCloseAssumption
    DEF TypeOK, WindowInv, FileInv, NoFile, Threads, Files, Messages, shared, mail, window,
        inside, user
<1>1. ASSUME NEW t \in Threads, Thread(t) PROVE FileInv'
  <2>1. CASE EnterOpen(t)
    BY <2>1 DEF EnterOpen, Goto, Acquire
  <2>2. CASE RefuseOpen(t)
    BY <2>2 DEF RefuseOpen, Leave
  <2>3. CASE GoOn(t)
    BY <2>3 DEF GoOn, Goto
  <2>4. CASE AbortOpen(t)
    <3>1. /\ pc' = [pc EXCEPT ![t] = "report"] /\ err' = [err EXCEPT ![t] = "aborted"]
          /\ file' = file
      BY <2>4 DEF AbortOpen, Goto, Throw
    <3>2. pc[t] \in {"begin", "create", "created", "shown"}
      BY <2>4 DEF AbortOpen, Goto
    <3> QED BY <3>1, <3>2
  <2>5. CASE CreateGraph(t)
    BY <2>5 DEF CreateGraph, Goto
  <2>6. CASE FailOpen(t)
    BY <2>6 DEF FailOpen, Goto, Throw
  <2>7. CASE ShowOnOsd(t)
    BY <2>7 DEF ShowOnOsd, Goto
  <2>8. CASE Loaded(t)
    BY <2>8 DEF Loaded, Goto
  <2>9. CASE FinishOpen(t)
    BY <2>9 DEF FinishOpen, Leave
  <2>10. CASE FinishTimesOut(t)
    BY <2>10 DEF FinishTimesOut, Goto, Throw
  <2>11. CASE Report(t)
    BY <2>11 DEF Report, Goto
  <2>12. CASE EnterClose(t)
    BY <2>12 DEF EnterClose, Goto, Acquire
  <2>13. CASE ReleaseGraph(t)
    BY <2>13 DEF ReleaseGraph, Goto
  <2>14. CASE Close(t)
    BY <2>14 DEF Close, Leave, Overtakes
  <2>15. CASE SetCurInvalid(t)
    BY <2>15 DEF SetCurInvalid, Leave
  <2> QED BY <1>1, <2>1, <2>2, <2>3, <2>4, <2>5, <2>6, <2>7, <2>8,
           <2>9, <2>10, <2>11, <2>12, <2>13, <2>14, <2>15 DEF Thread
<1>2. CASE UserOpens
  BY <1>2 DEF UserOpens, OpenMedia, Window
<1>3. CASE UserCloses
  BY <1>3 DEF UserCloses, Window
<1>4. CASE OnDestroy
  BY <1>4 DEF OnDestroy, Window
<1>5. CASE OnPlayPlay
  BY <1>5 DEF OnPlayPlay, OpenMedia, Window
<1>6. CASE NothingToClose
  BY <1>6 DEF NothingToClose, Window, AfterClose
<1>7. CASE StartClosing
  BY <1>7 DEF StartClosing, Window
<1>8. CASE AbortOpening
  BY <1>8 DEF AbortOpening, Window
<1>9. CASE StopAborting
  BY <1>9 DEF StopAborting, Window
<1>10. CASE SetClosing
  BY <1>10 DEF SetClosing, Window
<1>11. CASE PostClose
  BY <1>11 DEF PostClose, Window
<1>12. CASE CloseDirectly
  BY <1>12 DEF CloseDirectly, Window
<1>13. CASE Closed
  BY <1>13 DEF Closed, Window, AfterClose
<1>14. CASE CloseTimesOut
  BY <1>14 DEF CloseTimesOut, Window, AfterClose, Terminate
<1>15. CASE SetLoading
  BY <1>15 DEF SetLoading, Window
<1>16. CASE PostOpen
  BY <1>16 DEF PostOpen, Window
<1>17. CASE OpenDirectly
  BY <1>17 DEF OpenDirectly, Window
<1>18. CASE OpenReturns
  BY <1>18 DEF OpenReturns, Window
<1>19. CASE PostExit
  BY <1>19 DEF PostExit, Window
<1>20. CASE Exited
  BY <1>20 DEF Exited, Window
<1>21. CASE ExitTimesOut
  BY <1>21 DEF ExitTimesOut, Window, Terminate
<1>22. CASE Dispatch
  BY <1>22 DEF Dispatch
<1>23. CASE UNCHANGED vars
  BY <1>23 DEF vars
<1> QED
  BY <1>1, <1>2, <1>3, <1>4, <1>5, <1>6, <1>7, <1>8, <1>9, <1>10, <1>11, <1>12,
     <1>13, <1>14, <1>15, <1>16, <1>17, <1>18, <1>19, <1>20, <1>21, <1>22, <1>23
     DEF Next, WindowThread

(* The queue and the graph thread's place, as Phases has them, leave no    *)
(* opening that could begin before the graph of the last one is released.  *)
LEMMA GraphStep ==
  ASSUME TypeOK, WindowInv, LockInv, FileInv, Disturbable, [Next]_vars, Undisturbed'
  PROVE  GraphInv'
<1> USE OpenCloseAssumption
    DEF TypeOK, WindowInv, LockInv, Held, Working, Disturbable, FileInv, Undisturbed, NoFile,
        Threads, Files, Messages, shared, mail, window, inside, user, GraphInv, Empty, OpenNext,
        CloseNext, BothNext, Rests, Opens, Fails, Closes, NoGraph, Alone, Phases, Calm, CalmInv,
        CloseGraphInv, WaitCloseInv, StartInv, InOpenInv, InCloseInv, GoneInv
<1>1. ASSUME NEW t \in Threads, Thread(t) PROVE GraphInv'
  <2>1. CASE EnterOpen(t)
    BY <2>1 DEF EnterOpen, Goto, Acquire
  <2>2. CASE RefuseOpen(t)
    BY <2>2 DEF RefuseOpen, Leave
  <2>3. CASE GoOn(t)
    BY <2>3 DEF GoOn, Goto
  <2>4. CASE AbortOpen(t)
    BY <2>4 DEF AbortOpen, Goto, Throw
  <2>5. CASE CreateGraph(t)
    BY <2>5 DEF CreateGraph, Goto
  <2>6. CASE FailOpen(t)
    BY <2>6 DEF FailOpen, Goto, Throw
  <2>7. CASE ShowOnOsd(t)
    BY <2>7 DEF ShowOnOsd, Goto
  <2>8. CASE Loaded(t)
    BY <2>8 DEF Loaded, Goto
  <2>9. CASE FinishOpen(t)
    BY <2>9 DEF FinishOpen, Leave
  <2>10. CASE FinishTimesOut(t)
    BY <2>10 DEF FinishTimesOut, Goto, Throw
  <2>11. CASE Report(t)
    BY <2>11 DEF Report, Goto
  <2>12. CASE EnterClose(t)
    BY <2>12 DEF EnterClose, Goto, Acquire
  <2>13. CASE ReleaseGraph(t)
    BY <2>13 DEF ReleaseGraph, Goto
  <2>14. CASE Close(t)
    BY <2>14 DEF Close, Leave, Overtakes
  <2>15. CASE SetCurInvalid(t)
    BY <2>15 DEF SetCurInvalid, Leave
  <2> QED BY <1>1, <2>1, <2>2, <2>3, <2>4, <2>5, <2>6, <2>7, <2>8,
           <2>9, <2>10, <2>11, <2>12, <2>13, <2>14, <2>15 DEF Thread
<1>2. CASE UserOpens
  BY <1>2 DEF UserOpens, OpenMedia, Window
<1>3. CASE UserCloses
  BY <1>3 DEF UserCloses, Window
<1>4. CASE OnDestroy
  BY <1>4 DEF OnDestroy, Window
<1>5. CASE OnPlayPlay
  BY <1>5 DEF OnPlayPlay, OpenMedia, Window
<1>6. CASE NothingToClose
  BY <1>6 DEF NothingToClose, Window, AfterClose
<1>7. CASE StartClosing
  BY <1>7 DEF StartClosing, Window
<1>8. CASE AbortOpening
  BY <1>8 DEF AbortOpening, Window
<1>9. CASE StopAborting
  BY <1>9 DEF StopAborting, Window
<1>10. CASE SetClosing
  BY <1>10 DEF SetClosing, Window
<1>11. CASE PostClose
  BY <1>11 DEF PostClose, Window
<1>12. CASE CloseDirectly
  BY <1>12 DEF CloseDirectly, Window
<1>13. CASE Closed
  BY <1>13 DEF Closed, Window, AfterClose
<1>14. CASE CloseTimesOut
  BY <1>14 DEF CloseTimesOut, Window, AfterClose, Terminate
<1>15. CASE SetLoading
  BY <1>15 DEF SetLoading, Window
<1>16. CASE PostOpen
  BY <1>16 DEF PostOpen, Window
<1>17. CASE OpenDirectly
  BY <1>17 DEF OpenDirectly, Window
<1>18. CASE OpenReturns
  BY <1>18 DEF OpenReturns, Window
<1>19. CASE PostExit
  BY <1>19 DEF PostExit, Window
<1>20. CASE Exited
  BY <1>20 DEF Exited, Window
<1>21. CASE ExitTimesOut
  BY <1>21 DEF ExitTimesOut, Window, Terminate
<1>22. CASE Dispatch
  BY <1>22 DEF Dispatch
<1>23. CASE UNCHANGED vars
  BY <1>23 DEF vars
<1> QED
  BY <1>1, <1>2, <1>3, <1>4, <1>5, <1>6, <1>7, <1>8, <1>9, <1>10, <1>11, <1>12,
     <1>13, <1>14, <1>15, <1>16, <1>17, <1>18, <1>19, <1>20, <1>21, <1>22, <1>23
     DEF Next, WindowThread

(* A step of the graph thread stays within what the window's place allows; *)
(* a step of the window's thread finds what its next place asks for.       *)
LEMMA PhaseStep ==
  ASSUME TypeOK, WindowInv, LockInv, FileInv, Disturbable, [Next]_vars, Undisturbed'
  PROVE  Phases'
<1> USE OpenCloseAssumption
    DEF TypeOK, WindowInv, LockInv, Held, Working, Disturbable, FileInv, Undisturbed, NoFile,
        Threads, Files, Messages, shared, mail, window, inside, user, GraphInv, Empty, OpenNext,
        CloseNext, BothNext, Rests, Opens, Fails, Closes, NoGraph, Alone, Phases, Calm, CalmInv,
        CloseGraphInv, WaitCloseInv, StartInv, InOpenInv, InCloseInv, GoneInv
<1>1. ASSUME NEW t \in Threads, Thread(t) PROVE Phases'
  <2>1. CASE EnterOpen(t)
    BY <2>1 DEF EnterOpen, Goto, Acquire
  <2>2. CASE RefuseOpen(t)
    BY <2>2 DEF RefuseOpen, Leave
  <2>3. CASE GoOn(t)
    BY <2>3 DEF GoOn, Goto
  <2>4. CASE AbortOpen(t)
    <3>1. /\ pc' = [pc EXCEPT ![t] = "report"] /\ err' = [err EXCEPT ![t] = "aborted"]
          /\ UNCHANGED <<state, aborted, thru, graph, mail, window, file, user, raced>>
          /\ lock' = "none" /\ bad' = bad
      BY <2>4 DEF AbortOpen, Goto, Throw
    <3>2. pc[t] \in {"begin", "create", "created", "shown"}
      BY <2>4 DEF AbortOpen, Goto
    <3>3. CASE t = "graph"
      BY <3>1, <3>2, <3>3
    <3>4. CASE t = "window"
      BY <3>1, <3>2, <3>4
    <3> QED BY <3>3, <3>4
  <2>5. CASE CreateGraph(t)
    BY <2>5 DEF CreateGraph, Goto
  <2>6. CASE FailOpen(t)
    BY <2>6 DEF FailOpen, Goto, Throw
  <2>7. CASE ShowOnOsd(t)
    BY <2>7 DEF ShowOnOsd, Goto
  <2>8. CASE Loaded(t)
    BY <2>8 DEF Loaded, Goto
  <2>9. CASE FinishOpen(t)
    BY <2>9 DEF FinishOpen, Leave
  <2>10. CASE FinishTimesOut(t)
    BY <2>10 DEF FinishTimesOut, Goto, Throw
  <2>11. CASE Report(t)
    BY <2>11 DEF Report, Goto
  <2>12. CASE EnterClose(t)
    BY <2>12 DEF EnterClose, Goto, Acquire
  <2>13. CASE ReleaseGraph(t)
    BY <2>13 DEF ReleaseGraph, Goto
  <2>14. CASE Close(t)
    <3>1. CASE t = "graph" /\ err[t] = "error"
      BY <2>14, <3>1 DEF Close, Overtakes
    <3>2. CASE t = "graph" /\ err[t] # "error"
      <4>1. /\ pc["graph"] = "closed" /\ state' = "closed" /\ raced' = raced
            /\ pc' = [pc EXCEPT !["graph"] = "none"] /\ file' = [file EXCEPT !["graph"] = NoFile]
            /\ event' = (event \/ file["graph"] = NoFile) /\ state # "loading"
            /\ UNCHANGED <<thru, aborted, graph, queue, plays, window, user>>
        BY <2>14, <3>2 DEF Close, Leave, Overtakes
      <4>2. CASE file["graph"] = NoFile
        BY <4>1, <4>2
      <4>3. CASE file["graph"] # NoFile
        BY <4>1, <4>3
      <4> QED BY <4>2, <4>3
    <3>3. CASE t = "window" /\ err[t] = "error"
      BY <2>14, <3>3 DEF Close, Overtakes
    <3>4. CASE t = "window" /\ err[t] # "error"
      BY <2>14, <3>4 DEF Close, Leave, Overtakes
    <3> QED BY <3>1, <3>2, <3>3, <3>4
  <2>15. CASE SetCurInvalid(t)
    BY <2>15 DEF SetCurInvalid, Leave
  <2> QED BY <1>1, <2>1, <2>2, <2>3, <2>4, <2>5, <2>6, <2>7, <2>8,
           <2>9, <2>10, <2>11, <2>12, <2>13, <2>14, <2>15 DEF Thread
<1>2. CASE UserOpens
  BY <1>2 DEF UserOpens, OpenMedia, Window
<1>3. CASE UserCloses
  BY <1>3 DEF UserCloses, Window
<1>4. CASE OnDestroy
  BY <1>4 DEF OnDestroy, Window
<1>5. CASE OnPlayPlay
  BY <1>5 DEF OnPlayPlay, OpenMedia, Window
<1>6. CASE NothingToClose
  BY <1>6 DEF NothingToClose, Window, AfterClose
<1>7. CASE StartClosing
  BY <1>7 DEF StartClosing, Window
<1>8. CASE AbortOpening
  BY <1>8 DEF AbortOpening, Window
<1>9. CASE StopAborting
  BY <1>9 DEF StopAborting, Window
<1>10. CASE SetClosing
  BY <1>10 DEF SetClosing, Window
<1>11. CASE PostClose
  <2>1. /\ thru /\ Len(queue') = Len(queue) + 1 /\ queue'[Len(queue) + 1] = NoFile
        /\ \A i \in 1 .. Len(queue) : queue'[i] = queue[i]
        /\ wpc = "closeGraph" /\ wpc' = "waitClose" /\ ~event'
        /\ UNCHANGED <<shared, inside>>
    BY <1>11 DEF PostClose, Window
  <2> QED BY <2>1
<1>12. CASE CloseDirectly
  BY <1>12 DEF CloseDirectly, Window
<1>13. CASE Closed
  BY <1>13 DEF Closed, Window, AfterClose
<1>14. CASE CloseTimesOut
  BY <1>14 DEF CloseTimesOut, Window, AfterClose, Terminate
<1>15. CASE SetLoading
  BY <1>15 DEF SetLoading, Window
<1>16. CASE PostOpen
  BY <1>16 DEF PostOpen, Window
<1>17. CASE OpenDirectly
  BY <1>17 DEF OpenDirectly, Window
<1>18. CASE OpenReturns
  BY <1>18 DEF OpenReturns, Window
<1>19. CASE PostExit
  BY <1>19 DEF PostExit, Window
<1>20. CASE Exited
  BY <1>20 DEF Exited, Window
<1>21. CASE ExitTimesOut
  BY <1>21 DEF ExitTimesOut, Window, Terminate
<1>22. CASE Dispatch
  BY <1>22 DEF Dispatch
<1>23. CASE UNCHANGED vars
  BY <1>23 DEF vars
<1> QED
  BY <1>1, <1>2, <1>3, <1>4, <1>5, <1>6, <1>7, <1>8, <1>9, <1>10, <1>11, <1>12,
     <1>13, <1>14, <1>15, <1>16, <1>17, <1>18, <1>19, <1>20, <1>21, <1>22, <1>23
     DEF Next, WindowThread

(* The same with what is left of Phases.                                   *)
LEMMA ShapeStep ==
  ASSUME TypeOK, WindowInv, LockInv, FileInv, Shape, [Next]_vars, "overtaken" \notin raced'
  PROVE  Shape'
<1> USE OpenCloseAssumption
    DEF TypeOK, WindowInv, LockInv, Held, Working, FileInv, NoFile, Threads, Files, Messages,
        shared, mail, window, inside, user, Shape, Calm, CloseGraphInv, Empty, OpenNext,
        CloseNext, BothNext, Rests, Opens, Fails, Closes, NoGraph, Alone
<1>1. ASSUME NEW t \in Threads, Thread(t) PROVE Shape'
  <2>1. CASE EnterOpen(t)
    BY <2>1 DEF EnterOpen, Goto, Acquire
  <2>2. CASE RefuseOpen(t)
    BY <2>2 DEF RefuseOpen, Leave
  <2>3. CASE GoOn(t)
    BY <2>3 DEF GoOn, Goto
  <2>4. CASE AbortOpen(t)
    <3>1. /\ pc' = [pc EXCEPT ![t] = "report"] /\ err' = [err EXCEPT ![t] = "aborted"]
          /\ UNCHANGED <<state, aborted, thru, graph, mail, window, file, user, raced>>
          /\ lock' = "none" /\ bad' = bad
      BY <2>4 DEF AbortOpen, Goto, Throw
    <3>2. pc[t] \in {"begin", "create", "created", "shown"}
      BY <2>4 DEF AbortOpen, Goto
    <3>3. CASE t = "graph"
      BY <3>1, <3>2, <3>3
    <3>4. CASE t = "window"
      BY <3>1, <3>2, <3>4
    <3> QED BY <3>3, <3>4
  <2>5. CASE CreateGraph(t)
    BY <2>5 DEF CreateGraph, Goto
  <2>6. CASE FailOpen(t)
    BY <2>6 DEF FailOpen, Goto, Throw
  <2>7. CASE ShowOnOsd(t)
    BY <2>7 DEF ShowOnOsd, Goto
  <2>8. CASE Loaded(t)
    BY <2>8 DEF Loaded, Goto
  <2>9. CASE FinishOpen(t)
    BY <2>9 DEF FinishOpen, Leave
  <2>10. CASE FinishTimesOut(t)
    BY <2>10 DEF FinishTimesOut, Goto, Throw
  <2>11. CASE Report(t)
    BY <2>11 DEF Report, Goto
  <2>12. CASE EnterClose(t)
    BY <2>12 DEF EnterClose, Goto, Acquire
  <2>13. CASE ReleaseGraph(t)
    BY <2>13 DEF ReleaseGraph, Goto
  <2>14. CASE Close(t)
    <3>1. CASE t = "graph" /\ err[t] = "error"
      BY <2>14, <3>1 DEF Close, Overtakes
    <3>2. CASE t = "graph" /\ err[t] # "error"
      BY <2>14, <3>2 DEF Close, Leave, Overtakes
    <3>3. CASE t = "window" /\ err[t] = "error"
      BY <2>14, <3>3 DEF Close, Overtakes
    <3>4. CASE t = "window" /\ err[t] # "error"
      BY <2>14, <3>4 DEF Close, Leave, Overtakes
    <3> QED BY <3>1, <3>2, <3>3, <3>4
  <2>15. CASE SetCurInvalid(t)
    BY <2>15 DEF SetCurInvalid, Leave
  <2> QED BY <1>1, <2>1, <2>2, <2>3, <2>4, <2>5, <2>6, <2>7, <2>8,
           <2>9, <2>10, <2>11, <2>12, <2>13, <2>14, <2>15 DEF Thread
<1>2. CASE UserOpens
  BY <1>2 DEF UserOpens, OpenMedia, Window
<1>3. CASE UserCloses
  BY <1>3 DEF UserCloses, Window
<1>4. CASE OnDestroy
  BY <1>4 DEF OnDestroy, Window
<1>5. CASE OnPlayPlay
  BY <1>5 DEF OnPlayPlay, OpenMedia, Window
<1>6. CASE NothingToClose
  BY <1>6 DEF NothingToClose, Window, AfterClose
<1>7. CASE StartClosing
  BY <1>7 DEF StartClosing, Window
<1>8. CASE AbortOpening
  BY <1>8 DEF AbortOpening, Window
<1>9. CASE StopAborting
  BY <1>9 DEF StopAborting, Window
<1>10. CASE SetClosing
  BY <1>10 DEF SetClosing, Window
<1>11. CASE PostClose
  BY <1>11 DEF PostClose, Window
<1>12. CASE CloseDirectly
  BY <1>12 DEF CloseDirectly, Window
<1>13. CASE Closed
  BY <1>13 DEF Closed, Window, AfterClose
<1>14. CASE CloseTimesOut
  BY <1>14 DEF CloseTimesOut, Window, AfterClose, Terminate
<1>15. CASE SetLoading
  BY <1>15 DEF SetLoading, Window
<1>16. CASE PostOpen
  BY <1>16 DEF PostOpen, Window
<1>17. CASE OpenDirectly
  BY <1>17 DEF OpenDirectly, Window
<1>18. CASE OpenReturns
  BY <1>18 DEF OpenReturns, Window
<1>19. CASE PostExit
  BY <1>19 DEF PostExit, Window
<1>20. CASE Exited
  BY <1>20 DEF Exited, Window
<1>21. CASE ExitTimesOut
  BY <1>21 DEF ExitTimesOut, Window, Terminate
<1>22. CASE Dispatch
  BY <1>22 DEF Dispatch
<1>23. CASE UNCHANGED vars
  BY <1>23 DEF vars
<1> QED
  BY <1>1, <1>2, <1>3, <1>4, <1>5, <1>6, <1>7, <1>8, <1>9, <1>10, <1>11, <1>12,
     <1>13, <1>14, <1>15, <1>16, <1>17, <1>18, <1>19, <1>20, <1>21, <1>22, <1>23
     DEF Next, WindowThread

(* What has raced is not forgotten.                                        *)
LEMMA RacedGrows ==
  ASSUME [Next]_vars
  PROVE  raced \subseteq raced'
<1> USE DEF shared, mail, window, inside, user
<1>1. ASSUME NEW t \in Threads, Thread(t) PROVE raced \subseteq raced'
  <2>1. CASE EnterOpen(t)
    BY <2>1 DEF EnterOpen, Goto, Acquire
  <2>2. CASE RefuseOpen(t)
    BY <2>2 DEF RefuseOpen, Leave
  <2>3. CASE GoOn(t)
    BY <2>3 DEF GoOn, Goto
  <2>4. CASE AbortOpen(t)
    BY <2>4 DEF AbortOpen, Goto, Throw
  <2>5. CASE CreateGraph(t)
    BY <2>5 DEF CreateGraph, Goto
  <2>6. CASE FailOpen(t)
    BY <2>6 DEF FailOpen, Goto, Throw
  <2>7. CASE ShowOnOsd(t)
    BY <2>7 DEF ShowOnOsd, Goto
  <2>8. CASE Loaded(t)
    BY <2>8 DEF Loaded, Goto
  <2>9. CASE FinishOpen(t)
    BY <2>9 DEF FinishOpen, Leave
  <2>10. CASE FinishTimesOut(t)
    BY <2>10 DEF FinishTimesOut, Goto, Throw
  <2>11. CASE Report(t)
    BY <2>11 DEF Report, Goto
  <2>12. CASE EnterClose(t)
    BY <2>12 DEF EnterClose, Goto, Acquire
  <2>13. CASE ReleaseGraph(t)
    BY <2>13 DEF ReleaseGraph, Goto
  <2>14. CASE Close(t)
    BY <2>14 DEF Close, Leave, Overtakes
  <2>15. CASE SetCurInvalid(t)
    BY <2>15 DEF SetCurInvalid, Leave
  <2> QED BY <1>1, <2>1, <2>2, <2>3, <2>4, <2>5, <2>6, <2>7, <2>8,
           <2>9, <2>10, <2>11, <2>12, <2>13, <2>14, <2>15 DEF Thread
<1>2. CASE UserOpens
  BY <1>2 DEF UserOpens, OpenMedia, Window
<1>3. CASE UserCloses
  BY <1>3 DEF UserCloses, Window
<1>4. CASE OnDestroy
  BY <1>4 DEF OnDestroy, Window
<1>5. CASE OnPlayPlay
  BY <1>5 DEF OnPlayPlay, OpenMedia, Window
<1>6. CASE NothingToClose
  BY <1>6 DEF NothingToClose, Window, AfterClose
<1>7. CASE StartClosing
  BY <1>7 DEF StartClosing, Window
<1>8. CASE AbortOpening
  BY <1>8 DEF AbortOpening, Window
<1>9. CASE StopAborting
  BY <1>9 DEF StopAborting, Window
<1>10. CASE SetClosing
  BY <1>10 DEF SetClosing, Window
<1>11. CASE PostClose
  BY <1>11 DEF PostClose, Window
<1>12. CASE CloseDirectly
  BY <1>12 DEF CloseDirectly, Window
<1>13. CASE Closed
  BY <1>13 DEF Closed, Window, AfterClose
<1>14. CASE CloseTimesOut
  BY <1>14 DEF CloseTimesOut, Window, AfterClose, Terminate
<1>15. CASE SetLoading
  BY <1>15 DEF SetLoading, Window
<1>16. CASE PostOpen
  BY <1>16 DEF PostOpen, Window
<1>17. CASE OpenDirectly
  BY <1>17 DEF OpenDirectly, Window
<1>18. CASE OpenReturns
  BY <1>18 DEF OpenReturns, Window
<1>19. CASE PostExit
  BY <1>19 DEF PostExit, Window
<1>20. CASE Exited
  BY <1>20 DEF Exited, Window
<1>21. CASE ExitTimesOut
  BY <1>21 DEF ExitTimesOut, Window, Terminate
<1>22. CASE Dispatch
  BY <1>22 DEF Dispatch
<1>23. CASE UNCHANGED vars
  BY <1>23 DEF vars
<1> QED
  BY <1>1, <1>2, <1>3, <1>4, <1>5, <1>6, <1>7, <1>8, <1>9, <1>10, <1>11, <1>12,
     <1>13, <1>14, <1>15, <1>16, <1>17, <1>18, <1>19, <1>20, <1>21, <1>22, <1>23
     DEF Next, WindowThread

(* What the user asked last is what the window's thread was last about.    *)
Wish ==
    /\ wanted = "open" <=> wop = "open"
    /\ wop = "open" => request = last /\ last # NoFile

(* How an opening that nothing interrupts stands.                          *)
Reaches(t) ==
    /\ pc[t] \in {"created", "show", "shown", "load", "loaded"} => graph = file[t]
    /\ pc[t] \in {"report", "close", "release", "closed", "invalid"}
         => err[t] = "error" /\ file[t] \in bad
    /\ pc[t] = "loaded" => state = "loaded"
    /\ pc[t] \in (Working \cup {"open"}) \ {"loaded"} => state = "loading"

(* Between two operations the file opened last is open, could not be       *)
(* opened, or is on its way.                                               *)
IdleWant ==
    \/ Alone /\ state = "closed" /\ (wop = "open" => last \in bad)
    \/ Alone /\ state = "loaded" /\ graph = last /\ wop = "open"
    \/ OpenNext /\ queue[1] = last /\ wop = "open"
    \/ Empty /\ Opens /\ file["graph"] = last /\ wop = "open" /\ Reaches("graph")
    \/ Empty /\ Fails /\ (wop = "open" => file["graph"] = last /\ last \in bad)

InOpenWant ==
    /\ wop = "open" /\ Reaches("window")
    /\ pc["window"] # "none" => file["window"] = last
    /\ pc["window"] = "none" => IF state = "loaded" THEN graph = last ELSE last \in bad

(* Leaving the program: what is left to be closed is, before the thread ends. *)
ExitWant ==
    /\ wop = "exit"
    /\ \/ CloseNext /\ Rests /\ NoGraph /\ state = "closed"
       \/ CloseNext /\ Fails /\ state = "closing"
       \/ Empty /\ Closes /\ (pc["graph"] # "close" => state = "closing")
       \/ Empty /\ Rests /\ NoGraph /\ state = "closed"

WantInv ==
    /\ Wish
    /\ wpc = "idle" => IdleWant
    /\ wpc = "inOpen" => InOpenWant
    /\ wpc = "exit" => wop = "exit"
    /\ wpc \in {"waitExit", "gone"} => ExitWant

(* The wish is kept until nothing is left to be done.                      *)
LEMMA WantStep ==
  ASSUME TypeOK, WindowInv, LockInv, FileInv, Disturbable, WantInv, [Next]_vars, raced' = {}
  PROVE  WantInv'
<1> USE OpenCloseAssumption
    DEF TypeOK, WindowInv, LockInv, Held, Working, Disturbable, FileInv, NoFile, Threads, Files,
        Messages, shared, mail, window, inside, user, GraphInv, Empty, OpenNext, CloseNext,
        BothNext, Rests, Opens, Fails, Closes, NoGraph, Alone, Phases, Calm, CalmInv,
        CloseGraphInv, WaitCloseInv, StartInv, InOpenInv, InCloseInv, GoneInv, Wish, Reaches,
        IdleWant, InOpenWant, ExitWant, WantInv
<1>1. ASSUME NEW t \in Threads, Thread(t) PROVE WantInv'
  <2>1. CASE EnterOpen(t)
    BY <2>1 DEF EnterOpen, Goto, Acquire
  <2>2. CASE RefuseOpen(t)
    BY <2>2 DEF RefuseOpen, Leave
  <2>3. CASE GoOn(t)
    BY <2>3 DEF GoOn, Goto
  <2>4. CASE AbortOpen(t)
    BY <2>4 DEF AbortOpen, Goto, Throw
  <2>5. CASE CreateGraph(t)
    BY <2>5 DEF CreateGraph, Goto
  <2>6. CASE FailOpen(t)
    BY <2>6 DEF FailOpen, Goto, Throw
  <2>7. CASE ShowOnOsd(t)
    BY <2>7 DEF ShowOnOsd, Goto
  <2>8. CASE Loaded(t)
    BY <2>8 DEF Loaded, Goto
  <2>9. CASE FinishOpen(t)
    BY <2>9 DEF FinishOpen, Leave
  <2>10. CASE FinishTimesOut(t)
    BY <2>10 DEF FinishTimesOut, Goto, Throw
  <2>11. CASE Report(t)
    BY <2>11 DEF Report, Goto
  <2>12. CASE EnterClose(t)
    BY <2>12 DEF EnterClose, Goto, Acquire
  <2>13. CASE ReleaseGraph(t)
    BY <2>13 DEF ReleaseGraph, Goto
  <2>14. CASE Close(t)
    BY <2>14 DEF Close, Leave, Overtakes
  <2>15. CASE SetCurInvalid(t)
    BY <2>15 DEF SetCurInvalid, Leave
  <2> QED BY <1>1, <2>1, <2>2, <2>3, <2>4, <2>5, <2>6, <2>7, <2>8,
           <2>9, <2>10, <2>11, <2>12, <2>13, <2>14, <2>15 DEF Thread
<1>2. CASE UserOpens
  BY <1>2 DEF UserOpens, OpenMedia, Window
<1>3. CASE UserCloses
  BY <1>3 DEF UserCloses, Window
<1>4. CASE OnDestroy
  BY <1>4 DEF OnDestroy, Window
<1>5. CASE OnPlayPlay
  BY <1>5 DEF OnPlayPlay, OpenMedia, Window
<1>6. CASE NothingToClose
  BY <1>6 DEF NothingToClose, Window, AfterClose
<1>7. CASE StartClosing
  BY <1>7 DEF StartClosing, Window
<1>8. CASE AbortOpening
  BY <1>8 DEF AbortOpening, Window
<1>9. CASE StopAborting
  BY <1>9 DEF StopAborting, Window
<1>10. CASE SetClosing
  BY <1>10 DEF SetClosing, Window
<1>11. CASE PostClose
  BY <1>11 DEF PostClose, Window
<1>12. CASE CloseDirectly
  BY <1>12 DEF CloseDirectly, Window
<1>13. CASE Closed
  BY <1>13 DEF Closed, Window, AfterClose
<1>14. CASE CloseTimesOut
  BY <1>14 DEF CloseTimesOut, Window, AfterClose, Terminate
<1>15. CASE SetLoading
  BY <1>15 DEF SetLoading, Window
<1>16. CASE PostOpen
  BY <1>16 DEF PostOpen, Window
<1>17. CASE OpenDirectly
  BY <1>17 DEF OpenDirectly, Window
<1>18. CASE OpenReturns
  BY <1>18 DEF OpenReturns, Window
<1>19. CASE PostExit
  BY <1>19 DEF PostExit, Window
<1>20. CASE Exited
  BY <1>20 DEF Exited, Window
<1>21. CASE ExitTimesOut
  BY <1>21 DEF ExitTimesOut, Window, Terminate
<1>22. CASE Dispatch
  BY <1>22 DEF Dispatch
<1>23. CASE UNCHANGED vars
  BY <1>23 DEF vars
<1> QED
  BY <1>1, <1>2, <1>3, <1>4, <1>5, <1>6, <1>7, <1>8, <1>9, <1>10, <1>11, <1>12,
     <1>13, <1>14, <1>15, <1>16, <1>17, <1>18, <1>19, <1>20, <1>21, <1>22, <1>23
     DEF Next, WindowThread

(* Every variable keeps its type.                                          *)
THEOREM Types == Spec => [](TypeOK /\ WindowInv)
<1>1. Init => TypeOK /\ WindowInv
  <2> SUFFICES ASSUME Init PROVE TypeOK /\ WindowInv
    OBVIOUS
  <2> USE DEF Init, Messages, Files, NoFile, Threads
  <2>1. pc \in [Threads -> Places] /\ file \in [Threads -> Messages]
    BY DEF Places
  <2>2. err \in [Threads -> {"none", "aborted", "error"}]
    OBVIOUS
  <2>3. queue \in Seq(Messages) /\ bad \subseteq Messages
    OBVIOUS
  <2> QED BY <2>1, <2>2, <2>3 DEF TypeOK, WindowInv, Places
<1>2. TypeOK /\ WindowInv /\ [Next]_vars => TypeOK' /\ WindowInv'
  BY TypeStep, WindowStep
<1> QED BY <1>1, <1>2, PTL DEF Spec

(* m_csOpenClose is held by the thread that is inside, and by it alone.    *)
THEOREM LockHeldInside == Spec => []LockInv
<1>1. Init => LockInv
  BY DEF Init, LockInv, Held, Threads
<1>2. TypeOK /\ WindowInv /\ LockInv /\ [Next]_vars => LockInv'
  BY LockStep
<1> QED BY Types, <1>1, <1>2, PTL DEF Spec

(* The files and errors are right whatever happens.                        *)
LEMMA FilesCarried == Spec => []FileInv
<1>1. Init => FileInv
  BY DEF Init, FileInv, Threads, NoFile
<1>2. TypeOK /\ WindowInv /\ FileInv /\ [Next]_vars => FileInv'
  BY FileStep
<1> QED BY Types, <1>1, <1>2, PTL DEF Spec

(* The invariant holds until something has disturbed.                      *)
LEMMA UndisturbedHolds == Spec => [](Undisturbed => Disturbable)
<1>1. Init => Disturbable
  BY
     DEF Init, Disturbable, FileInv, Threads, NoFile, GraphInv, Empty, OpenNext, CloseNext,
         BothNext, Rests, Opens, Fails, Closes, NoGraph, Alone, Phases, Calm, CalmInv,
         CloseGraphInv, WaitCloseInv, StartInv, InOpenInv, InCloseInv, GoneInv
<1>2. TypeOK /\ WindowInv /\ LockInv /\ FileInv /\ (Undisturbed => Disturbable) /\ [Next]_vars
        => (Undisturbed' => Disturbable')
  BY RacedGrows, GraphStep, PhaseStep DEF Disturbable, Undisturbed
<1> QED BY Types, LockHeldInside, FilesCarried, <1>1, <1>2, PTL DEF Spec

(* OpenCreateGraphObject finds no graph (GraphCore.cpp:1129).              *)
THEOREM GraphsNotReplaced == Spec => []NoGraphReplaced
<1>1. Disturbable => NoGraphLeft
  BY DEF Disturbable, GraphInv, NoGraph, NoGraphLeft, NoFile
<1> QED BY UndisturbedHolds, <1>1, PTL DEF NoGraphReplaced

(* When CloseMedia goes on, what it closed is released.                    *)
THEOREM ClosingReleases == Spec => ClosedIsReleased
<1>1. (Undisturbed => Disturbable) /\ [Next]_vars
        => [Closed /\ Undisturbed => state = "closed" /\ graph = NoFile]_vars
  BY DEF Disturbable, Phases, WaitCloseInv, InCloseInv, NoGraph, Closed, Window
<1> QED BY UndisturbedHolds, <1>1, PTL DEF Spec, ClosedIsReleased

(* When all is quiet the player is as its user last asked.                 *)
THEOREM PlayerIsAsWanted == Spec => []AsWanted
<1>1. Init => WantInv
  BY OpenCloseAssumption
     DEF Init, WantInv, Wish, IdleWant, Alone, Empty, Rests, Threads, NoFile
<1>2. TypeOK /\ WindowInv /\ LockInv /\ FileInv /\ (Undisturbed => Disturbable)
        /\ (raced = {} => WantInv) /\ [Next]_vars
        => (raced = {} => WantInv)'
  BY RacedGrows, WantStep DEF Undisturbed
<1>3. TypeOK /\ WindowInv /\ (Undisturbed => Disturbable) /\ (raced = {} => WantInv) => AsWanted
  <2> SUFFICES ASSUME TypeOK, WindowInv, Disturbable, WantInv, Quiet PROVE
        \/ wanted = "close" /\ state = "closed" /\ graph = NoFile
        \/ wanted = "open" /\ state = "loaded" /\ graph = last
        \/ wanted = "open" /\ state = "closed" /\ graph = NoFile /\ last \in bad
    BY DEF AsWanted, Undisturbed
  <2>1. queue = <<>> /\ pc["graph"] = "none" /\ Len(queue) = 0
    BY DEF Quiet, Threads
  <2>2. CASE wpc = "idle"
    BY <2>1, <2>2
       DEF WantInv, Wish, IdleWant, Disturbable, Phases, Calm, CalmInv, Alone, Empty, Rests,
           Opens, Fails, Working, OpenNext, NoGraph, TypeOK
  <2>3. CASE wpc = "gone"
    BY <2>1, <2>3
       DEF WantInv, Wish, ExitWant, CloseNext, Empty, Rests, Closes, NoGraph, TypeOK
  <2> QED BY <2>2, <2>3 DEF Quiet
<1> QED BY Types, LockHeldInside, FilesCarried, UndisturbedHolds, <1>1, <1>2, <1>3, PTL DEF Spec

(* The window does not wait for m_csOpenClose while the graph thread that  *)
(* holds it waits for the window, also not after a thread was terminated.  *)
THEOREM NeverEmbrace == Spec => []NoEmbrace
<1>1. Init => Shape
  BY DEF Init, Shape, Calm, Alone, Empty, Rests, Threads
<1>2. TypeOK /\ WindowInv /\ LockInv /\ FileInv /\ ("overtaken" \notin raced => Shape)
        /\ [Next]_vars
        => ("overtaken" \notin raced => Shape)'
  BY RacedGrows, ShapeStep
<1>3. WindowInv /\ ("overtaken" \notin raced => Shape) => NoEmbrace
  BY DEF WindowInv, Shape, Alone, Rests, Fails, NoEmbrace, Embrace
<1> QED BY Types, LockHeldInside, FilesCarried, <1>1, <1>2, <1>3, PTL DEF Spec
=============================================================================
