------------------------------ MODULE OpenClose ------------------------------
(***************************************************************************)
(* Opening and closing media (src/src/apps/mplayerc: GraphCore.cpp,        *)
(* GraphThread.cpp, MainFrm.cpp).  The window's thread runs OpenMedia,     *)
(* CloseMedia and OnDestroy; the graph thread takes the messages TM_OPEN,  *)
(* TM_CLOSE and TM_EXIT and runs OpenMediaPrivate and CloseMediaPrivate    *)
(* under m_csOpenClose; for the engines that open without it the window's  *)
(* thread runs them itself.  m_iMediaLoadState and m_fOpeningAborted are   *)
(* read and written by both without a lock.                                *)
(*                                                                         *)
(* While the window's thread sleeps in CloseMedia it dispatches nothing:   *)
(* any call that sends its windows a message waits (PumpsMessages).  The   *)
(* three seconds CloseMedia gives an opening to abort and the five it      *)
(* waits for the graph thread may always pass: a file can take that long.  *)
(***************************************************************************)
EXTENDS Naturals, Sequences, FiniteSets

CONSTANTS
    NumFiles,    \* the files the user opens, one after the other: 1 .. NumFiles
    Inline,      \* those whose engine opens them on the window's thread
    MaxCloses    \* bound on the times the user closes

ASSUME OpenCloseAssumption ==
    NumFiles \in Nat /\ Inline \subseteq 1 .. NumFiles /\ MaxCloses \in Nat

Files   == 1 .. NumFiles
Threads == {"window", "graph"}
NoFile  == 0

VARIABLES
    state,       \* m_iMediaLoadState
    aborted,     \* m_fOpeningAborted
    thru,        \* m_fOpenedThruThread
    graph,       \* the file pGB is the graph of
    lock,        \* who holds m_csOpenClose; "dead", a thread that was terminated
    queue,       \* the messages of the graph thread
    plays,       \* ID_PLAY_PLAY messages posted to the window
    event,       \* e of the TM_CLOSE or TM_EXIT under way is set
    wpc,         \* where the window's thread is
    wop,         \* "open", "close" or "exit": what it closes for
    request,     \* the file it opens
    pc,          \* where each thread is in OpenMediaPrivate and CloseMediaPrivate
    file,        \* the file it opens there, NoFile in a mere CloseMediaPrivate
    err,         \* "none", "aborted" or "error"
    \* history
    last, closes,    \* the last file and the number of times the user asked
    wanted,          \* "open" or "close": his last operation
    bad,             \* files that could not be opened
    raced            \* what went wrong, see Overtakes, Replay and Terminate

shared == <<state, aborted, thru, graph, lock>>
mail   == <<queue, plays, event>>
window == <<wpc, wop, request>>
inside == <<pc, file, err>>
user   == <<last, closes, wanted>>
vars   == <<shared, mail, window, inside, user, bad, raced>>

Init ==
    /\ state = "closed" /\ aborted = FALSE /\ thru = FALSE /\ graph = NoFile /\ lock = "none"
    /\ queue = <<>> /\ plays = 0 /\ event = FALSE
    /\ wpc = "idle" /\ wop = "close" /\ request = NoFile
    /\ pc = [t \in Threads |-> "none"] /\ file = [t \in Threads |-> NoFile]
    /\ err = [t \in Threads |-> "none"]
    /\ last = NoFile /\ closes = 0 /\ wanted = "close" /\ bad = {} /\ raced = {}

PumpsMessages == wpc \in {"idle", "gone"}

------------------------------------------------------------------------------
(* OpenMediaPrivate and CloseMediaPrivate on thread t.                     *)
Goto(t, at, then) ==
    /\ pc[t] = at /\ pc' = [pc EXCEPT ![t] = then]
    /\ UNCHANGED <<thru, aborted, queue, file, window, user>>

(* Back in the caller: OnClose and OnExit set their event.                 *)
Leave(t) ==
    /\ pc' = [pc EXCEPT ![t] = "none"] /\ file' = [file EXCEPT ![t] = NoFile]
    /\ err' = [err EXCEPT ![t] = "none"]
    /\ event' = (event \/ (t = "graph" /\ file[t] = NoFile))

Acquire(t) == lock = "none" /\ lock' = t

EnterOpen(t) ==
    /\ Goto(t, "open", "begin") /\ Acquire(t)
    /\ state \in {"closed", "loading"} /\ state' = "loading"
    /\ UNCHANGED <<graph, plays, event, err, bad, raced>>

(* ASSERT(0): something is open, and the file is not opened.               *)
RefuseOpen(t) ==
    /\ pc[t] = "open" /\ lock = "none" /\ state \notin {"closed", "loading"} /\ Leave(t)
    /\ UNCHANGED <<shared, queue, plays, window, user, bad, raced>>

Throw(t, what) == err' = [err EXCEPT ![t] = what]

(* The tests of m_fOpeningAborted between two stages; not every opening    *)
(* shows a message.                                                        *)
GoOn(t) ==
    /\ ~aborted
    /\ \/ Goto(t, "begin", "create") \/ Goto(t, "created", "show")
       \/ Goto(t, "created", "shown") \/ Goto(t, "shown", "load")
    /\ UNCHANGED <<state, graph, lock, plays, event, err, bad, raced>>

AbortOpen(t) ==
    /\ aborted /\ Throw(t, "aborted") /\ lock' = "none"
    /\ \/ Goto(t, "begin", "report") \/ Goto(t, "created", "report")
       \/ Goto(t, "shown", "report")
    /\ UNCHANGED <<state, graph, plays, event, bad, raced>>

CreateGraph(t) ==
    /\ Goto(t, "create", "created") /\ graph' = file[t]
    /\ UNCHANGED <<state, lock, plays, event, err, bad, raced>>

(* The file is not there or cannot be rendered: before or with a graph.    *)
FailOpen(t) ==
    /\ Throw(t, "error") /\ lock' = "none" /\ bad' = bad \cup {file[t]}
    /\ Goto(t, "create", "report") \/ Goto(t, "shown", "report")
    /\ UNCHANGED <<state, graph, plays, event, raced>>

(* The message on the OSD waits for the window, with the lock held.        *)
ShowOnOsd(t) ==
    /\ Goto(t, "show", "shown") /\ (t = "window" \/ PumpsMessages)
    /\ UNCHANGED <<state, graph, lock, plays, event, err, bad, raced>>

Loaded(t) ==                       \* and ID_PLAY_PLAY is posted
    /\ Goto(t, "load", "loaded") /\ state' = "loaded" /\ plays' = plays + 1
    /\ UNCHANGED <<graph, lock, event, err, bad, raced>>

(* At its end it waits for the state to be LOADED or CLOSING, which it is  *)
(* unless the window has stored another one: after ten seconds of that it  *)
(* has been aborted.  By then the window waits, or has nothing to do.      *)
FinishLocked(t) ==
    /\ pc[t] = "loaded" /\ state \in {"loaded", "closing"} /\ Leave(t)
    /\ UNCHANGED <<shared, queue, plays, window, user, bad, raced>>
FinishOpen(t) ==
    /\ pc[t] = "loaded" /\ state \in {"loaded", "closing"} /\ Leave(t)
    /\ lock' = "none"
    /\ UNCHANGED <<state, aborted, thru, graph, queue, plays, window, user, bad, raced>>

FinishTimesOut(t) ==
    /\ Goto(t, "loaded", "report") /\ state \notin {"loaded", "closing"}
    /\ wpc \in {"waitClose", "inOpen", "waitExit", "gone"} \/ (wpc = "idle" /\ plays = 0)
    /\ Throw(t, "aborted") /\ lock' = "none"
    /\ UNCHANGED <<state, graph, plays, event, bad, raced>>

(* An error is shown on the OSD, then the media is closed.                 *)
Report(t) ==
    /\ Goto(t, "report", "close") /\ (t = "window" \/ PumpsMessages)
    /\ UNCHANGED <<state, graph, lock, plays, event, err, bad, raced>>

EnterClose(t) ==
    /\ Goto(t, "close", "release") /\ Acquire(t) /\ state' = "closing"
    /\ UNCHANGED <<graph, plays, event, err, bad, raced>>

KeepGraph(t) ==
    /\ Goto(t, "release", "closed")
    /\ UNCHANGED <<state, graph, lock, plays, event, err, bad, raced>>
ReleaseGraph(t) ==
    /\ Goto(t, "release", "closed") /\ graph' = NoFile
    /\ UNCHANGED <<state, lock, plays, event, err, bad, raced>>

(* The error path of an earlier file overwrites the LOADING of OpenMedia.  *)
Overtakes == IF state = "loading" THEN {"overtaken"} ELSE {}

Close(t) ==
    /\ pc[t] = "closed" /\ state' = "closed" /\ lock' = "none" /\ raced' = raced \cup Overtakes
    /\ IF err[t] = "error"
       THEN pc' = [pc EXCEPT ![t] = "invalid"] /\ UNCHANGED <<file, err, event>>
       ELSE Leave(t)
    /\ UNCHANGED <<thru, aborted, graph, queue, plays, window, user, bad>>

(* SetCurValid(false) redraws the playlist.                                *)
SetCurInvalid(t) ==
    /\ pc[t] = "invalid" /\ (t = "window" \/ PumpsMessages) /\ Leave(t)
    /\ UNCHANGED <<shared, queue, plays, window, user, bad, raced>>

(* The graph thread's message loop.                                        *)
Dispatch ==
    /\ pc["graph"] = "none" /\ queue # <<>> /\ queue' = Tail(queue)
    /\ pc' = [pc EXCEPT !["graph"] = IF Head(queue) = NoFile THEN "close" ELSE "open"]
    /\ file' = [file EXCEPT !["graph"] = Head(queue)]
    /\ UNCHANGED <<shared, plays, event, window, err, user, bad, raced>>

Thread(t) ==
    \/ EnterOpen(t) \/ RefuseOpen(t) \/ GoOn(t) \/ AbortOpen(t) \/ CreateGraph(t)
    \/ FailOpen(t) \/ ShowOnOsd(t) \/ Loaded(t) \/ FinishOpen(t) \/ FinishTimesOut(t)
    \/ Report(t) \/ EnterClose(t) \/ ReleaseGraph(t) \/ Close(t) \/ SetCurInvalid(t)

------------------------------------------------------------------------------
(* The window's thread.                                                    *)
Window(at, then) == wpc = at /\ wpc' = then

OpenMedia(f) ==
    /\ Window("idle", IF state = "closed" THEN "load" ELSE "closeMedia")
    /\ wop' = "open" /\ request' = f

UserOpens ==
    /\ last + 1 \in Files /\ OpenMedia(last + 1)
    /\ last' = last + 1 /\ wanted' = "open"
    /\ UNCHANGED <<shared, mail, inside, closes, bad, raced>>

UserCloses ==
    /\ closes < MaxCloses /\ Window("idle", "closeMedia") /\ wop' = "close"
    /\ closes' = closes + 1 /\ wanted' = "close"
    /\ UNCHANGED <<shared, mail, request, inside, last, bad, raced>>

OnDestroy ==
    /\ Window("idle", "closeMedia") /\ wop' = "exit" /\ wanted' = "close"
    /\ UNCHANGED <<shared, mail, request, inside, last, closes, bad, raced>>

(* OnPlayPlay: with nothing open it opens the playlist's current item.     *)
OnPlayPlay ==
    /\ wpc = "idle" /\ plays > 0 /\ plays' = plays - 1
    /\ IF state = "closed" /\ last # NoFile
       THEN OpenMedia(last) /\ raced' = raced \cup {"replayed"}
       ELSE UNCHANGED <<window, raced>>
    /\ UNCHANGED <<shared, queue, event, inside, user, bad>>

(* CloseMedia: where it goes on afterwards is up to its caller.            *)
AfterClose == CASE wop = "open" -> "load" [] wop = "close" -> "idle" [] wop = "exit" -> "exit"

NothingToClose ==
    /\ Window("closeMedia", AfterClose) /\ state \in {"closing", "closed"}
    /\ UNCHANGED <<shared, mail, wop, request, inside, user, bad, raced>>

StartClosing ==
    /\ Window("closeMedia", "aborting") /\ state \notin {"closing", "closed"}
    /\ UNCHANGED <<shared, mail, wop, request, inside, user, bad, raced>>

AbortOpening ==
    /\ Window("aborting", "aborting") /\ state = "loading" /\ ~aborted /\ aborted' = TRUE
    /\ UNCHANGED <<state, thru, graph, lock, mail, wop, request, inside, user, bad, raced>>

StopAbortingStill ==
    /\ Window("aborting", "closing") /\ (state # "loading" \/ aborted)
    /\ UNCHANGED <<shared, mail, wop, request, inside, user, bad, raced>>
StopAborting ==                    \* it is over, or three seconds are
    /\ Window("aborting", "closing") /\ (state # "loading" \/ aborted)
    /\ aborted' = FALSE
    /\ UNCHANGED <<state, thru, graph, lock, mail, wop, request, inside, user, bad, raced>>

SetClosing ==
    /\ Window("closing", "closeGraph") /\ state' = "closing"
    /\ UNCHANGED <<aborted, thru, graph, lock, mail, wop, request, inside, user, bad, raced>>

PostCloseUnreset ==                \* the event of the last call is used again
    /\ Window("closeGraph", "waitClose") /\ thru
    /\ queue' = Append(queue, NoFile)
    /\ UNCHANGED <<shared, plays, event, wop, request, inside, user, bad, raced>>
PostClose ==
    /\ Window("closeGraph", "waitClose") /\ thru
    /\ queue' = Append(queue, NoFile) /\ event' = FALSE
    /\ UNCHANGED <<shared, plays, wop, request, inside, user, bad, raced>>

CloseDirectly ==
    /\ Window("closeGraph", "inClose") /\ ~thru
    /\ pc' = [pc EXCEPT !["window"] = "close"]
    /\ UNCHANGED <<shared, mail, wop, request, file, err, user, bad, raced>>

Closed ==
    /\ \/ Window("waitClose", AfterClose) /\ event
       \/ Window("inClose", AfterClose) /\ pc["window"] = "none"
    /\ UNCHANGED <<shared, mail, wop, request, inside, user, bad, raced>>

(* TerminateThread, and a new graph thread: the old one's messages are     *)
(* gone, and what it held it holds for ever.                               *)
Terminate(at, then) ==
    /\ Window(at, then) /\ ~event
    /\ lock' = IF lock = "graph" THEN "dead" ELSE lock
    /\ pc' = [pc EXCEPT !["graph"] = "none"] /\ file' = [file EXCEPT !["graph"] = NoFile]
    /\ err' = [err EXCEPT !["graph"] = "none"]
    /\ queue' = <<>> /\ raced' = raced \cup {"killed"}
    /\ UNCHANGED <<state, aborted, graph, plays, event, wop, request, user, bad>>

CloseEndlessly == FALSE /\ Terminate("waitClose", AfterClose) /\ thru' = FALSE
CloseTimesOut == Terminate("waitClose", AfterClose) /\ thru' = FALSE

SetLoading ==
    /\ Window("load", "start") /\ state' = "loading"
    /\ UNCHANGED <<aborted, thru, graph, lock, mail, wop, request, inside, user, bad, raced>>

PostOpenUnmarked ==                \* m_fOpenedThruThread is left as it was
    /\ Window("start", "idle") /\ request \notin Inline
    /\ queue' = Append(queue, request)
    /\ UNCHANGED <<shared, plays, event, wop, request, inside, user, bad, raced>>
PostOpen ==
    /\ Window("start", "idle") /\ request \notin Inline
    /\ thru' = TRUE /\ queue' = Append(queue, request)
    /\ UNCHANGED <<state, aborted, graph, lock, plays, event, wop, request, inside, user, bad,
                   raced>>

OpenDirectly ==
    /\ Window("start", "inOpen") /\ request \in Inline /\ thru' = FALSE
    /\ pc' = [pc EXCEPT !["window"] = "open"]
    /\ file' = [file EXCEPT !["window"] = request]
    /\ UNCHANGED <<state, aborted, graph, lock, mail, wop, request, err, user, bad, raced>>

OpenReturns ==
    /\ Window("inOpen", "idle") /\ pc["window"] = "none"
    /\ UNCHANGED <<shared, mail, wop, request, inside, user, bad, raced>>

PostExit ==
    /\ Window("exit", "waitExit") /\ queue' = Append(queue, NoFile) /\ event' = FALSE
    /\ UNCHANGED <<shared, plays, wop, request, inside, user, bad, raced>>

Exited ==
    /\ Window("waitExit", "gone") /\ event
    /\ UNCHANGED <<shared, mail, wop, request, inside, user, bad, raced>>

ExitTimesOut == Terminate("waitExit", "gone") /\ UNCHANGED thru

WindowThread ==
    \/ NothingToClose \/ StartClosing \/ AbortOpening \/ StopAborting \/ SetClosing
    \/ PostClose \/ CloseDirectly \/ Closed \/ CloseTimesOut
    \/ SetLoading \/ PostOpen \/ OpenDirectly \/ OpenReturns \/ OnPlayPlay
    \/ PostExit \/ Exited \/ ExitTimesOut

Next == \/ UserOpens \/ UserCloses \/ OnDestroy \/ WindowThread \/ Dispatch
        \/ \E t \in Threads : Thread(t)

(* Both threads go on; the user need not do anything.                      *)
Spec == /\ Init /\ [][Next]_vars
        /\ WF_vars(WindowThread) /\ WF_vars(Dispatch \/ Thread("graph"))
        /\ WF_vars(Thread("window"))

------------------------------------------------------------------------------
(* Each variable has values of its kind.                                   *)
Messages == Files \cup {NoFile}
TypeOK ==
    /\ state \in {"closed", "loading", "loaded", "closing"}
    /\ aborted \in BOOLEAN /\ thru \in BOOLEAN /\ event \in BOOLEAN
    /\ graph \in Messages /\ lock \in Threads \cup {"none", "dead"}
    /\ queue \in Seq(Messages) /\ plays \in Nat
    /\ wpc \in {"idle", "closeMedia", "aborting", "closing", "closeGraph", "waitClose",
               "inClose", "load", "start", "inOpen", "exit", "waitExit", "gone"}
    /\ wop \in {"open", "close", "exit"} /\ request \in Messages
    /\ pc \in [Threads -> {"none", "open", "begin", "create", "created", "show", "shown",
                           "load", "loaded", "report", "close", "release", "closed", "invalid"}]
    /\ file \in [Threads -> Messages] /\ err \in [Threads -> {"none", "aborted", "error"}]
    /\ last \in Messages /\ closes \in Nat /\ wanted \in {"open", "close"}
    /\ bad \subseteq Messages /\ raced \subseteq {"overtaken", "replayed", "killed"}

(* The assertion of OpenCreateGraphObject: nothing is left of the media    *)
(* that was open before.                                                   *)
NoGraphLeft == \A t \in Threads : pc[t] = "create" => graph = NoFile

(* It holds of every opening as long as no graph thread was terminated and *)
(* the error path of a file did not overwrite the state of a later one:    *)
(* only then can a graph be replaced that still plays.                     *)
Undisturbed == raced \cap {"killed", "overtaken"} = {}
NoGraphReplaced == Undisturbed => NoGraphLeft

(* When CloseMedia has closed something and returns in time the media is   *)
(* closed and its graph released, whichever thread did it and however far  *)
(* an opening had come that it interrupted.                                *)
ClosedIsReleased == [][Closed /\ Undisturbed => state = "closed" /\ graph = NoFile]_vars

(* When all is quiet the player is as its user last asked: closed, or with *)
(* the file he opened last, unless that could not be opened.  Aborted      *)
(* openings, openings that were too far to abort and repeated requests     *)
(* leave nothing behind.  Three races do: the two above, and ID_PLAY_PLAY  *)
(* of an opening that arrives when it has been closed again.               *)
Quiet == /\ wpc = "gone" \/ (wpc = "idle" /\ plays = 0)
         /\ queue = <<>>
         /\ \A t \in Threads : pc[t] = "none"
AsWanted ==
    Quiet /\ raced = {} =>
        \/ wanted = "close" /\ state = "closed" /\ graph = NoFile
        \/ wanted = "open" /\ state = "loaded" /\ graph = last
        \/ wanted = "open" /\ state = "closed" /\ graph = NoFile /\ last \in bad

(* The two never wait for each other: the window for m_csOpenClose, the    *)
(* graph thread that holds it for the window to take a message.  An error  *)
(* path that overtook the next opening lets a third one start while the    *)
(* second is under way, and then they do.                                  *)
Embrace == /\ lock = "graph" /\ pc["graph"] = "show"
           /\ pc["window"] \in {"open", "close"} /\ ~PumpsMessages
NoEmbrace == "overtaken" \notin raced => ~Embrace

(* Whatever is asked comes to an end, even if the threads wait for one     *)
(* another: the window for an opening or for its message, the graph thread *)
(* for the window to take one.  Not so once a thread was terminated that   *)
(* held m_csOpenClose, or in the embrace.                                  *)
Hung == lock = "dead" \/ Embrace
Settles == []<>(Quiet \/ Hung)

(* The window answers again after every operation, also when the graph     *)
(* thread never does; a file that is opened without the thread is the one  *)
(* thing that can then hang it.                                            *)
WindowReturns == []<>(PumpsMessages \/ (Hung /\ wpc \in {"inOpen", "inClose"}))
==============================================================================
