--------------------------- MODULE RootLifecycle ---------------------------
(***************************************************************************)
(* The life of the shared root and of its UI thread.  Every COM object of  *)
(* the add-on (BHO, helperbar) calls InitRoot in its constructor and       *)
(* DoneRoot in its destructor; the first and the last one start and stop   *)
(* the UI thread of CWindowManager, within gRootCS, waiting for it with a  *)
(* time limit.  Before that the last one has the UI thread destroy the     *)
(* script sites that the debugger still has, by synchronous messages       *)
(* without a limit.  The UI thread runs meanwhile, at its own speed.       *)
(*                                                                         *)
(* Roots are numbered: each has a window manager and a UI thread of its    *)
(* own.  Thread and manager refer to each other by pointers nobody checks. *)
(***************************************************************************)
EXTENDS Naturals, FiniteSets

CONSTANTS
    Objects,    \* COM objects that come and go, one browser thread each
    NoObject,   \* gRootCS is free
    MaxRoots,   \* bound: roots made in the life of the process
    MaxPolls,   \* 100 in the code: turns of the wait of RunUIThread
    MaxSites    \* bound: script sites the debugger has at the end

ASSUME ObjectsAssumption == NoObject \notin Objects
ASSUME BoundsAssumption == MaxRoots \in Nat /\ MaxPolls \in Nat /\ MaxSites \in Nat

Roots == 1 .. MaxRoots

VARIABLES
    giRootInitRefcount,
    gpUpgradrRoot,  \* root the pointer refers to, deleted or not, or 0: NULL
    alive,          \* roots that are not deleted
    objects,        \* objects whose constructor has returned
    inRoot,         \* object inside gRootCS
    phase,          \* what it waits for there
    iCounter,       \* turns of the wait in RunUIThread
    sitesLeft,      \* script site infos CleanScriptSiteInfos has yet to delete
    m_Inited,       \* root -> CWindowManager::m_Inited
    m_UIThread,     \* root -> has m_UIThread # NULL
    m_Ready,        \* root -> CWindowManager::m_Ready
    m_MessageWindow,\* root -> has a window
    uiThread,       \* root -> where its UI thread is
    quit,           \* roots whose UI thread has WM_QUIT in its queue
    gUIThreadHWND   \* root whose window it is, or 0: NULL; one for all roots

root == <<giRootInitRefcount, gpUpgradrRoot, alive, objects, inRoot>>
manager == <<m_Inited, m_UIThread>>
thread == <<m_Ready, m_MessageWindow, uiThread, quit, gUIThreadHWND>>
wait == <<phase, iCounter, sitesLeft>>
vars == <<root, wait, manager, thread>>

Phases == {"none", "waits for ready", "cleans sites", "joins", "failed"}
Places == {"none", "started", "window", "loop", "cleanup", "not ready", "gone"}

Init ==
    /\ giRootInitRefcount = 0
    /\ gpUpgradrRoot = 0
    /\ alive = {}
    /\ objects = {}
    /\ inRoot = NoObject
    /\ phase = "none"
    /\ iCounter = 0
    /\ sitesLeft = 0
    /\ m_Inited = [r \in Roots |-> FALSE]
    /\ m_UIThread = [r \in Roots |-> FALSE]
    /\ m_Ready = [r \in Roots |-> FALSE]
    /\ m_MessageWindow = [r \in Roots |-> FALSE]
    /\ uiThread = [r \in Roots |-> "none"]
    /\ quit = {}
    /\ gUIThreadHWND = 0

----------------------------------------------------------------------------
\* InitRoot, in the constructors.

MadeRoots == Cardinality({r \in Roots : uiThread[r] # "none"})

\* The first object makes a root, whose Init runs the UI thread and waits.
InitFirst(o) ==
    /\ inRoot = NoObject /\ o \notin objects
    /\ giRootInitRefcount = 0
    /\ MadeRoots < MaxRoots
    /\ gpUpgradrRoot' = MadeRoots + 1
    /\ alive' = alive \cup {gpUpgradrRoot'}
    /\ inRoot' = o
    /\ phase' = "waits for ready"
    /\ iCounter' = 0
    /\ m_UIThread' = [m_UIThread EXCEPT ![gpUpgradrRoot'] = TRUE]
    /\ uiThread' = [uiThread EXCEPT ![gpUpgradrRoot'] = "started"]
    /\ UNCHANGED <<giRootInitRefcount, objects, sitesLeft, m_Inited, m_Ready,
                   m_MessageWindow, quit, gUIThreadHWND>>

InitMore(o) ==
    /\ inRoot = NoObject /\ o \notin objects
    /\ giRootInitRefcount > 0
    /\ giRootInitRefcount' = giRootInitRefcount + 1
    /\ objects' = objects \cup {o}
    /\ UNCHANGED <<gpUpgradrRoot, alive, inRoot, wait, manager, thread>>

\* The end of InitRoot.
LeaveInitRoot ==
    /\ giRootInitRefcount' = giRootInitRefcount + 1
    /\ objects' = objects \cup {inRoot}
    /\ inRoot' = NoObject
    /\ phase' = "none"
    /\ UNCHANGED <<gpUpgradrRoot, alive, iCounter, sitesLeft>>

\* RunUIThread returns true, and Init of the manager with it.
SeesReady ==
    /\ phase = "waits for ready" /\ iCounter < MaxPolls
    /\ m_Ready[gpUpgradrRoot]
    /\ m_Inited' = [m_Inited EXCEPT ![gpUpgradrRoot] = TRUE]
    /\ LeaveInitRoot
    /\ UNCHANGED <<m_UIThread, thread>>

\* Mutant: one turn too many.
Polls_OneMore ==
    /\ phase = "waits for ready" /\ iCounter <= MaxPolls
    /\ ~m_Ready[gpUpgradrRoot]
    /\ iCounter' = iCounter + 1
    /\ UNCHANGED <<root, phase, sitesLeft, manager, thread>>

\* Mutant: the turns are not counted.
Polls_Forever ==
    /\ phase = "waits for ready" /\ iCounter < MaxPolls
    /\ ~m_Ready[gpUpgradrRoot]
    /\ UNCHANGED vars

Polls ==
    /\ phase = "waits for ready" /\ iCounter < MaxPolls
    /\ ~m_Ready[gpUpgradrRoot]
    /\ iCounter' = iCounter + 1
    /\ UNCHANGED <<root, phase, sitesLeft, manager, thread>>

\* Mutant: a thread that is late counts as a success.
TimesOut_Inited ==
    /\ phase = "waits for ready" /\ iCounter = MaxPolls
    /\ m_Inited' = [m_Inited EXCEPT ![gpUpgradrRoot] = TRUE]
    /\ LeaveInitRoot
    /\ UNCHANGED <<m_UIThread, thread>>

\* ... or false: m_UIThread stays, the manager is not inited, InitRoot goes on.
TimesOut ==
    /\ phase = "waits for ready" /\ iCounter = MaxPolls
    /\ LeaveInitRoot
    /\ UNCHANGED <<manager, thread>>

\* Init of the manager of r, which windowManager-> calls each time, fails: RunUIThread
\* says "already running" and returns false.  It changes nothing.
InitFails(r) == ~m_Inited[r] /\ m_UIThread[r]

----------------------------------------------------------------------------
\* DoneRoot, in the destructors.

Leaves(o) == inRoot = NoObject /\ o \in objects

\* Mutant: the last object does not take its reference back.
DoneMore_Kept(o) ==
    /\ Leaves(o)
    /\ giRootInitRefcount > 1
    /\ objects' = objects \ {o}
    /\ UNCHANGED <<giRootInitRefcount, gpUpgradrRoot, alive, inRoot, wait, manager, thread>>

DoneMore(o) ==
    /\ Leaves(o)
    /\ giRootInitRefcount > 1
    /\ giRootInitRefcount' = giRootInitRefcount - 1
    /\ objects' = objects \ {o}
    /\ UNCHANGED <<gpUpgradrRoot, alive, inRoot, wait, manager, thread>>

\* The last object: CUpgradrRootImpl::Done begins with the debugger, which deletes the
\* script sites it still has.
DoneLast(o) ==
    /\ Leaves(o)
    /\ giRootInitRefcount = 1
    /\ giRootInitRefcount' = 0
    /\ objects' = objects \ {o}
    /\ inRoot' = o
    /\ phase' = "cleans sites"
    /\ sitesLeft' \in 0 .. MaxSites
    /\ UNCHANGED <<gpUpgradrRoot, alive, iCounter, manager, thread>>

\* SendMessage needs a window: without one it returns 0 at once, which is S_OK.
NoWindow == gUIThreadHWND # 0 => uiThread[gUIThreadHWND] = "gone"

SendsToNoWindow ==
    /\ phase = "cleans sites" /\ sitesLeft > 0
    /\ NoWindow
    /\ sitesLeft' = sitesLeft - 1
    /\ UNCHANGED <<root, phase, iCounter, manager, thread>>

\* With the sites gone, Done of the manager posts WM_QUIT and joins the UI thread.
SitesCleaned ==
    /\ phase = "cleans sites" /\ sitesLeft = 0
    /\ m_Inited[gpUpgradrRoot]
    /\ phase' = "joins"
    /\ quit' = quit \cup {gpUpgradrRoot}
    /\ UNCHANGED <<root, iCounter, sitesLeft, manager, m_Ready, m_MessageWindow, uiThread,
                   gUIThreadHWND>>

\* Done of a manager that was not inited does nothing; the root is deleted.
DoneUninited ==
    /\ phase = "cleans sites" /\ sitesLeft = 0
    /\ ~m_Inited[gpUpgradrRoot]
    /\ alive' = alive \ {gpUpgradrRoot}
    /\ inRoot' = NoObject
    /\ phase' = "none"
    /\ UNCHANGED <<giRootInitRefcount, gpUpgradrRoot, objects, iCounter, sitesLeft, manager,
                   thread>>

\* The rest of KillUIThread, and "delete gpUpgradrRoot": the pointer stays.
Killed ==
    /\ m_UIThread' = [m_UIThread EXCEPT ![gpUpgradrRoot] = FALSE]
    /\ m_Ready' = [m_Ready EXCEPT ![gpUpgradrRoot] = FALSE]
    /\ alive' = alive \ {gpUpgradrRoot}
    /\ inRoot' = NoObject
    /\ phase' = "none"
    /\ UNCHANGED <<giRootInitRefcount, gpUpgradrRoot, objects, iCounter, sitesLeft, m_Inited,
                   m_MessageWindow, quit, gUIThreadHWND>>

Joined ==
    /\ phase = "joins"
    /\ uiThread[gpUpgradrRoot] = "gone"
    /\ Killed
    /\ UNCHANGED uiThread

\* Mutant: Join times out and the thread is left alone.
JoinTimesOut_NoTerminate ==
    /\ phase = "joins"
    /\ uiThread[gpUpgradrRoot] # "gone"
    /\ Killed
    /\ UNCHANGED uiThread

\* "the thread didn't respond to WM_QUIT": TerminateThread, wherever it is.
JoinTimesOut ==
    /\ phase = "joins"
    /\ uiThread[gpUpgradrRoot] # "gone"
    /\ uiThread' = [uiThread EXCEPT ![gpUpgradrRoot] = "gone"]
    /\ Killed

----------------------------------------------------------------------------
\* CUIThread::Run of root r.

Moves(r, from, to) == uiThread[r] = from /\ uiThread' = [uiThread EXCEPT ![r] = to]

CreateMessageWindow(r) ==
    /\ Moves(r, "started", "window")
    /\ m_MessageWindow' = [m_MessageWindow EXCEPT ![r] = TRUE]
    /\ gUIThreadHWND' = r
    /\ UNCHANGED <<root, wait, manager, m_Ready, quit>>

SetReadyState(r) ==
    /\ Moves(r, "window", "loop")
    /\ m_Ready' = [m_Ready EXCEPT ![r] = TRUE]
    /\ UNCHANGED <<root, wait, manager, m_MessageWindow, quit, gUIThreadHWND>>

\* The handler of a WMM_DONESCRIPTSITE, up to its reply.  It waits without limit for the
\* engine to report SCRIPTSTATE_CLOSED, so it may never come to it.
Answers(r) ==
    /\ phase = "cleans sites" /\ sitesLeft > 0
    /\ gUIThreadHWND = r /\ uiThread[r] = "loop"

DoneScriptSite(r) ==
    /\ Answers(r)
    /\ sitesLeft' = sitesLeft - 1
    /\ UNCHANGED <<root, phase, iCounter, manager, thread>>

\* ... or it replies with an error.  CHECK throws in the destructor of the site info, and
\* nobody leaves gRootCS any more.
DoneScriptSiteFails(r) ==
    /\ Answers(r)
    /\ phase' = "failed"
    /\ UNCHANGED <<root, iCounter, sitesLeft, manager, thread>>

\* The message loop ends on WM_QUIT.
QuitLoop(r) ==
    /\ Moves(r, "loop", "cleanup")
    /\ r \in quit
    /\ quit' = quit \ {r}
    /\ UNCHANGED <<root, wait, manager, m_Ready, m_MessageWindow, gUIThreadHWND>>

\* CleanupThread
ResetReadyState(r) ==
    /\ Moves(r, "cleanup", "not ready")
    /\ m_Ready' = [m_Ready EXCEPT ![r] = FALSE]
    /\ UNCHANGED <<root, wait, manager, m_MessageWindow, quit, gUIThreadHWND>>

DestroyMessageWindow(r) ==
    /\ Moves(r, "not ready", "gone")
    /\ m_MessageWindow' = [m_MessageWindow EXCEPT ![r] = FALSE]
    /\ gUIThreadHWND' = 0
    /\ UNCHANGED <<root, wait, manager, m_Ready, quit>>

----------------------------------------------------------------------------
UIThreadStep(r) ==
    \/ CreateMessageWindow(r) \/ SetReadyState(r)
    \/ DoneScriptSite(r) \/ DoneScriptSiteFails(r) \/ QuitLoop(r)
    \/ ResetReadyState(r) \/ DestroyMessageWindow(r)

\* What the object inside gRootCS does next, unless it waits for a reply.
RootStep ==
    \/ SeesReady \/ Polls \/ TimesOut
    \/ SendsToNoWindow \/ SitesCleaned \/ DoneUninited
    \/ Joined \/ JoinTimesOut

ObjectStep(o) == InitFirst(o) \/ InitMore(o) \/ DoneMore(o) \/ DoneLast(o)

Next ==
    \/ \E o \in Objects : ObjectStep(o)
    \/ RootStep
    \/ \E r \in Roots : UIThreadStep(r)

\* The object inside gRootCS is scheduled; nothing is assumed of the UI thread.
Spec == Init /\ [][Next]_vars /\ WF_vars(RootStep)

----------------------------------------------------------------------------
TypeOK ==
    /\ giRootInitRefcount \in Nat
    /\ gpUpgradrRoot \in 0 .. MaxRoots
    /\ alive \subseteq Roots
    /\ objects \subseteq Objects
    /\ inRoot \in Objects \cup {NoObject}
    /\ phase \in Phases
    /\ iCounter \in 0 .. MaxPolls
    /\ sitesLeft \in 0 .. MaxSites
    /\ m_Inited \in [Roots -> BOOLEAN]
    /\ m_UIThread \in [Roots -> BOOLEAN]
    /\ m_Ready \in [Roots -> BOOLEAN]
    /\ m_MessageWindow \in [Roots -> BOOLEAN]
    /\ uiThread \in [Roots -> Places]
    /\ quit \subseteq Roots
    /\ gUIThreadHWND \in 0 .. MaxRoots

Runs(r) == uiThread[r] \notin {"none", "gone"}

\* Every object between its constructor and its destructor finds a root that is
\* not deleted behind gpUpgradrRoot, and the last one leaves none: the reference
\* count is the number of those objects (GetRoot, Module.cpp:107).
RootLivesWithObjects ==
    inRoot = NoObject =>
        /\ giRootInitRefcount = Cardinality(objects)
        /\ alive = IF objects = {} THEN {} ELSE {gpUpgradrRoot}

\* A manager that says it is inited has a message window to send to, and a UI
\* thread in its message loop behind it, as long as nobody stops it
\* (GetMessageWindowHWND, WindowManager.cpp:441).
InitedMeansServed ==
    \A r \in alive : m_Inited[r] /\ phase # "joins" =>
        m_MessageWindow[r] /\ uiThread[r] = "loop"

\* The UI thread uses its manager by a pointer, so it must not outlive it: it
\* does not, whether Join ends in time or not, if it was ready in time at the
\* start (KillUIThread, WindowManager.cpp:148-169).
ManagerOutlivesThread ==
    \A r \in Roots : Runs(r) /\ m_Inited[r] => r \in alive

\* The object inside gRootCS has sent a site to a UI thread that has a window.
AwaitsReply ==
    phase = "cleans sites" /\ sitesLeft > 0 /\ ~NoWindow

\* Whoever stays in gRootCS for ever waits for a UI thread to finish a script site, or an
\* error of that thread has thrown it out of DoneRoot: the waits for the start and the end
\* of the thread have a limit, and a window that is gone answers at once
\* (WindowManager.cpp:136, 158, ScriptDebugger.cpp:57).
OnlySitesHoldRoot ==
    <>[](inRoot # NoObject) => <>[](AwaitsReply \/ phase = "failed")

\* Init does not fail with "Cannot run UI thread !" (WindowManager.cpp:178) when
\* that thread is there, "already running" (WindowManager.cpp:127), and ready.
RunningThreadIsInited ==
    \A r \in alive : inRoot = NoObject /\ m_Ready[r] => ~InitFails(r)

=============================================================================
