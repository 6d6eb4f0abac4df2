---------------------------- MODULE LockClients ----------------------------
(***************************************************************************)
(* The threads of the add-on as clients of the lock manager: what the      *)
(* browser threads (one per tab) and the UI thread lock, in which order,   *)
(* and what else they wait for: the critical section of CWindowManager     *)
(* (m_CS) and the synchronous messages a tab sends to the UI thread.       *)
(*                                                                         *)
(* A handler is the sequence of the steps at which it can block or is seen *)
(* by another thread; the steps of different threads interleave.  Locks    *)
(* held around nothing that blocks (HandleManager, FrameManager, Database) *)
(* are left out, and so is an entry of m_CS nested in the same method.     *)
(***************************************************************************)
EXTENDS SharedResources, Sequences

CONSTANT UIThread

ASSUME UIThreadAssumption == UIThread \in Threads

Tabs == Threads \ {UIThread}

\* ESharedResourceId
SR_SCRIPTMANAGER == 1
SR_SCRIPTINSTANCEMANAGER == 3
SR_WINDOWMANAGER == 5
SR_BROWSERMANAGER == 6
SR_SCRIPTDEBUGGER == 8
SR_LOGGER == 12

ASSUME ResourceIdsAssumption == SR_LOGGER < SR_LAST

VARIABLES
    todo,       \* thread -> the steps left of the handler it is in
    section,    \* thread inside CWindowManager::m_CS, and how deep
    message,    \* tab -> the message it waits for in SendMessage
    serving,    \* tab whose message the UI thread handles
    sited,      \* tabs whose BHO has a site
    windows,    \* tab, family -> windows of that browser in m_WindowsMap
    sites       \* CScriptSiteInfo objects made for the script

locks == vars
traffic == <<todo, section, message, serving, sited, windows, sites>>
allVars == <<locks, traffic>>

Families == {"EWF_DOMEXPLORER", "EWF_CONSOLE", "EWF_GENERAL"}

\* The messages that a tab sends inside a handler.  WMM_DONESCRIPTSITE is sent by DoneRoot
\* alone, when no object is left to have a handler; it is in RootLifecycle.
Messages == Families \cup {"WMM_INITSCRIPTSITE"}
NoMessage == "none"

----------------------------------------------------------------------------
\* Steps.

Take(r) == [do |-> "take", rid |-> r]
Drop(r) == [do |-> "drop", rid |-> r]
Suspend(r) == [do |-> "suspend", rid |-> r]
Resume(r) == [do |-> "resume", rid |-> r]
Enter == [do |-> "enter"]
Leave == [do |-> "leave"]
Send(m) == [do |-> "send", message |-> m]
Lookup(f) == [do |-> "lookup", family |-> f]
Insert(f) == [do |-> "insert", family |-> f]
RemoveAll == [do |-> "remove"]
FindSite == [do |-> "find site"]
AddSite == [do |-> "add site"]

Under(r, steps) == <<Take(r)>> \o steps \o <<Drop(r)>>
InSection(steps) == <<Enter>> \o steps \o <<Leave>>
OutsideOf(r, steps) == <<Suspend(r)>> \o steps \o <<Resume(r)>>

----------------------------------------------------------------------------
\* Handlers of the browser threads.

\* CUpgradrBHO::RefreshDOMExplorer, CWindowManager::RefreshDOMExplorerWindow
RefreshDOMExplorer == Under(SR_WINDOWMANAGER, InSection(<<>>))

\* CUpgradrBHO::SetSite(pUnkSite)
SetSite == Under(SR_BROWSERMANAGER, <<>>)

\* CUpgradrBHO::SetSite(NULL): the windowManager guard lives to the end.
ClearSite ==
    Under(SR_WINDOWMANAGER,
          InSection(<<RemoveAll>>) \o Under(SR_BROWSERMANAGER, <<>>))

\* Mutant: the message is sent while the manager is locked.
CreateWindow_Locked(f) == InSection(<<>>) \o <<Send(f)>>

\* Mutant: the manager is given up and not taken back.
CreateWindow_NotRelocked(f) == InSection(<<>>) \o <<Suspend(SR_WINDOWMANAGER), Send(f)>>

\* Create*Window: GetMessageWindowHWND, then SendMessage outside of the lock.
CreateWindow(f) == InSection(<<>>) \o OutsideOf(SR_WINDOWMANAGER, <<Send(f)>>)

\* CWorkspaceWindow::InitializeDefaultPanes: Get*Window, Create*Window if none.
GetWindow(f) == <<Enter, Lookup(f)>>
InitializeDefaultPanes ==
    Under(SR_WINDOWMANAGER,
          GetWindow("EWF_DOMEXPLORER") \o GetWindow("EWF_CONSOLE")
              \o GetWindow("EWF_GENERAL"))

\* CUpgradrShell::Log, called by a script
Log ==
    Under(SR_SCRIPTINSTANCEMANAGER, <<>>) \o Under(SR_SCRIPTMANAGER, <<>>)
        \o Under(SR_LOGGER, <<>>) \o Under(SR_WINDOWMANAGER, InSection(<<>>))

\* Mutant: the debugger is locked while the UI thread makes the site.
CreateSite_Locked == <<Send("WMM_INITSCRIPTSITE"), AddSite>>

\* CScriptSiteInfo::CScriptSiteInfo, then its insertion by RegisterScriptInstance
CreateSite ==
    OutsideOf(SR_SCRIPTDEBUGGER, <<Send("WMM_INITSCRIPTSITE")>>) \o <<AddSite>>

\* Run (ApplyBreakpoints, then the script, which may log), RegisterScriptInstance
InjectScript(script) ==
    Under(SR_SCRIPTDEBUGGER, <<>>) \o script \o Under(SR_SCRIPTDEBUGGER, <<FindSite>>)

\* Mutant: the script manager is not locked around the loop.
InjectScripts_Unlocked(script) == InjectScript(script)

\* InjectSystemScripts, InjectUserScripts: the lock spans the whole loop.
InjectScripts(script) == Under(SR_SCRIPTMANAGER, InjectScript(script))

\* RemoveUserScripts, RemoveScript: Done of the site, then UnregisterScriptInstance
RemoveScripts ==
    Under(SR_SCRIPTMANAGER,
          Under(SR_SCRIPTINSTANCEMANAGER, Under(SR_SCRIPTDEBUGGER, <<>>))
              \o Under(SR_SCRIPTDEBUGGER, <<>>))

\* Handlers of the UI thread.

\* CDOMExplorerWindow::RequestDOM, CBrowserManager::RequestDOM
RequestDOM == Under(SR_BROWSERMANAGER, RefreshDOMExplorer)

\* Create*WindowUI, InitScriptSite (CreateCommonDebugHelper)
UIThreadProc(m) ==
    CASE m = "EWF_DOMEXPLORER" -> InSection(<<Insert(m)>> \o RequestDOM)
      [] m \in {"EWF_CONSOLE", "EWF_GENERAL"} -> InSection(<<Insert(m)>>)
      [] m = "WMM_INITSCRIPTSITE" -> Under(SR_SCRIPTDEBUGGER, <<>>)

----------------------------------------------------------------------------
LInit ==
    /\ Init
    /\ todo = [t \in Threads |-> <<>>]
    /\ section = Unowned
    /\ message = [t \in Threads |-> NoMessage]
    /\ serving = NoThread
    /\ sited = {}
    /\ windows = [t \in Tabs |-> [f \in Families |-> 0]]
    /\ sites = 0

\* The thread runs: it is not inside Acquire and waits for no reply.
Ready(t) == Idle(t) /\ message[t] = NoMessage
Doing(t, do) == Ready(t) /\ todo[t] # <<>> /\ Head(todo[t]).do = do
DoingWith(t, do, r) == Doing(t, do) /\ Head(todo[t]).rid = r
Advance(t) == todo' = [todo EXCEPT ![t] = Tail(@)]
AtRest(t) == Ready(t) /\ todo[t] = <<>>

\* IE or a page calls into the add-on on the thread of tab t.
Begin(t, steps) ==
    /\ AtRest(t)
    /\ todo' = [todo EXCEPT ![t] = steps]
    /\ UNCHANGED <<locks, section, message, serving, windows, sites>>

OnSetSite(t) == t \notin sited /\ sited' = sited \cup {t} /\ Begin(t, SetSite)
OnClearSite(t) == t \in sited /\ sited' = sited \ {t} /\ Begin(t, ClearSite)

OnEvent(t) ==
    /\ t \in sited
    /\ UNCHANGED sited
    /\ \E steps \in {InitializeDefaultPanes, RefreshDOMExplorer, Log, RemoveScripts,
                     InjectScripts(<<>>), InjectScripts(Log)} : Begin(t, steps)

\* The lock manager.
TakeStep(t) ==
    /\ \E r \in Resources : DoingWith(t, "take", r) /\ Lock(t, r)
    /\ Advance(t)
    /\ UNCHANGED <<section, message, serving, sited, windows, sites>>

DropStep(t) ==
    /\ \E r \in Resources :
          DoingWith(t, "drop", r) /\ (ReleaseNested(t, r) \/ ReleaseLast(t, r))
    /\ Advance(t)
    /\ UNCHANGED <<section, message, serving, sited, windows, sites>>

SuspendStep(t) ==
    /\ \E r \in Resources : DoingWith(t, "suspend", r) /\ ReleaseAll(t, r)
    /\ Advance(t)
    /\ UNCHANGED <<section, message, serving, sited, windows, sites>>

ResumeStep(t) ==
    /\ \E r \in Resources : DoingWith(t, "resume", r) /\ Relock(t, r)
    /\ Advance(t)
    /\ UNCHANGED <<section, message, serving, sited, windows, sites>>

InsideAcquire(t) == AcquireStep(t) /\ UNCHANGED traffic

\* Mutant: the section stays with the thread that left it.
LeaveSection_Kept == section' = [section EXCEPT !.count = @ - 1]

\* CSGUARD(m_CS)
LeaveSection ==
    section' = IF section.count = 1 THEN Unowned ELSE [section EXCEPT !.count = @ - 1]

EnterStep(t) ==
    /\ Doing(t, "enter")
    /\ section.thread \in {NoThread, t}
    /\ section' = [thread |-> t, count |-> section.count + 1]
    /\ Advance(t)
    /\ UNCHANGED <<locks, message, serving, sited, windows, sites>>

LeaveStep(t) ==
    /\ Doing(t, "leave")
    /\ LeaveSection
    /\ Advance(t)
    /\ UNCHANGED <<locks, message, serving, sited, windows, sites>>

\* Mutant: a window is created whether there is one or not.
LookupStep_Blind(t) ==
    /\ Doing(t, "lookup")
    /\ LeaveSection
    /\ todo' = [todo EXCEPT ![t] = CreateWindow(Head(@).family) \o Tail(@)]
    /\ UNCHANGED <<locks, message, serving, sited, windows, sites>>

\* Get*Window leaves m_CS; without a window the tab goes on to create one.
LookupStep(t) ==
    /\ Doing(t, "lookup")
    /\ LeaveSection
    /\ LET f == Head(todo[t]).family IN
          todo' = [todo EXCEPT ![t] =
                     (IF windows[t][f] = 0 THEN CreateWindow(f) ELSE <<>>) \o Tail(@)]
    /\ UNCHANGED <<locks, message, serving, sited, windows, sites>>

RemoveStep(t) ==
    /\ Doing(t, "remove")
    /\ windows' = [windows EXCEPT ![t] = [f \in Families |-> 0]]
    /\ Advance(t)
    /\ UNCHANGED <<locks, section, message, serving, sited, sites>>

\* RegisterScriptInstance looks for the site info of the script, and makes one.
FindSiteStep(t) ==
    /\ Doing(t, "find site")
    /\ todo' = [todo EXCEPT ![t] = (IF sites = 0 THEN CreateSite ELSE <<>>) \o Tail(@)]
    /\ UNCHANGED <<locks, section, message, serving, sited, windows, sites>>

AddSiteStep(t) ==
    /\ Doing(t, "add site")
    /\ sites' = sites + 1
    /\ Advance(t)
    /\ UNCHANGED <<locks, section, message, serving, sited, windows>>

\* SendMessage blocks the tab until the UI thread has handled the message.
SendStep(t) ==
    /\ Doing(t, "send")
    /\ message' = [message EXCEPT ![t] = Head(todo[t]).message]
    /\ Advance(t)
    /\ UNCHANGED <<locks, section, serving, sited, windows, sites>>

\* The UI thread takes a message when its handler of the last one has returned.
Receive ==
    /\ AtRest(UIThread) /\ serving = NoThread
    /\ \E t \in Tabs :
          /\ message[t] # NoMessage
          /\ serving' = t
          /\ todo' = [todo EXCEPT ![UIThread] = UIThreadProc(message[t])]
    /\ UNCHANGED <<locks, section, message, sited, windows, sites>>

InsertStep ==
    /\ Doing(UIThread, "insert")
    /\ windows' = [windows EXCEPT ![serving][Head(todo[UIThread]).family] = @ + 1]
    /\ Advance(UIThread)
    /\ UNCHANGED <<locks, section, message, serving, sited, sites>>

Reply ==
    /\ AtRest(UIThread) /\ serving # NoThread
    /\ message' = [message EXCEPT ![serving] = NoMessage]
    /\ serving' = NoThread
    /\ UNCHANGED <<locks, todo, section, sited, windows, sites>>

ThreadStep(t) ==
    \/ TakeStep(t) \/ DropStep(t) \/ SuspendStep(t) \/ ResumeStep(t)
    \/ InsideAcquire(t) \/ EnterStep(t) \/ LeaveStep(t)

TabStep(t) ==
    \/ OnSetSite(t) \/ OnClearSite(t) \/ OnEvent(t)
    \/ LookupStep(t) \/ RemoveStep(t) \/ FindSiteStep(t) \/ AddSiteStep(t)
    \/ SendStep(t)

LNext ==
    \/ \E t \in Threads : ThreadStep(t)
    \/ \E t \in Tabs : TabStep(t)
    \/ Receive \/ InsertStep \/ Reply

LSpec == LInit /\ [][LNext]_allVars

----------------------------------------------------------------------------
\* Waiting.

WaitsForThread(t, u) ==
    \/ \E r \in Resources : WaitsFor(t, r) /\ Owns(u, r)
    \/ Doing(t, "enter") /\ section.thread = u /\ u # t
    \/ message[t] # NoMessage /\ u = UIThread

\* Threads that wait for each other and will never run again.
Deadlocked(S) == S # {} /\ \A t \in S : \E u \in S : WaitsForThread(t, u)

LTypeOK ==
    /\ section \in {Unowned} \cup [thread : Threads, count : 1 .. 2]
    /\ message \in [Threads -> Messages \cup {NoMessage}]
    /\ serving \in Tabs \cup {NoThread}
    /\ sited \subseteq Tabs
    /\ windows \in [Tabs -> [Families -> Nat]]
    /\ sites \in Nat

\* The tabs never block each other for good: whatever the interleaving of locks,
\* unlocks and messages, threads deadlock only through the UI thread, and only
\* while it asks for WINDOWMANAGER inside m_CS, in RefreshDOMExplorer as called
\* by CreateDOMExplorerWindowUI (WindowManager.cpp:234, 243).
DeadlockNeedsSection ==
    \A S \in SUBSET Threads : Deadlocked(S) =>
        /\ UIThread \in S
        /\ section.thread = UIThread
        /\ WaitsFor(UIThread, SR_WINDOWMANAGER)

\* The UI thread, handling the message of a tab, never waits for a resource of
\* that tab, which waits for its reply: "we are going to call another thread
\* (UI thread), let him manipulate with some of our resources"
\* (ScriptDebugger.cpp:40-42, and the ResourceUnlock of WindowManager.cpp).
SenderReleasesForHandler ==
    serving # NoThread => ~WaitsForThread(UIThread, serving)

\* A tab is inside m_CS only as the owner of the window manager, although
\* Create*Window gives the manager up in the middle of the handler: at most one
\* tab competes with the UI thread (CHECK_THREAD_OWNERSHIP before each CSGUARD).
SectionUnderManager ==
    section.thread \in Tabs => Owns(section.thread, SR_WINDOWMANAGER)

\* A tab has at most one window of a family, although the manager is unlocked
\* between Get*Window and the insertion (WorkspaceWindow.cpp:66-91).
OnePanePerFamily == \A t \in Tabs, f \in Families : windows[t][f] <= 1

\* One CScriptSiteInfo is made for a script, although its constructor unlocks
\* the debugger between the lookup and the insertion (ScriptDebugger.cpp:541-547):
\* the script manager, locked around the injection of all scripts, keeps the
\* other tabs out.
OneSitePerScript == sites <= 1

\* "threads may request resources only with increasing IDs" (Module.cpp:29)
RequestsInOrder ==
    [][\A t \in Threads :
          Idle(t) /\ ~Idle(t)' => \A q \in m_Resources[t] : q <= call'[t].rid]_allVars

\* m_CS "resolves the access of the UI thread against the other threads"
\* (WindowManager.h:56): it lets them pass one after the other.
SectionResolvesAccess ==
    \A t \in Tabs : ~Deadlocked({UIThread, t})

=============================================================================
