------------------------------- MODULE Scripts -------------------------------
(***************************************************************************)
(* The script engines of the frames (CUpgradrScriptEngine), the instances  *)
(* of the scripts they run (CScriptInstanceManager, CUpgradrScriptSite),   *)
(* and CScriptDebugger, which keeps a document helper for each of them and *)
(* the breakpoints that are to outlive a page ("sticky breakpoints").      *)
(*                                                                         *)
(* An instance is known to four registries that four sections lock one     *)
(* after the other: a step is what happens under one lock.  The debugger   *)
(* calls on a thread of its own between the steps.  SCRIPTMANAGER is held  *)
(* around the loop over the scripts; a script that shows a dialog lets its *)
(* own thread begin a call of another engine.                              *)
(***************************************************************************)
EXTENDS Naturals, Sequences, Functions, BagsExt, TLC

CONSTANTS
    Tabs,          \* browser threads
    Engines,       \* engines of frames; each is attached once
    ScriptIds,     \* scripts of the script manager, by handle
    SystemScripts, \* those of category EC_SYSTEM
    Positions,     \* where a breakpoint can be in a script
    MaxEvents      \* bound: calls of the debugger and COM calls that fail, together

ASSUME ScriptsAssumption ==
    SystemScripts \subseteq ScriptIds /\ MaxEvents \in Nat

VARIABLES
    tab,                 \* engine -> thread of its frame
    broken,              \* scripts whose code does not parse
    calls,               \* tab -> engines in Attach or Detach, innermost last
    phase,               \* engine -> how far Attach or Detach has come
    step,                \* engine -> the step it is at in the loop of the phase
    left,                \* engine -> scripts the loop has yet to see
    current,             \* engine -> the script, and its instance, that the loop is at
    m_ScriptInstances,   \* engine -> script -> instance id
    instances,           \* id -> CScriptInstance, the instance manager
    m_LastId,
    frameHelpers,        \* engines with a helper in m_FrameDocumentHelpers
    instanceHelpers,     \* ids in m_ScriptInstanceDocumentHelpers
    scriptHelpers,       \* scripts in m_ScriptDocumentHelpers
    siteInfos,           \* script -> bag m_Instances, for those in m_ScriptSiteInfos
    site,                \* id -> state of the script site of the instance
    set,                 \* id -> position -> state of the breakpoint in its engine
    m_Breakpoints,       \* script -> position -> state of the tracked breakpoint
    m_DebugFlags,        \* APPBREAKFLAG_DEBUGGER_HALT
    m_DisableBreakpointTracking,
    m_Inited,            \* of the debugger; its Init is taken to succeed at first use
    asked,               \* calls of the debugger so far
    failures,            \* COM calls that have failed so far
    call,                \* what the debugger's SetBreakPoint has still to do
    cleared,             \* history: ids with a tracked breakpoint deleted while halted
    failed               \* history: an ApplyBreakpoint has thrown

env == <<broken, tab>>
threads == <<calls, phase, step, left, current>>
registries == <<m_ScriptInstances, instances, m_LastId,
                frameHelpers, instanceHelpers, scriptHelpers, siteInfos>>
debugger == <<m_Breakpoints, m_DebugFlags, m_DisableBreakpointTracking, asked, call,
              m_Inited>>
history == <<cleared, failed, failures>>
vars == <<env, threads, registries, site, set, debugger, history>>

Absent == "absent"
ENABLED_BP == "ENABLED"
DISABLED_BP == "DISABLED"
DELETED_BP == "DELETED"
NULL_SCRIPT_INSTANCE == 0
NoCall == [state |-> Absent]
NoBreakpoints == [p \in Positions |-> Absent]
NoInstance == [id |-> NULL_SCRIPT_INSTANCE]
Nothing == [x \in {} |-> Absent]

Init ==
    /\ tab \in [Engines -> Tabs]
    /\ broken \in SUBSET ScriptIds
    /\ calls = [t \in Tabs |-> <<>>]
    /\ phase = [e \in Engines |-> "new"]
    /\ step = [e \in Engines |-> "rest"]
    /\ left = [e \in Engines |-> {}]
    /\ current = [e \in Engines |-> NoInstance]
    /\ m_ScriptInstances = [e \in Engines |-> Nothing]
    /\ instances = Nothing
    /\ m_LastId = 0
    /\ frameHelpers = {} /\ instanceHelpers = {} /\ scriptHelpers = {}
    /\ siteInfos = Nothing
    /\ site = Nothing
    /\ set = Nothing
    /\ m_Breakpoints = [s \in ScriptIds |-> NoBreakpoints]
    /\ m_DebugFlags \in BOOLEAN   \* the constructor does not set it
    /\ m_DisableBreakpointTracking = FALSE
    /\ m_Inited = TRUE
    /\ asked = 0
    /\ call = NoCall
    /\ cleared = {}
    /\ failed = FALSE
    /\ failures = 0

----------------------------------------------------------------------------
\* Threads, and the lock of the script manager.

Extend(f, x, v) == [y \in DOMAIN f \cup {x} |-> IF y = x THEN v ELSE f[y]]

\* A call of an engine begins when its thread is in none, or in a running script.
MayBegin(e) ==
    LET stack == calls[tab[e]] IN stack # <<>> => step[stack[Len(stack)]] = "running"

Begin(e) == MayBegin(e) /\ calls' = [calls EXCEPT ![tab[e]] = Append(@, e)]
Return(e) == calls' = [calls EXCEPT ![tab[e]] = SubSeq(@, 1, Len(@) - 1)]

\* Engine e is at step s, and its call is the innermost of its thread.
At(e, s) ==
    LET stack == calls[tab[e]] IN
        stack # <<>> /\ stack[Len(stack)] = e /\ step[e] = s

Go(e, s) == step' = [step EXCEPT ![e] = s]

Attaching(e) == phase[e] \in {"system", "user"}
Removing(e) == phase[e] \in {"remove user", "remove system"}
InLoop(e) == step[e] \notin {"rest", "lock"}

LoopScripts(e) == IF phase[e] \in {"system", "remove system"}
                  THEN SystemScripts ELSE ScriptIds \ SystemScripts

\* Mutant: the loops of two threads run side by side.
LockScriptManager_Free(e) ==
    /\ At(e, "lock")
    /\ Go(e, "loop")
    /\ left' = [left EXCEPT ![e] = LoopScripts(e)]
    /\ UNCHANGED <<env, calls, phase, current, registries, site, set, debugger, history>>

\* The lock of the script manager, around each of the four loops
LockScriptManager(e) ==
    /\ At(e, "lock")
    /\ \A f \in Engines : InLoop(f) => tab[f] = tab[e]
    /\ Go(e, "loop")
    /\ left' = [left EXCEPT ![e] = LoopScripts(e)]
    /\ UNCHANGED <<env, calls, phase, current, registries, site, set, debugger, history>>

----------------------------------------------------------------------------
\* CScriptDebugger: breakpoints.

HasTracked(bps) == \E p \in Positions : bps[p] # Absent

\* What ApplyBreakpoint makes of the breakpoints of one instance.
Applied(bps, old) == [p \in Positions |-> IF bps[p] = Absent THEN old[p] ELSE bps[p]]

\* A document whose code is not parsed has no code context to set a breakpoint in.
HasContexts(i) == site[i] # "created"

\* ApplyBreakpoints() with the breakpoints bps, in any order of the instances; at one
\* without a context it throws, and leaves tracking disabled.
ApplyBreakpoints(bps) ==
    LET To == {i \in instanceHelpers : HasTracked(bps[instances[i].script])}
        Bad == {i \in To : ~HasContexts(i)}
    IN \E done \in SUBSET (To \ Bad) :
          /\ Bad = {} => done = To
          /\ set' = [i \in DOMAIN set |->
                        IF i \in done THEN Applied(bps[instances[i].script], set[i])
                        ELSE set[i]]
          /\ cleared' = cleared \ done
          /\ m_DisableBreakpointTracking' = (Bad # {})
          /\ failed' = (failed \/ Bad # {})
          /\ UNCHANGED failures

\* Mutant: a breakpoint that is tracked already is not applied again.
SetupBreakpoint_New(s, p, state) ==
    IF (m_DebugFlags /\ state = DELETED_BP) \/ m_DisableBreakpointTracking
    THEN UNCHANGED <<m_Breakpoints, m_DisableBreakpointTracking, set, history>>
    ELSE IF state = DELETED_BP
    THEN /\ m_Breakpoints' = [m_Breakpoints EXCEPT ![s][p] = Absent]
         /\ UNCHANGED <<m_DisableBreakpointTracking, set, history>>
    ELSE /\ m_Breakpoints' = [m_Breakpoints EXCEPT ![s][p] = state]
         /\ IF m_Breakpoints[s][p] = Absent
            THEN ApplyBreakpoints(m_Breakpoints')
            ELSE UNCHANGED <<m_DisableBreakpointTracking, set, history>>

\* SetupBreakpoint, called by the debugger through CUpgradrDebugCodeContext: it does
\* not return when a breakpoint cannot be applied.
SetupBreakpoint(s, p, state) ==
    IF (m_DebugFlags /\ state = DELETED_BP) \/ m_DisableBreakpointTracking
    THEN UNCHANGED <<m_Breakpoints, m_DisableBreakpointTracking, set, history>>
    ELSE IF state = DELETED_BP
    THEN /\ m_Breakpoints' = [m_Breakpoints EXCEPT ![s][p] = Absent]
         /\ UNCHANGED <<m_DisableBreakpointTracking, set, history>>
    ELSE /\ m_Breakpoints' = [m_Breakpoints EXCEPT ![s][p] = state]
         /\ ApplyBreakpoints(m_Breakpoints')

\* The documents a debugger finds contexts in: of an instance, or of the common site
\* of a script.
Contexts ==
    {[id |-> i, script |-> instances[i].script] :
         i \in {j \in instanceHelpers : HasContexts(j)}}
        \cup {[id |-> NULL_SCRIPT_INSTANCE, script |-> s] : s \in scriptHelpers \ broken}

SetBreakPoint ==
    /\ call = NoCall
    /\ asked + failures < MaxEvents
    /\ asked' = asked + 1
    /\ \E context \in Contexts, p \in Positions,
          state \in {ENABLED_BP, DISABLED_BP, DELETED_BP} :
          /\ SetupBreakpoint(context.script, p, state)
          /\ call' = IF m_DisableBreakpointTracking' /\ ~m_DisableBreakpointTracking
                     THEN NoCall
                     ELSE [id |-> context.id, script |-> context.script,
                           position |-> p, state |-> state]
    /\ UNCHANGED <<env, threads, registries, site, m_DebugFlags, m_Inited>>

\* "perform original action", after the debugger is unlocked; a context of an engine
\* that is closed by now does nothing.
PerformOriginal ==
    /\ call # NoCall
    /\ call' = NoCall
    /\ IF call.id \in DOMAIN set
       THEN /\ set' = [set EXCEPT ![call.id][call.position] =
                          IF call.state = DELETED_BP THEN Absent ELSE call.state]
            /\ cleared' = IF call.state = DELETED_BP
                             /\ m_Breakpoints[call.script][call.position] # Absent
                          THEN cleared \cup {call.id} ELSE cleared
       ELSE UNCHANGED <<set, cleared>>
    /\ UNCHANGED <<env, threads, registries, site, m_Breakpoints, m_DebugFlags,
                   m_DisableBreakpointTracking, asked, m_Inited, failed, failures>>

OnBreakFlagChange ==
    /\ m_DebugFlags' = ~m_DebugFlags
    /\ UNCHANGED <<env, threads, registries, site, set, m_Breakpoints,
                   m_DisableBreakpointTracking, asked, call, m_Inited, history>>

----------------------------------------------------------------------------
\* CUpgradrScriptEngine::Attach and EnableEngine.

\* A COM call fails.
ComError == asked + failures < MaxEvents /\ failures' = failures + 1

\* A document of which TestEnvironment is denied gets no scripts.
AttachDenied(e) ==
    /\ phase[e] = "new" /\ MayBegin(e)
    /\ phase' = [phase EXCEPT ![e] = "unscripted"]
    /\ UNCHANGED <<env, calls, step, left, current, registries, site, set, debugger,
                   history>>

\* A COM call of TestEnvironment fails, or one of CreateFrameDebugDocumentHelper, which
\* inserts the helper first.
AttachFails(e) ==
    /\ phase[e] = "new" /\ MayBegin(e)
    /\ phase' = [phase EXCEPT ![e] = "failed"]
    /\ frameHelpers' \in {frameHelpers, frameHelpers \cup {e}}
    /\ UNCHANGED <<env, calls, step, left, current, m_ScriptInstances, instances, m_LastId,
                   instanceHelpers, scriptHelpers, siteInfos, site, set, debugger,
                   cleared, failed>>
    /\ ComError

\* ExtendScriptingModel: CreateFrameDebugDocumentHelper
Attach(e) ==
    /\ phase[e] = "new" /\ Begin(e)
    /\ phase' = [phase EXCEPT ![e] = "system"]
    /\ Go(e, "lock")
    /\ frameHelpers' = frameHelpers \cup {e}
    /\ UNCHANGED <<env, left, current, m_ScriptInstances, instances, m_LastId,
                   instanceHelpers, scriptHelpers, siteInfos, site, set, debugger,
                   history>>

\* InjectScript returns false: the document has no window, or none with IDispatchEx.
InjectNothing(e) ==
    /\ At(e, "loop") /\ Attaching(e)
    /\ ComError
    /\ \E s \in left[e] : left' = [left EXCEPT ![e] = @ \ {s}]
    /\ UNCHANGED <<env, calls, phase, step, current, registries, site, set, debugger,
                   cleared, failed>>

\* InjectScript up to InsertScriptInstance
InsertScriptInstance(e) ==
    LET id == m_LastId + 1 IN
    /\ At(e, "loop") /\ Attaching(e)
    /\ \E s \in left[e] :
          /\ left' = [left EXCEPT ![e] = @ \ {s}]
          /\ current' = [current EXCEPT ![e] = [id |-> id, script |-> s]]
          /\ instances' = Extend(instances, id, [script |-> s, engine |-> e])
          /\ m_ScriptInstances' = [m_ScriptInstances EXCEPT ![e] = Extend(@, s, id)]
    /\ m_LastId' = id
    /\ site' = Extend(site, id, "created")
    /\ set' = Extend(set, id, NoBreakpoints)
    /\ Go(e, "wake")
    /\ UNCHANGED <<env, calls, phase, frameHelpers, instanceHelpers, scriptHelpers,
                   siteInfos, debugger, history>>

\* The dummy script that runs while the debugger is halted gets the breakpoints of
\* the script; its site is done at once.
WakeDebugger(e) ==
    /\ At(e, "wake")
    /\ Go(e, "init")
    /\ m_DisableBreakpointTracking' =
          IF m_DebugFlags /\ HasTracked(m_Breakpoints[current[e].script])
          THEN FALSE ELSE m_DisableBreakpointTracking
    /\ UNCHANGED <<env, calls, phase, left, current, registries, site, set, m_Breakpoints,
                   m_DebugFlags, asked, call, m_Inited, history>>

CreateInstanceDebugHelper(e) ==
    /\ At(e, "init") /\ e \in frameHelpers
    /\ Go(e, "parse")
    /\ instanceHelpers' = instanceHelpers \cup {current[e].id}
    /\ UNCHANGED <<env, calls, phase, left, current, m_ScriptInstances, instances,
                   m_LastId, frameHelpers, scriptHelpers, siteInfos, site, set, debugger,
                   history>>

\* InitInstanceSite returns what ParseScriptText returns, without running the script.
ParseScriptText(e) ==
    /\ At(e, "parse")
    /\ IF current[e].script \in broken
       THEN Go(e, "not run") /\ UNCHANGED site
       ELSE Go(e, "run") /\ site' = [site EXCEPT ![current[e].id] = "parsed"]
    /\ UNCHANGED <<env, calls, phase, left, current, registries, set, debugger, history>>

\* Mutant: Run starts the script without its breakpoints.
Run_Bare(e) ==
    /\ At(e, "run")
    /\ Go(e, "start")
    /\ UNCHANGED <<env, calls, phase, left, current, registries, site, set, debugger,
                   history>>

\* Run: "reapply sticky breakpoints"
Run(e) ==
    LET i == current[e].id
        bps == m_Breakpoints[current[e].script]
    IN /\ At(e, "run")
       /\ Go(e, "start")
       /\ set' = [set EXCEPT ![i] = Applied(bps, @)]
       /\ cleared' = cleared \ {i}
       /\ m_DisableBreakpointTracking' =
             IF HasTracked(bps) THEN FALSE ELSE m_DisableBreakpointTracking
       /\ UNCHANGED <<env, calls, phase, left, current, registries, site, m_Breakpoints,
                      m_DebugFlags, asked, call, m_Inited, failed, failures>>

\* SetScriptState(SCRIPTSTATE_STARTED), with the debugger unlocked
StartScript(e) ==
    /\ At(e, "start")
    /\ Go(e, "running")
    /\ site' = [site EXCEPT ![current[e].id] = "started"]
    /\ UNCHANGED <<env, calls, phase, left, current, registries, set, debugger, history>>

\* SetScriptState returns an error: the engine is not connected, the script goes on
\* to be registered.
ScriptStops(e) ==
    /\ At(e, "running")
    /\ Go(e, "not run")
    /\ site' = [site EXCEPT ![current[e].id] = "stopped"]
    /\ ComError
    /\ UNCHANGED <<env, calls, phase, left, current, registries, set, debugger, cleared,
                   failed>>

\* RegisterScriptInstance: the site info of the script is there, or CScriptSiteInfo
\* has the UI thread make a common site, with the debugger unlocked.
RegisterScriptInstance(e) ==
    LET s == current[e].script IN
    /\ At(e, "running") \/ At(e, "not run")
    /\ IF s \in DOMAIN siteInfos
       THEN /\ Go(e, "loop")
            /\ siteInfos' = [siteInfos EXCEPT ![s] = BagAdd(@, current[e].id)]
            /\ UNCHANGED scriptHelpers
       ELSE /\ Go(e, "add site")
            /\ scriptHelpers' = scriptHelpers \cup {s}
            /\ UNCHANGED siteInfos
    /\ UNCHANGED <<env, calls, phase, left, current, m_ScriptInstances, instances,
                   m_LastId, frameHelpers, instanceHelpers, site, set, debugger, history>>

\* Mutant: the instance is taken out of the instance manager, and of nothing else.
Throw_Half(e) ==
    /\ Return(e)
    /\ Go(e, "rest")
    /\ phase' = [phase EXCEPT ![e] = "failed"]
    /\ left' = [left EXCEPT ![e] = {}]
    /\ instances' = Restrict(instances, DOMAIN instances \ {current[e].id})
    /\ UNCHANGED <<env, current, m_ScriptInstances, m_LastId, frameHelpers, siteInfos,
                   set, m_Breakpoints, m_DebugFlags, asked, call, m_Inited, cleared>>

\* Mutant: EnableEngine swallows an exception, and the engine counts as enabled.
Throw_Swallowed(e) ==
    /\ Return(e)
    /\ Go(e, "rest")
    /\ phase' = [phase EXCEPT ![e] = IF Attaching(e) THEN "enabled" ELSE "stuck"]
    /\ left' = [left EXCEPT ![e] = {}]
    /\ UNCHANGED <<env, current, m_ScriptInstances, instances, m_LastId, frameHelpers,
                   siteInfos, set, m_Breakpoints, m_DebugFlags, asked, call, m_Inited,
                   cleared>>

\* An exception leaves Attach, with the constructor of the frame, or Detach, with its
\* destructor.  Nothing is undone.  An engine that failed to attach is not detached ever
\* after; one that failed to detach still counts as enabled, and its frame is still in
\* the table, so Detach may be called again.
Throw(e) ==
    /\ Return(e)
    /\ Go(e, "rest")
    /\ phase' = [phase EXCEPT ![e] = IF Attaching(e) THEN "failed" ELSE "stuck"]
    /\ left' = [left EXCEPT ![e] = {}]
    /\ UNCHANGED <<env, current, m_ScriptInstances, instances, m_LastId, frameHelpers,
                   siteInfos, set, m_Breakpoints, m_DebugFlags, asked, call, m_Inited,
                   cleared>>

\* InitScriptSite of a script that does not parse fails the CHECK of CScriptSiteInfo.
SiteFails(e) ==
    /\ At(e, "add site") /\ current[e].script \in broken
    /\ Throw(e)
    /\ UNCHANGED <<instanceHelpers, scriptHelpers, site, m_DisableBreakpointTracking,
                   failed, failures>>

\* Mutant: a common site that does not parse is kept.
AddSite_Any(e) ==
    /\ At(e, "add site")
    /\ Go(e, "loop")
    /\ siteInfos' = Extend(siteInfos, current[e].script, BagAdd(Nothing, current[e].id))
    /\ UNCHANGED <<env, calls, phase, left, current, m_ScriptInstances, instances,
                   m_LastId, frameHelpers, instanceHelpers, scriptHelpers, site, set,
                   debugger, history>>

AddSite(e) ==
    /\ At(e, "add site") /\ current[e].script \notin broken
    /\ Go(e, "loop")
    /\ siteInfos' = Extend(siteInfos, current[e].script, BagAdd(Nothing, current[e].id))
    /\ UNCHANGED <<env, calls, phase, left, current, m_ScriptInstances, instances,
                   m_LastId, frameHelpers, instanceHelpers, scriptHelpers, site, set,
                   debugger, history>>

\* A COM call fails: in InjectScript before there is an instance; in InitInstanceSite, in
\* CreateEngine, at the helper, in the parser or at SCRIPTSTATE_CONNECTED; in the common
\* site of a script, before its helper is there ("not run") or after.
ComFails(e) ==
    /\ \/ At(e, "loop") /\ Attaching(e) /\ left[e] # {}
       \/ At(e, "init") \/ At(e, "parse") \/ At(e, "running")
       \/ At(e, "not run") /\ current[e].script \notin DOMAIN siteInfos
       \/ At(e, "add site") /\ current[e].script \notin broken
    /\ ComError /\ Throw(e)
    /\ UNCHANGED <<instanceHelpers, scriptHelpers, site, m_DisableBreakpointTracking, failed>>

\* The same for the dummy script of a halted debugger, which may leave its helper, with or
\* without its code in it.  Which breakpoints it has is not followed: it is never run.
WakeFails(e) ==
    LET id == current[e].id IN
    /\ At(e, "wake") /\ m_DebugFlags
    /\ ComError /\ Throw(e)
    /\ \/ UNCHANGED <<instanceHelpers, site>>
       \/ /\ instanceHelpers' = instanceHelpers \cup {id}
          /\ site' \in {site, [site EXCEPT ![id] = "parsed"]}
    /\ m_DisableBreakpointTracking' \in
           IF HasTracked(m_Breakpoints[current[e].script])
           THEN {FALSE, m_DisableBreakpointTracking} ELSE {m_DisableBreakpointTracking}
    /\ UNCHANGED <<scriptHelpers, failed>>

\* A breakpoint cannot be applied in the instance, or in the dummy script, whose helper
\* stays.
ApplyFails(e) ==
    LET id == current[e].id IN
    /\ \/ At(e, "run") /\ UNCHANGED <<instanceHelpers, site>>
       \/ /\ At(e, "wake") /\ m_DebugFlags
          /\ instanceHelpers' = instanceHelpers \cup {id}
          /\ site' = [site EXCEPT ![id] = "parsed"]
    /\ HasTracked(m_Breakpoints[current[e].script])
    /\ Throw(e)
    /\ m_DisableBreakpointTracking' = TRUE
    /\ failed' = TRUE
    /\ UNCHANGED <<scriptHelpers, failures>>

----------------------------------------------------------------------------
\* CUpgradrScriptEngine::Detach and DisableEngine.

Detach(e) ==
    /\ phase[e] \in {"enabled", "stuck"} /\ Begin(e)
    /\ phase' = [phase EXCEPT ![e] = "remove user"]
    /\ Go(e, "lock")
    /\ UNCHANGED <<env, left, current, registries, site, set, debugger, history>>

\* RemoveScript: Done of the site, and RemoveScriptInstance, with the instance
\* manager locked.
RemoveScript(e) ==
    /\ At(e, "loop") /\ Removing(e)
    /\ \E s \in left[e] \cap DOMAIN m_ScriptInstances[e] :
          LET id == m_ScriptInstances[e][s] IN
             /\ left' = [left EXCEPT ![e] = @ \ {s}]
             /\ current' = [current EXCEPT ![e] = [id |-> id, script |-> s]]
             /\ instances' = Restrict(instances, DOMAIN instances \ {id})
             /\ instanceHelpers' = instanceHelpers \ {id}
             /\ site' = Restrict(site, DOMAIN site \ {id})
             /\ set' = Restrict(set, DOMAIN set \ {id})
             /\ cleared' = cleared \ {id}
    /\ Go(e, "unregister")
    /\ UNCHANGED <<env, calls, phase, m_ScriptInstances, m_LastId, frameHelpers,
                   scriptHelpers, siteInfos, debugger, failed, failures>>

\* RemoveScript of a script that the engine has no instance of
RemoveNothing(e) ==
    /\ At(e, "loop") /\ Removing(e)
    /\ \E s \in left[e] \ DOMAIN m_ScriptInstances[e] :
          left' = [left EXCEPT ![e] = @ \ {s}]
    /\ UNCHANGED <<env, calls, phase, step, current, registries, site, set, debugger,
                   history>>

\* Done of the site throws: when it disconnects the engine, or later on, and then its
\* helper is there or not.
RemoveFails(e) ==
    /\ At(e, "loop") /\ Removing(e)
    /\ \E s \in left[e] \cap DOMAIN m_ScriptInstances[e] :
          LET id == m_ScriptInstances[e][s] IN
             \/ site[id] = "started" /\ UNCHANGED <<site, instanceHelpers>>
             \/ /\ site' = [site EXCEPT ![id] = "closing"]
                /\ instanceHelpers' \in {instanceHelpers, instanceHelpers \ {id}}
    /\ ComError /\ Throw(e)
    /\ UNCHANGED <<scriptHelpers, m_DisableBreakpointTracking, failed>>

\* UnregisterScriptInstance (erase of an id that is not there would be undefined),
\* and the end of RemoveScript
UnregisterScriptInstance(e) ==
    LET s == current[e].script IN
    /\ At(e, "unregister")
    /\ Go(e, "loop")
    /\ siteInfos' = [siteInfos EXCEPT ![s] = BagRemove(@, current[e].id)]
    /\ m_ScriptInstances' = [m_ScriptInstances EXCEPT ![e] = Restrict(@, DOMAIN @ \ {s})]
    /\ UNCHANGED <<env, calls, phase, left, current, instances, m_LastId, frameHelpers,
                   instanceHelpers, scriptHelpers, site, set, debugger, history>>

----------------------------------------------------------------------------
\* The loop is over: the next one begins, or EnableEngine returns, or
\* RevertScriptingModel destroys the helper of the frame and DisableEngine returns.
EndLoop(e) ==
    /\ At(e, "loop") /\ left[e] = {}
    /\ phase' = [phase EXCEPT ![e] =
          CASE @ = "system" -> "user"
            [] @ = "user" -> "enabled"
            [] @ = "remove user" -> "remove system"
            [] @ = "remove system" -> "detached"]
    /\ IF phase[e] \in {"system", "remove user"}
       THEN Go(e, "lock") /\ UNCHANGED calls
       ELSE Go(e, "rest") /\ Return(e)
    /\ frameHelpers' = IF phase[e] = "remove system"
                       THEN frameHelpers \ {e} ELSE frameHelpers
    /\ UNCHANGED <<env, left, current, m_ScriptInstances, instances, m_LastId,
                   instanceHelpers, scriptHelpers, siteInfos, site, set, debugger,
                   history>>

\* DestroyFrameDebugDocumentHelper throws, and leaves the helper.
RevertFails(e) ==
    /\ At(e, "loop") /\ left[e] = {} /\ phase[e] = "remove system"
    /\ ComError /\ Throw(e)
    /\ UNCHANGED <<instanceHelpers, scriptHelpers, site, m_DisableBreakpointTracking, failed>>

\* CScriptDebugger::Done when the last frame has gone: CleanScriptSiteInfos has the UI
\* thread destroy the common site of every script that has one.
Done ==
    /\ \A e \in Engines : phase[e] \in {"unscripted", "detached", "failed", "stuck"}
    /\ m_Inited' = FALSE
    /\ siteInfos' = Nothing
    /\ scriptHelpers' = scriptHelpers \ DOMAIN siteInfos
    /\ UNCHANGED <<env, threads, m_ScriptInstances, instances, m_LastId, frameHelpers,
                   instanceHelpers, site, set, m_Breakpoints, m_DebugFlags,
                   m_DisableBreakpointTracking, asked, call, history>>

AttachStep(e) ==
    \/ AttachDenied(e) \/ AttachFails(e) \/ Attach(e)
    \/ InjectNothing(e) \/ InsertScriptInstance(e) \/ WakeDebugger(e)
    \/ CreateInstanceDebugHelper(e) \/ ParseScriptText(e) \/ Run(e) \/ StartScript(e)
    \/ ScriptStops(e) \/ RegisterScriptInstance(e) \/ AddSite(e) \/ SiteFails(e)
    \/ ComFails(e) \/ WakeFails(e) \/ ApplyFails(e)

DetachStep(e) ==
    \/ Detach(e) \/ RemoveScript(e) \/ RemoveNothing(e) \/ UnregisterScriptInstance(e)
    \/ RemoveFails(e) \/ RevertFails(e)

DebuggerStep == SetBreakPoint \/ PerformOriginal \/ OnBreakFlagChange

Next ==
    /\ m_Inited
    /\ \/ \E e \in Engines :
             AttachStep(e) \/ DetachStep(e) \/ LockScriptManager(e) \/ EndLoop(e)
       \/ DebuggerStep
       \/ Done

Spec == Init /\ [][Next]_vars

\* For TLC: nothing tells the tabs apart, nor the engines.
TabSymmetry == Permutations(Tabs) \cup Permutations(Engines)

----------------------------------------------------------------------------
Ids == 1 .. m_LastId
BreakpointStates == {Absent, ENABLED_BP, DISABLED_BP}

TypeOK ==
    /\ tab \in [Engines -> Tabs]
    /\ calls \in [Tabs -> Seq(Engines)]
    /\ DOMAIN instances \subseteq Ids /\ m_LastId \in Nat
    /\ instances \in [DOMAIN instances -> [script : ScriptIds, engine : Engines]]
    /\ \A e \in Engines : DOMAIN m_ScriptInstances[e] \subseteq ScriptIds
    /\ frameHelpers \subseteq Engines
    /\ instanceHelpers \subseteq DOMAIN instances
    /\ scriptHelpers \subseteq ScriptIds
    /\ DOMAIN siteInfos \subseteq scriptHelpers
    /\ \A s \in DOMAIN siteInfos :
          /\ DOMAIN siteInfos[s] \subseteq Ids
          /\ \A i \in DOMAIN siteInfos[s] : siteInfos[s][i] \in Nat \ {0}
    /\ site \in [DOMAIN instances -> {"created", "parsed", "started", "stopped", "closing"}]
    /\ set \in [DOMAIN instances -> [Positions -> BreakpointStates]]
    /\ m_Breakpoints \in [ScriptIds -> [Positions -> BreakpointStates]]
    /\ cleared \subseteq DOMAIN instances

Registered(i, s) ==
    s \in DOMAIN siteInfos /\ i \in DOMAIN siteInfos[s] /\ siteInfos[s][i] = 1

Busy(e, s) == InLoop(e) /\ step[e] # "loop" /\ current[e].script = s

\* The script at which Attach failed.
FailedAt(e, s) == phase[e] = "failed" /\ m_ScriptInstances[e][s] = current[e].id

\* Between the scripts of a loop the four registries know the same instances, each once:
\* what the engine looks up is in the instance manager, has its helper and is registered
\* for its script, whoever attaches, detaches and fails in between.  Attach that threw
\* leaves one instance for which this need not be so, that of the script it failed at;
\* Done that threw half-way may have destroyed the helper, and no more.  An instance on
\* its way out is still registered, so erase(remove(...)) of UnregisterScriptInstance
\* (ScriptDebugger.cpp:570) finds it.  An engine leaves nothing behind when it is
\* detached, so the destructor of the debugger finds no helper (ScriptDebugger.cpp:80-82)
\* but those of engines that failed.
RegistriesAgree ==
    /\ \A e \in Engines : \A s \in DOMAIN m_ScriptInstances[e] :
          LET i == m_ScriptInstances[e][s] IN
             /\ ~Busy(e, s) /\ ~FailedAt(e, s) =>
                   /\ i \in DOMAIN instances /\ (m_Inited => Registered(i, s))
                   /\ site[i] # "closing" => i \in instanceHelpers
             /\ Busy(e, s) /\ step[e] = "unregister" => Registered(i, s)
    /\ \A i \in DOMAIN instances :
          LET own == m_ScriptInstances[instances[i].engine] IN
             instances[i].script \in DOMAIN own /\ own[instances[i].script] = i
    /\ \A s \in DOMAIN siteInfos : \A i \in DOMAIN siteInfos[s] :
          \E e \in Engines : s \in DOMAIN m_ScriptInstances[e] /\ m_ScriptInstances[e][s] = i
    /\ \A e \in Engines : phase[e] = "detached" =>
          m_ScriptInstances[e] = Nothing /\ e \notin frameHelpers
    /\ ~m_Inited /\ (\A e \in Engines : phase[e] \notin {"failed", "stuck"}) =>
          frameHelpers = {} /\ instanceHelpers = {} /\ scriptHelpers = {}

Ran == {"started", "stopped"}

\* A frame whose engine is enabled has no script half injected: whatever script it has an
\* instance of parses, was begun, and has its common site.
EnabledScriptsBegan ==
    \A e \in Engines : phase[e] = "enabled" =>
        \A s \in DOMAIN m_ScriptInstances[e] :
            /\ s \notin broken /\ s \in DOMAIN siteInfos
            /\ site[m_ScriptInstances[e][s]] \in Ran

\* The loops trace "Cannot parse script" and go on with the next one
\* (UpgradrScriptEngine.cpp:90-94): Attach does not fail because a script does not parse.
UnparsedIsPassedOver ==
    [][\A e \in Engines : step[e] = "add site" /\ current[e].script \in broken =>
          phase'[e] # "failed"]_vars

\* Until applying a breakpoint fails, every instance of a script that was begun, and is
\* not being closed, has the breakpoints that are tracked for the script, in the state
\* they were set to last: those set before it began, and those set through another
\* document while it was being injected.  The exception are the instances where the
\* debugger deleted one while it was halted, until the breakpoints are applied again.
\* Tracking is disabled at no other time than that of re-applying.
BreakpointsReach ==
    ~failed =>
        /\ ~m_DisableBreakpointTracking
        /\ \A i \in DOMAIN instances \ cleared : site[i] \in Ran =>
              \A p \in Positions :
                  LET tracked == m_Breakpoints[instances[i].script][p] IN
                     tracked # Absent => set[i][p] = tracked

=============================================================================
