---------------------------- MODULE ScriptsProofs ----------------------------
(***************************************************************************)
(* What the scripts of an enabled engine have been through, which          *)
(* breakpoints its instances have, and that the registries of the          *)
(* instances agree, for any number of threads, engines, scripts, calls of  *)
(* the debugger and COM calls that fail.                                   *)
(***************************************************************************)
EXTENDS Scripts, TLAPS

Phases == {"new", "unscripted", "system", "user", "enabled", "remove user",
           "remove system", "detached", "failed", "stuck"}

\* The steps of InjectScript.
Injecting == {"wake", "init", "parse", "run", "start", "running", "not run", "add site"}

\* The steps at which an instance that the engine has lacks its helper.
Waking == {"wake", "init", "unregister"}

Steps == {"rest", "lock", "loop", "unregister"} \cup Injecting

EnginesTyped ==
    /\ phase \in [Engines -> Phases]
    /\ step \in [Engines -> Steps]
    /\ left \in [Engines -> SUBSET ScriptIds]
    /\ current = [e \in Engines |-> current[e]]
    /\ m_ScriptInstances = [e \in Engines |-> m_ScriptInstances[e]]

SiteStates == {"created", "parsed", "started", "stopped", "closing"}

InstancesTyped ==
    /\ m_LastId \in Nat
    /\ DOMAIN instances \subseteq 1 .. m_LastId
    /\ instances \in [DOMAIN instances -> [script : ScriptIds, engine : Engines]]
    /\ site \in [DOMAIN instances -> SiteStates]
    /\ set \in [DOMAIN instances -> [Positions -> BreakpointStates]]
    /\ instanceHelpers \subseteq DOMAIN instances
    /\ m_Breakpoints \in [ScriptIds -> [Positions -> BreakpointStates]]

\* An engine can have an instance of a script from the turn of the loop of Attach that sees
\* the script to that of Detach.
Had(e) ==
    CASE phase[e] = "system"        -> IF step[e] = "lock" THEN {} ELSE SystemScripts \ left[e]
      [] phase[e] = "user"          -> IF step[e] = "lock" THEN SystemScripts
                                       ELSE ScriptIds \ left[e]
      [] phase[e] \in {"enabled", "stuck"} -> ScriptIds
      [] phase[e] = "remove user"   -> IF step[e] = "lock" THEN ScriptIds
                                       ELSE SystemScripts \cup left[e]
      [] phase[e] = "remove system" -> IF step[e] = "lock" THEN SystemScripts ELSE left[e]
      [] OTHER                      -> {}

AtUnregister(e) == IF step[e] = "unregister" THEN {current[e].script} ELSE {}

InstancesOf(e) ==
    /\ phase[e] # "failed" => DOMAIN m_ScriptInstances[e] \subseteq Had(e) \cup AtUnregister(e)
    /\ AtUnregister(e) \subseteq DOMAIN m_ScriptInstances[e]

Owns(e, s) ==
    /\ m_ScriptInstances[e][s] \in DOMAIN instances
    /\ instances[m_ScriptInstances[e][s]] = [script |-> s, engine |-> e]

OwnsInstances(e) == \A s \in DOMAIN m_ScriptInstances[e] \ AtUnregister(e) : Owns(e, s)

\* The steps an engine can be at in a phase.
StepFitsPhase(e) ==
    /\ phase[e] \in {"new", "unscripted", "enabled", "detached", "failed", "stuck"}
           <=> step[e] = "rest"
    /\ step[e] \in Injecting => Attaching(e)
    /\ step[e] = "unregister" => Removing(e)
    /\ step[e] \notin {"rest", "lock"} =>
           /\ left[e] \subseteq LoopScripts(e)
           /\ step[e] # "loop" => current[e].script \in LoopScripts(e) \ left[e]

\* How far the site of the script is that the loop is at.
SiteFitsStep(e) ==
    LET i == current[e].id
        s == current[e].script
    IN step[e] \in Injecting =>
           /\ s \in DOMAIN m_ScriptInstances[e] /\ i = m_ScriptInstances[e][s]
           /\ step[e] \in {"parse", "run", "start"} => i \in instanceHelpers
           /\ step[e] \in {"run", "start"} => site[i] = "parsed"
           /\ step[e] \in {"run", "start", "running"} => s \notin broken
           /\ step[e] = "running" => site[i] = "started"
           /\ step[e] \in {"not run", "add site"} /\ s \notin broken => site[i] \in Ran

\* The loop has begun the scripts it has passed and has an instance of.
PassedBegan(e) ==
    Attaching(e) \/ phase[e] = "enabled" =>
        \A s \in DOMAIN m_ScriptInstances[e] :
            \/ step[e] \in Injecting /\ s = current[e].script
            \/ s \notin broken /\ site[m_ScriptInstances[e][s]] \in Ran

EngineOK(e) ==
    /\ InstancesOf(e)
    /\ OwnsInstances(e)
    /\ StepFitsPhase(e)
    /\ SiteFitsStep(e)
    /\ PassedBegan(e)

\* A common site is one of a script that parses.
SitesParse == DOMAIN siteInfos \cap broken = {}

StartedHaveHelpers == \A i \in DOMAIN instances : site[i] \in Ran => i \in instanceHelpers

Matches(i) ==
    \A p \in Positions :
        LET tracked == m_Breakpoints[instances[i].script][p] IN
            tracked # Absent => set[i][p] = tracked

\* The breakpoints are there before the script is started.
Begun(i) == site[i] \in Ran \/ \E e \in Engines : step[e] = "start" /\ current[e].id = i

BegunMatch == \A i \in DOMAIN instances \ cleared : Begun(i) => Matches(i)

\* What the debugger has still to do is done in a document of the script, and changes no
\* tracked breakpoint but to delete it.
CallFits ==
    call # NoCall =>
        /\ call.id \in 0 .. m_LastId
        /\ call.position \in Positions
        /\ call.state \in {ENABLED_BP, DISABLED_BP, DELETED_BP}
        /\ call.id \in DOMAIN instances => instances[call.id].script = call.script
        /\ ~failed /\ call.state # DELETED_BP =>
               m_Breakpoints[call.script][call.position] = call.state

Tracking == ~failed => ~m_DisableBreakpointTracking

CoreInv ==
    /\ EnginesTyped
    /\ InstancesTyped
    /\ \A e \in Engines : EngineOK(e)
    /\ SitesParse
    /\ StartedHaveHelpers
    /\ Tracking
    /\ ~failed => BegunMatch
    /\ CallFits

ScriptHelpersTyped == scriptHelpers \subseteq ScriptIds

IInv == CoreInv /\ ScriptHelpersTyped

----------------------------------------------------------------------------
\* What the proofs below have in common.

\* No engine has been attached, and no registry has anything in it.
LEMMA InitCoreInv == Init => CoreInv
<1> SUFFICES ASSUME Init PROVE CoreInv
    OBVIOUS
<1>1. EnginesTyped
    BY DEF Init, EnginesTyped, Phases, Steps
<1>2. InstancesTyped
    BY DEF Init, InstancesTyped, Nothing, NoBreakpoints, BreakpointStates, SiteStates
<1>3. ASSUME NEW e \in Engines PROVE EngineOK(e)
  <2>1. /\ phase[e] = "new" /\ step[e] = "rest" /\ m_ScriptInstances[e] = Nothing
        /\ DOMAIN Nothing = {}
    BY DEF Init, Nothing
  <2>2. InstancesOf(e)
    BY <2>1 DEF InstancesOf, Had, AtUnregister
  <2>3. OwnsInstances(e)
    BY <2>1 DEF OwnsInstances
  <2>4. StepFitsPhase(e) /\ SiteFitsStep(e) /\ PassedBegan(e)
    BY <2>1 DEF StepFitsPhase, SiteFitsStep, PassedBegan, Injecting, Attaching
  <2> QED
    BY <2>2, <2>3, <2>4 DEF EngineOK
<1>4. SitesParse /\ StartedHaveHelpers /\ Tracking /\ BegunMatch /\ CallFits
    BY DEF Init, SitesParse, StartedHaveHelpers, Tracking, BegunMatch, CallFits, Nothing
<1> QED
    BY <1>1, <1>2, <1>3, <1>4 DEF CoreInv

\* An instance an engine has is its own.
LEMMA OwnInstance ==
    ASSUME CoreInv, NEW e \in Engines, NEW s \in DOMAIN m_ScriptInstances[e] \ AtUnregister(e)
    PROVE  /\ m_ScriptInstances[e][s] \in DOMAIN instances
           /\ instances[m_ScriptInstances[e][s]].engine = e
           /\ instances[m_ScriptInstances[e][s]].script = s
<1>1. OwnsInstances(e)
    BY DEF CoreInv, EngineOK
<1>2. Owns(e, s)
    BY <1>1 DEF OwnsInstances
<1> QED
    BY <1>2 DEF Owns

\* The instance that the loop is at is the engine's own.
LEMMA CurrentInstance ==
    ASSUME CoreInv, NEW e \in Engines, step[e] \in Injecting
    PROVE  /\ current[e].script \in DOMAIN m_ScriptInstances[e]
           /\ current[e].script \in LoopScripts(e) \ left[e]
           /\ AtUnregister(e) = {}
           /\ current[e].id = m_ScriptInstances[e][current[e].script]
           /\ current[e].id \in DOMAIN instances
           /\ instances[current[e].id].engine = e
           /\ instances[current[e].id].script = current[e].script
           /\ Attaching(e)
<1>1. EngineOK(e)
    BY DEF CoreInv
<1>2. Attaching(e) /\ step[e] \notin {"rest", "lock", "loop", "unregister"}
    BY <1>1 DEF EngineOK, StepFitsPhase, Injecting
<1>3. current[e].script \in LoopScripts(e) \ left[e]
    BY <1>1, <1>2 DEF EngineOK, StepFitsPhase
<1>4. AtUnregister(e) = {}
    BY <1>2 DEF AtUnregister
<1>5. /\ current[e].script \in DOMAIN m_ScriptInstances[e]
      /\ current[e].id = m_ScriptInstances[e][current[e].script]
    BY <1>1 DEF EngineOK, SiteFitsStep
<1> QED
    BY <1>2, <1>3, <1>4, <1>5, OwnInstance

\* A step of another engine, or of the debugger, leaves what an engine has alone.
LEMMA OtherEngine ==
    ASSUME CoreInv, NEW f \in Engines, broken' = broken,
           phase'[f] = phase[f], step'[f] = step[f], left'[f] = left[f],
           current'[f] = current[f], m_ScriptInstances'[f] = m_ScriptInstances[f],
           \A i \in DOMAIN instances : instances[i].engine = f =>
               /\ i \in DOMAIN instances' /\ instances'[i] = instances[i]
               /\ site'[i] = site[i]
               /\ i \in instanceHelpers => i \in instanceHelpers'
    PROVE  EngineOK(f)'
<1>1. EngineOK(f)
    BY DEF CoreInv
<1>2. Had(f)' = Had(f) /\ AtUnregister(f)' = AtUnregister(f)
    BY DEF Had, AtUnregister
<1>3. InstancesOf(f)'
    BY <1>1, <1>2 DEF EngineOK, InstancesOf
<1>4. OwnsInstances(f)'
  <2> SUFFICES ASSUME NEW s \in DOMAIN m_ScriptInstances[f] \ AtUnregister(f)
               PROVE  Owns(f, s)'
    BY <1>2 DEF OwnsInstances
  <2> QED
    BY <1>1, OwnInstance DEF EngineOK, OwnsInstances, Owns
<1>5. StepFitsPhase(f)'
    BY <1>1 DEF EngineOK, StepFitsPhase, Attaching, Removing, LoopScripts
<1>6. SiteFitsStep(f)'
  <2> SUFFICES ASSUME step[f] \in Injecting PROVE SiteFitsStep(f)'
    BY DEF SiteFitsStep
  <2>1. /\ current[f].id \in DOMAIN instances
        /\ instances[current[f].id].engine = f
    BY CurrentInstance
  <2>2. /\ site'[current[f].id] = site[current[f].id]
        /\ current[f].id \in instanceHelpers => current[f].id \in instanceHelpers'
    BY <2>1
  <2>3. SiteFitsStep(f)
    BY <1>1 DEF EngineOK
  <2> QED
    BY <2>2, <2>3 DEF SiteFitsStep
<1>7. PassedBegan(f)'
  <2> SUFFICES ASSUME Attaching(f) \/ phase[f] = "enabled",
                      NEW s \in DOMAIN m_ScriptInstances[f]
               PROVE  \/ step[f] \in Injecting /\ s = current[f].script
                      \/ s \notin broken /\ site'[m_ScriptInstances[f][s]] \in Ran
    BY DEF PassedBegan, Attaching
  <2>1. step[f] # "unregister"
    BY <1>1 DEF EngineOK, StepFitsPhase, Attaching, Removing
  <2>2. s \in DOMAIN m_ScriptInstances[f] \ AtUnregister(f)
    BY <2>1 DEF AtUnregister
  <2> QED
    BY <1>1, <2>2, OwnInstance DEF EngineOK, PassedBegan
<1> QED
    BY <1>3, <1>4, <1>5, <1>6, <1>7 DEF EngineOK

\* A step that starts no script leaves the instances and their breakpoints alone.
LEMMA BreakpointsStay ==
    ASSUME CoreInv,
           UNCHANGED <<m_LastId, instances, site, set, m_Breakpoints, instanceHelpers,
                       cleared, call, broken>>,
           \A f \in Engines : step'[f] = "start" =>
               step[f] = "start" /\ current'[f].id = current[f].id,
           failed => failed',
           ~failed' => ~m_DisableBreakpointTracking',
           DOMAIN siteInfos' \cap broken = {}
    PROVE  /\ InstancesTyped' /\ SitesParse' /\ StartedHaveHelpers' /\ Tracking'
           /\ CallFits'
           /\ ~failed' => BegunMatch'
<1>1. InstancesTyped' /\ SitesParse'
    BY DEF CoreInv, InstancesTyped, SitesParse
<1>2. StartedHaveHelpers' /\ Tracking' /\ CallFits'
    BY DEF CoreInv, StartedHaveHelpers, Tracking, CallFits
<1>3. ASSUME ~failed', NEW i \in DOMAIN instances' \ cleared', Begun(i)' PROVE Matches(i)'
  <2>1. Begun(i)
    BY <1>3 DEF Begun
  <2> QED
    BY <1>3, <2>1 DEF CoreInv, BegunMatch, Matches
<1> QED
    BY <1>1, <1>2, <1>3 DEF BegunMatch

\* A step of one engine that starts no script and changes no instance.
LEMMA LocalStep ==
    ASSUME CoreInv, NEW e \in Engines, EnginesTyped', EngineOK(e)',
           UNCHANGED <<m_LastId, instances, site, set, m_Breakpoints, instanceHelpers,
                       cleared, call, broken>>,
           \A f \in Engines : f # e =>
               /\ phase'[f] = phase[f] /\ step'[f] = step[f] /\ left'[f] = left[f]
               /\ current'[f] = current[f] /\ m_ScriptInstances'[f] = m_ScriptInstances[f],
           step'[e] # "start",
           failed => failed',
           ~failed' => ~m_DisableBreakpointTracking',
           DOMAIN siteInfos' \cap broken = {}
    PROVE  CoreInv'
<1>1. \A f \in Engines : EngineOK(f)'
  <2> SUFFICES ASSUME NEW f \in Engines, f # e PROVE EngineOK(f)'
    OBVIOUS
  <2> QED
    BY OtherEngine
<1>2. \A f \in Engines : step'[f] = "start" =>
          step[f] = "start" /\ current'[f].id = current[f].id
    OBVIOUS
<1>3. /\ InstancesTyped' /\ SitesParse' /\ StartedHaveHelpers' /\ Tracking' /\ CallFits'
      /\ ~failed' => BegunMatch'
    BY <1>2, BreakpointsStay
<1> QED
    BY <1>1, <1>3 DEF CoreInv

----------------------------------------------------------------------------
\* The steps of the loops.

\* A frame that gets no scripts has an engine that never does anything.
LEMMA AttachDeniedStep ==
    ASSUME CoreInv, NEW e \in Engines, AttachDenied(e) \/ AttachFails(e) PROVE CoreInv'
<1>1. EngineOK(e) /\ EnginesTyped /\ SitesParse /\ Tracking
    BY DEF CoreInv
<1>2. PICK to \in {"unscripted", "failed"} :
      /\ phase[e] = "new" /\ phase' = [phase EXCEPT ![e] = to]
      /\ UNCHANGED <<step, left, current, m_ScriptInstances, broken, instances, site,
                     m_LastId, set, m_Breakpoints, instanceHelpers, cleared, failed, call,
                     siteInfos, m_DisableBreakpointTracking>>
    BY DEF AttachDenied, AttachFails, env, registries, debugger, history
<1>3. phase'[e] = to /\ step[e] = "rest" /\ step'[e] = "rest"
    BY <1>1, <1>2 DEF EnginesTyped, EngineOK, StepFitsPhase
<1>4. EnginesTyped'
    BY <1>1, <1>2 DEF EnginesTyped, Phases
<1>5. EngineOK(e)'
    BY <1>1, <1>2, <1>3
       DEF EngineOK, InstancesOf, OwnsInstances, Owns, StepFitsPhase, SiteFitsStep,
           PassedBegan, Had, AtUnregister, Attaching, Removing, Injecting
<1>6. step'[e] # "start" /\ DOMAIN siteInfos' \cap broken = {}
      /\ (~failed' => ~m_DisableBreakpointTracking')
    BY <1>1, <1>2, <1>3 DEF SitesParse, Tracking
<1>7. \A f \in Engines : f # e => phase'[f] = phase[f]
    BY <1>1, <1>2 DEF EnginesTyped
<1> QED
    BY <1>2, <1>4, <1>5, <1>6, <1>7, LocalStep

\* Attach begins with the loop over the system scripts.
LEMMA AttachStepOK == ASSUME CoreInv, NEW e \in Engines, Attach(e) PROVE CoreInv'
<1>1. EngineOK(e) /\ EnginesTyped /\ SitesParse /\ Tracking
    BY DEF CoreInv
<1>2. /\ phase[e] = "new" /\ phase' = [phase EXCEPT ![e] = "system"]
      /\ step' = [step EXCEPT ![e] = "lock"]
      /\ UNCHANGED <<left, current, m_ScriptInstances, broken, instances, site,
                     m_LastId, set, m_Breakpoints, instanceHelpers, cleared, failed, call,
                     siteInfos, m_DisableBreakpointTracking>>
    BY DEF Attach, Go, env, debugger, history
<1>3. phase'[e] = "system" /\ step[e] = "rest" /\ step'[e] = "lock"
    BY <1>1, <1>2 DEF EnginesTyped, EngineOK, StepFitsPhase
<1>4. EnginesTyped'
    BY <1>1, <1>2 DEF EnginesTyped, Phases, Steps
<1>5. EngineOK(e)'
    BY <1>1, <1>2, <1>3
       DEF EngineOK, InstancesOf, OwnsInstances, Owns, StepFitsPhase, SiteFitsStep,
           PassedBegan, Had, AtUnregister, Attaching, Removing, Injecting
<1>6. step'[e] # "start" /\ DOMAIN siteInfos' \cap broken = {}
      /\ (~failed' => ~m_DisableBreakpointTracking')
    BY <1>1, <1>2, <1>3 DEF SitesParse, Tracking
<1>7. \A f \in Engines : f # e => phase'[f] = phase[f] /\ step'[f] = step[f]
    BY <1>1, <1>2 DEF EnginesTyped
<1> QED
    BY <1>2, <1>4, <1>5, <1>6, <1>7, LocalStep

\* Detach begins with the loop over the user scripts.
LEMMA DetachStepOK == ASSUME CoreInv, NEW e \in Engines, Detach(e) PROVE CoreInv'
<1>1. EngineOK(e) /\ EnginesTyped /\ SitesParse /\ Tracking
    BY DEF CoreInv
<1>2. /\ phase[e] \in {"enabled", "stuck"} /\ phase' = [phase EXCEPT ![e] = "remove user"]
      /\ step' = [step EXCEPT ![e] = "lock"]
      /\ UNCHANGED <<left, current, m_ScriptInstances, broken, instances, site,
                     m_LastId, set, m_Breakpoints, instanceHelpers, cleared, failed, call,
                     siteInfos, m_DisableBreakpointTracking>>
    BY DEF Detach, Go, env, registries, debugger, history
<1>3. phase'[e] = "remove user" /\ step[e] = "rest" /\ step'[e] = "lock"
    BY <1>1, <1>2 DEF EnginesTyped, EngineOK, StepFitsPhase
<1>4. EnginesTyped'
    BY <1>1, <1>2 DEF EnginesTyped, Phases, Steps
<1>5. EngineOK(e)'
    BY <1>1, <1>2, <1>3
       DEF EngineOK, InstancesOf, OwnsInstances, Owns, StepFitsPhase, SiteFitsStep,
           PassedBegan, Had, AtUnregister, Attaching, Removing, Injecting
<1>6. step'[e] # "start" /\ DOMAIN siteInfos' \cap broken = {}
      /\ (~failed' => ~m_DisableBreakpointTracking')
    BY <1>1, <1>2, <1>3 DEF SitesParse, Tracking
<1>7. \A f \in Engines : f # e => phase'[f] = phase[f] /\ step'[f] = step[f]
    BY <1>1, <1>2 DEF EnginesTyped
<1> QED
    BY <1>2, <1>4, <1>5, <1>6, <1>7, LocalStep

\* With the script manager locked, the loop has all the scripts of its category to see.
LEMMA LockStep == ASSUME CoreInv, NEW e \in Engines, LockScriptManager(e) PROVE CoreInv'
<1>1. EngineOK(e) /\ EnginesTyped /\ SitesParse /\ Tracking
    BY DEF CoreInv
<1>2. /\ step[e] = "lock" /\ step' = [step EXCEPT ![e] = "loop"]
      /\ left' = [left EXCEPT ![e] = LoopScripts(e)]
      /\ UNCHANGED <<phase, current, m_ScriptInstances, broken, instances, site,
                     m_LastId, set, m_Breakpoints, instanceHelpers, cleared, failed, call,
                     siteInfos, m_DisableBreakpointTracking>>
    BY DEF LockScriptManager, At, Go, env, registries, debugger, history
<1>3. /\ step'[e] = "loop" /\ left'[e] = LoopScripts(e)
      /\ phase[e] \in {"system", "user", "remove user", "remove system"}
      /\ LoopScripts(e)' = LoopScripts(e)
    BY <1>1, <1>2 DEF EnginesTyped, EngineOK, StepFitsPhase, Phases, LoopScripts
<1>4. EnginesTyped'
    BY <1>1, <1>2, ScriptsAssumption DEF EnginesTyped, Steps, LoopScripts
<1>5. Had(e)' = Had(e) /\ AtUnregister(e) = {} /\ AtUnregister(e)' = {}
    BY <1>2, <1>3, ScriptsAssumption DEF Had, LoopScripts, AtUnregister
<1>6. EngineOK(e)'
    BY <1>1, <1>2, <1>3, <1>5
       DEF EngineOK, InstancesOf, OwnsInstances, Owns, StepFitsPhase, SiteFitsStep,
           PassedBegan, Attaching, Removing, Injecting
<1>7. step'[e] # "start" /\ DOMAIN siteInfos' \cap broken = {}
      /\ (~failed' => ~m_DisableBreakpointTracking')
    BY <1>1, <1>2, <1>3 DEF SitesParse, Tracking
<1>8. \A f \in Engines : f # e => left'[f] = left[f] /\ step'[f] = step[f]
    BY <1>1, <1>2 DEF EnginesTyped
<1> QED
    BY <1>2, <1>4, <1>6, <1>7, <1>8, LocalStep

\* A loop that is over has seen them all: the engine has, or has no more, what the next
\* phase says.
LEMMA EndLoopStep == ASSUME CoreInv, NEW e \in Engines, EndLoop(e) PROVE CoreInv'
<1>1. EngineOK(e) /\ EnginesTyped /\ SitesParse /\ Tracking
    BY DEF CoreInv
<1> DEFINE next == CASE phase[e] = "system" -> "user"
                     [] phase[e] = "user" -> "enabled"
                     [] phase[e] = "remove user" -> "remove system"
                     [] phase[e] = "remove system" -> "detached"
           to == IF phase[e] \in {"system", "remove user"} THEN "lock" ELSE "rest"
<1>2. /\ step[e] = "loop" /\ left[e] = {}
      /\ phase' = [phase EXCEPT ![e] = next]
      /\ step' = [step EXCEPT ![e] = to]
      /\ UNCHANGED <<left, current, m_ScriptInstances, broken, instances, site,
                     m_LastId, set, m_Breakpoints, instanceHelpers, cleared, failed, call,
                     siteInfos, m_DisableBreakpointTracking>>
    BY <1>1 DEF EndLoop, At, Go, env, debugger, history, EnginesTyped
<1>3. \/ phase[e] = "system" /\ phase'[e] = "user" /\ step'[e] = "lock"
      \/ phase[e] = "user" /\ phase'[e] = "enabled" /\ step'[e] = "rest"
      \/ phase[e] = "remove user" /\ phase'[e] = "remove system" /\ step'[e] = "lock"
      \/ phase[e] = "remove system" /\ phase'[e] = "detached" /\ step'[e] = "rest"
  <2>1. phase[e] \in {"system", "user", "remove user", "remove system"}
    BY <1>1, <1>2 DEF EnginesTyped, EngineOK, StepFitsPhase, Phases
  <2>2. phase'[e] = next /\ step'[e] = to
    BY <1>1, <1>2 DEF EnginesTyped
  <2> QED
    BY <2>1, <2>2
<1>4. EnginesTyped'
  <2>1. next \in Phases /\ to \in Steps
    BY <1>3, <1>1, <1>2 DEF EnginesTyped, Phases, Steps
  <2> HIDE DEF next, to
  <2> QED
    BY <1>1, <1>2, <2>1 DEF EnginesTyped
<1>8. \A f \in Engines : f # e => phase'[f] = phase[f] /\ step'[f] = step[f]
    BY <1>1, <1>2 DEF EnginesTyped
<1> HIDE DEF next, to
<1>5. AtUnregister(e) = {} /\ AtUnregister(e)' = {}
    BY <1>2, <1>3 DEF AtUnregister
<1>9. phase'[e] # "detached" => Had(e)' = Had(e)
    BY <1>2, <1>3, ScriptsAssumption DEF Had
<1>10. phase'[e] = "detached" => Had(e)' = Had(e)
    BY <1>2, <1>3 DEF Had
<1>6. EngineOK(e)'
  <2>1. InstancesOf(e)' /\ OwnsInstances(e)'
    BY <1>1, <1>2, <1>3, <1>5, <1>9, <1>10 DEF EngineOK, InstancesOf, OwnsInstances, Owns
  <2>2. StepFitsPhase(e)' /\ SiteFitsStep(e)'
    BY <1>3 DEF StepFitsPhase, SiteFitsStep, Attaching, Removing, Injecting
  <2>3. PassedBegan(e)'
    <3> SUFFICES ASSUME phase'[e] \in {"user", "enabled"},
                        NEW s \in DOMAIN m_ScriptInstances[e]
                 PROVE  s \notin broken /\ site[m_ScriptInstances[e][s]] \in Ran
      BY <1>2, <1>3 DEF PassedBegan, Attaching
    <3> QED
      BY <1>1, <1>2, <1>3 DEF EngineOK, PassedBegan, Attaching, Injecting
  <2> QED
    BY <2>1, <2>2, <2>3 DEF EngineOK
<1>7. step'[e] # "start" /\ DOMAIN siteInfos' \cap broken = {}
      /\ (~failed' => ~m_DisableBreakpointTracking')
    BY <1>1, <1>2, <1>3 DEF SitesParse, Tracking
<1> QED
    BY <1>2, <1>4, <1>6, <1>7, <1>8, LocalStep

----------------------------------------------------------------------------
\* The steps of InjectScript.

\* From one step of InjectScript to another.
LEMMA NextInjecting ==
    ASSUME CoreInv, NEW e \in Engines, step[e] \in Injecting, step'[e] \in Injecting,
           UNCHANGED <<phase, left, current, m_ScriptInstances, instances, broken>>,
           \A i \in DOMAIN instances : i # current[e].id => site'[i] = site[i],
           SiteFitsStep(e)'
    PROVE  EngineOK(e)'
<1>1. EngineOK(e) /\ Attaching(e)
    BY CurrentInstance DEF CoreInv
<1>2. /\ step[e] \notin {"rest", "lock", "loop", "unregister"}
      /\ step'[e] \notin {"rest", "lock", "loop", "unregister"}
    BY DEF Injecting
<1>3. Had(e)' = Had(e) /\ AtUnregister(e) = {} /\ AtUnregister(e)' = {}
    BY <1>1, <1>2 DEF Had, AtUnregister, Attaching
<1>4. InstancesOf(e)' /\ OwnsInstances(e)'
    BY <1>1, <1>3 DEF EngineOK, InstancesOf, OwnsInstances, Owns
<1>5. StepFitsPhase(e)'
    BY <1>1, <1>2 DEF EngineOK, StepFitsPhase, Attaching, Removing, LoopScripts
<1>6. PassedBegan(e)'
  <2> SUFFICES ASSUME NEW s \in DOMAIN m_ScriptInstances[e], s # current[e].script
               PROVE  s \notin broken /\ site'[m_ScriptInstances[e][s]] \in Ran
    BY <1>1 DEF PassedBegan, Attaching
  <2>1. s \notin broken /\ site[m_ScriptInstances[e][s]] \in Ran
    BY <1>1 DEF EngineOK, PassedBegan
  <2>2. s \in DOMAIN m_ScriptInstances[e] \ AtUnregister(e)
    BY <1>3
  <2>3. m_ScriptInstances[e][s] \in DOMAIN instances /\ m_ScriptInstances[e][s] # current[e].id
    BY <2>2, OwnInstance, CurrentInstance
  <2> QED
    BY <2>1, <2>3
<1> QED
    BY <1>4, <1>5, <1>6 DEF EngineOK

\* Back to the loop, when the script has run.
LEMMA BackToLoop ==
    ASSUME CoreInv, NEW e \in Engines, step[e] \in Injecting, step'[e] = "loop",
           UNCHANGED <<phase, left, current, m_ScriptInstances, instances, broken, site>>,
           current[e].script \notin broken, site[current[e].id] \in Ran
    PROVE  EngineOK(e)'
<1>1. EngineOK(e) /\ Attaching(e)
    BY CurrentInstance DEF CoreInv
<1>2. step[e] \notin {"rest", "lock", "loop", "unregister"}
    BY DEF Injecting
<1>3. Had(e)' = Had(e) /\ AtUnregister(e) = {} /\ AtUnregister(e)' = {}
    BY <1>1, <1>2 DEF Had, AtUnregister, Attaching
<1>4. InstancesOf(e)' /\ OwnsInstances(e)'
    BY <1>1, <1>3 DEF EngineOK, InstancesOf, OwnsInstances, Owns
<1>5. StepFitsPhase(e)' /\ SiteFitsStep(e)'
    BY <1>1, <1>2
       DEF EngineOK, StepFitsPhase, SiteFitsStep, Attaching, Removing, LoopScripts, Injecting
<1>6. PassedBegan(e)'
  <2> SUFFICES ASSUME NEW s \in DOMAIN m_ScriptInstances[e]
               PROVE  s \notin broken /\ site[m_ScriptInstances[e][s]] \in Ran
    BY DEF PassedBegan
  <2>1. CASE s = current[e].script
    BY <2>1, CurrentInstance
  <2>2. CASE s # current[e].script
    BY <1>1, <2>2 DEF EngineOK, PassedBegan
  <2> QED
    BY <2>1, <2>2
<1> QED
    BY <1>4, <1>5, <1>6 DEF EngineOK

\* The script that the loop has chosen gets an instance with a new id.
LEMMA InsertStep == ASSUME CoreInv, NEW e \in Engines, InsertScriptInstance(e) PROVE CoreInv'
<1>1. EngineOK(e) /\ EnginesTyped /\ InstancesTyped /\ SitesParse /\ Tracking
    BY DEF CoreInv
<1> DEFINE id == m_LastId + 1
<1>2. PICK s \in left[e] :
          /\ step[e] = "loop" /\ Attaching(e)
          /\ left' = [left EXCEPT ![e] = @ \ {s}]
          /\ current' = [current EXCEPT ![e] = [id |-> id, script |-> s]]
          /\ instances' = Extend(instances, id, [script |-> s, engine |-> e])
          /\ m_ScriptInstances' = [m_ScriptInstances EXCEPT ![e] = Extend(@, s, id)]
          /\ m_LastId' = id
          /\ site' = Extend(site, id, "created")
          /\ set' = Extend(set, id, NoBreakpoints)
          /\ step' = [step EXCEPT ![e] = "wake"]
          /\ UNCHANGED <<broken, phase, instanceHelpers, siteInfos, m_Breakpoints, call,
                         m_DisableBreakpointTracking, cleared, failed>>
    BY DEF InsertScriptInstance, At, Go, env, debugger, history
<1>3. id \in Nat /\ id \notin DOMAIN instances /\ id \in 1 .. id /\ 1 .. m_LastId \subseteq 1 .. id
    BY <1>1 DEF InstancesTyped
<1>4. DOMAIN site = DOMAIN instances /\ DOMAIN set = DOMAIN instances
    BY <1>1 DEF InstancesTyped
<1>5. /\ DOMAIN instances' = DOMAIN instances \cup {id}
      /\ instances'[id] = [script |-> s, engine |-> e] /\ site'[id] = "created"
      /\ set'[id] = NoBreakpoints
      /\ \A i \in DOMAIN instances :
             instances'[i] = instances[i] /\ site'[i] = site[i] /\ set'[i] = set[i]
    BY <1>2, <1>3, <1>4 DEF Extend
<1>6. /\ step'[e] = "wake" /\ left'[e] = left[e] \ {s} /\ phase'[e] = phase[e]
      /\ current'[e] = [id |-> id, script |-> s]
      /\ m_ScriptInstances'[e] = Extend(m_ScriptInstances[e], s, id)
      /\ \A f \in Engines : f # e =>
             /\ step'[f] = step[f] /\ left'[f] = left[f] /\ current'[f] = current[f]
             /\ m_ScriptInstances'[f] = m_ScriptInstances[f]
    BY <1>1, <1>2 DEF EnginesTyped
<1>7. s \in LoopScripts(e) /\ left[e] \subseteq LoopScripts(e) /\ s \in ScriptIds
    BY <1>1, <1>2, ScriptsAssumption DEF EngineOK, StepFitsPhase, EnginesTyped
<1>8. EnginesTyped'
  <2>1. left[e] \ {s} \in SUBSET ScriptIds /\ "wake" \in Steps
    BY <1>1 DEF EnginesTyped, Steps, Injecting
  <2> QED
    BY <1>1, <1>2, <2>1 DEF EnginesTyped
<1>9. InstancesTyped'
  <2>1. NoBreakpoints \in [Positions -> BreakpointStates]
    BY DEF NoBreakpoints, BreakpointStates
  <2>2. instances' \in [DOMAIN instances' -> [script : ScriptIds, engine : Engines]]
    BY <1>1, <1>2, <1>5, <1>7 DEF InstancesTyped, Extend
  <2>3. site' \in [DOMAIN instances' -> SiteStates]
    BY <1>1, <1>2, <1>4, <1>5 DEF InstancesTyped, Extend, SiteStates
  <2>4. set' \in [DOMAIN instances' -> [Positions -> BreakpointStates]]
    BY <1>1, <1>2, <1>4, <1>5, <2>1 DEF InstancesTyped, Extend
  <2> QED
    BY <1>1, <1>2, <1>3, <1>5, <2>2, <2>3, <2>4 DEF InstancesTyped
<1> HIDE DEF id
<1>10. EngineOK(e)'
  <2>1. /\ Had(e)' = Had(e) \cup {s} /\ s \notin Had(e) /\ LoopScripts(e)' = LoopScripts(e)
        /\ AtUnregister(e) = {} /\ AtUnregister(e)' = {}
    BY <1>2, <1>6, <1>7, ScriptsAssumption DEF Had, Attaching, AtUnregister, LoopScripts
  <2> DEFINE had == DOMAIN m_ScriptInstances[e]
  <2>2. had \subseteq Had(e) /\ s \notin had
    BY <1>1, <1>2, <2>1 DEF EngineOK, InstancesOf, Attaching
  <2>3. /\ DOMAIN m_ScriptInstances'[e] = had \cup {s} /\ m_ScriptInstances'[e][s] = id
        /\ \A r \in had : m_ScriptInstances'[e][r] = m_ScriptInstances[e][r]
    BY <1>6, <2>2 DEF Extend
  <2>4. \A r \in had : m_ScriptInstances[e][r] \in DOMAIN instances
    BY <2>1, <2>2, OwnInstance
  <2>5. InstancesOf(e)'
    BY <2>1, <2>2, <2>3 DEF InstancesOf
  <2>6. OwnsInstances(e)'
    BY <1>1, <1>5, <2>1, <2>2, <2>3, <2>4 DEF EngineOK, OwnsInstances, Owns
  <2>7. StepFitsPhase(e)'
    <3>1. phase'[e] \in {"system", "user"}
      BY <1>2, <1>6 DEF Attaching
    <3>2. left'[e] \subseteq LoopScripts(e) /\ current'[e].script \in LoopScripts(e) \ left'[e]
      BY <1>6, <1>7
    <3>3. LoopScripts(e)' = LoopScripts(e) /\ step'[e] = "wake"
      BY <2>1, <1>6
    <3> QED
      BY <3>1, <3>2, <3>3 DEF StepFitsPhase, Attaching, Injecting
  <2>8. SiteFitsStep(e)'
    BY <1>6, <2>3 DEF SiteFitsStep
  <2>9. PassedBegan(e)'
    <3>2. step'[e] \in Injecting /\ current'[e].script = s
      BY <1>6 DEF Injecting
    <3> SUFFICES ASSUME NEW r \in had
                 PROVE  r \notin broken' /\ site'[m_ScriptInstances'[e][r]] \in Ran
      BY <2>3, <3>2 DEF PassedBegan
    <3>1. r \notin broken /\ site[m_ScriptInstances[e][r]] \in Ran
      BY <1>1, <1>2 DEF EngineOK, PassedBegan, Injecting
    <3> QED
      BY <1>2, <1>5, <2>3, <2>4, <3>1
  <2> QED
    BY <2>5, <2>6, <2>7, <2>8, <2>9 DEF EngineOK
<1>11. \A f \in Engines : EngineOK(f)'
  <2> SUFFICES ASSUME NEW f \in Engines, f # e PROVE EngineOK(f)'
    BY <1>10
  <2> QED
    BY <1>2, <1>5, <1>6, OtherEngine
<1>12. SitesParse' /\ Tracking'
    BY <1>1, <1>2 DEF SitesParse, Tracking
<1>13. StartedHaveHelpers'
    BY <1>2, <1>5 DEF CoreInv, StartedHaveHelpers, Ran
<1>14. ~failed' => BegunMatch'
  <2> SUFFICES ASSUME ~failed, NEW i \in DOMAIN instances' \ cleared, Begun(i)'
               PROVE  Matches(i)'
    BY <1>2 DEF BegunMatch
  <2>1. \A f \in Engines : step'[f] = "start" => step[f] = "start" /\ current'[f] = current[f]
    BY <1>6
  <2>2. ASSUME NEW f \in Engines, step'[f] = "start" PROVE current'[f].id \in DOMAIN instances
    BY <2>1, <2>2, CurrentInstance DEF Injecting
  <2>3. i # id
    BY <1>3, <1>5, <2>2 DEF Begun, Ran
  <2>4. i \in DOMAIN instances /\ Begun(i)
    BY <1>5, <2>1, <2>3 DEF Begun
  <2> QED
    BY <1>2, <1>5, <2>4 DEF CoreInv, BegunMatch, Matches
<1>15. CallFits'
  <2> SUFFICES ASSUME call # NoCall PROVE CallFits'
    BY <1>2 DEF CallFits
  <2>1. CallFits
    BY DEF CoreInv
  <2>2. call.id \in 0 .. id /\ call.id # id
    BY <1>1, <2>1 DEF CallFits, InstancesTyped, id
  <2> QED
    BY <1>2, <1>5, <2>1, <2>2 DEF CallFits
<1> QED
    BY <1>8, <1>9, <1>11, <1>12, <1>13, <1>14, <1>15 DEF CoreInv

\* What a step of InjectScript leaves to show, if it stays in InjectScript.
LEMMA InjectMoves ==
    ASSUME CoreInv, NEW e \in Engines, NEW to \in Injecting, step[e] \in Injecting,
           step' = [step EXCEPT ![e] = to],
           UNCHANGED <<phase, left, current, m_ScriptInstances, instances, broken, siteInfos>>,
           \A i \in DOMAIN instances : i # current[e].id => site'[i] = site[i],
           instanceHelpers \subseteq instanceHelpers',
           SiteFitsStep(e)'
    PROVE  EnginesTyped' /\ SitesParse' /\ \A f \in Engines : EngineOK(f)'
<1>1. EnginesTyped /\ SitesParse
    BY DEF CoreInv
<1>2. step'[e] \in Injecting /\ \A f \in Engines : f # e => step'[f] = step[f]
    BY <1>1 DEF EnginesTyped
<1>3. EngineOK(e)'
    BY <1>2, NextInjecting
<1>4. ASSUME NEW f \in Engines, f # e PROVE EngineOK(f)'
  <2>1. \A i \in DOMAIN instances : instances[i].engine = f => site'[i] = site[i]
    BY <1>4, CurrentInstance
  <2> QED
    BY <1>2, <1>4, <2>1, OtherEngine
<1>5. to \in Steps
    BY DEF Steps
<1> QED
    BY <1>1, <1>3, <1>4, <1>5 DEF EnginesTyped, SitesParse

\* The dummy script of a halted debugger changes no breakpoint of an instance.
LEMMA WakeStep == ASSUME CoreInv, NEW e \in Engines, WakeDebugger(e) PROVE CoreInv'
<1>1. EnginesTyped /\ SitesParse /\ Tracking
    BY DEF CoreInv
<1>2. /\ step[e] = "wake" /\ step' = [step EXCEPT ![e] = "init"]
      /\ m_DisableBreakpointTracking' => m_DisableBreakpointTracking
      /\ UNCHANGED <<phase, left, current, m_ScriptInstances, broken, instances, site,
                     m_LastId, set, m_Breakpoints, instanceHelpers, cleared, failed, call,
                     siteInfos>>
    BY DEF WakeDebugger, At, Go, env, registries, history
<1>3. /\ step[e] \in Injecting /\ "init" \in Injecting /\ step'[e] = "init"
      /\ \A f \in Engines : f # e => step'[f] = step[f]
    BY <1>1, <1>2 DEF Injecting, EnginesTyped
<1>4. SiteFitsStep(e)'
    BY <1>2, <1>3, CurrentInstance DEF SiteFitsStep
<1>5. EnginesTyped' /\ SitesParse' /\ \A f \in Engines : EngineOK(f)'
    BY <1>2, <1>3, <1>4, InjectMoves
<1>6. EnginesTyped' /\ EngineOK(e)' /\ DOMAIN siteInfos' \cap broken = {}
      /\ step'[e] # "start" /\ (~failed' => ~m_DisableBreakpointTracking')
    BY <1>1, <1>2, <1>3, <1>5 DEF Tracking, SitesParse
<1> QED
    BY <1>2, <1>3, <1>6, LocalStep

\* A script that cannot be started has been started as far as its site goes.
\* A script that does not run has begun all the same.
LEMMA StopsStep == ASSUME CoreInv, NEW e \in Engines, ScriptStops(e) PROVE CoreInv'
<1> DEFINE id == current[e].id
<1>1. EngineOK(e) /\ EnginesTyped /\ InstancesTyped /\ SitesParse /\ Tracking
    BY DEF CoreInv
<1>2. /\ step[e] = "running" /\ step' = [step EXCEPT ![e] = "not run"]
      /\ site' = [site EXCEPT ![id] = "stopped"]
      /\ UNCHANGED <<phase, left, current, m_ScriptInstances, broken, instances,
                     instanceHelpers, m_LastId, set, m_Breakpoints, cleared, failed, call,
                     siteInfos, m_DisableBreakpointTracking>>
    BY DEF ScriptStops, At, Go, env, registries, debugger
<1>3. /\ step[e] \in Injecting /\ "not run" \in Injecting /\ step'[e] = "not run"
      /\ \A f \in Engines : f # e => step'[f] = step[f]
    BY <1>1, <1>2 DEF Injecting, EnginesTyped
<1>4. id \in DOMAIN instances /\ DOMAIN site = DOMAIN instances /\ site[id] = "started"
    BY <1>1, <1>2, <1>3, CurrentInstance DEF InstancesTyped, EngineOK, SiteFitsStep
<1>5. site'[id] = "stopped" /\ \A i \in DOMAIN instances : i # id => site'[i] = site[i]
    BY <1>2, <1>4
<1>6. SiteFitsStep(e)'
    BY <1>2, <1>3, <1>5, CurrentInstance DEF SiteFitsStep, Ran
<1>7. EnginesTyped' /\ SitesParse' /\ \A f \in Engines : EngineOK(f)'
    BY <1>2, <1>3, <1>5, <1>6, InjectMoves
<1>8. InstancesTyped'
    BY <1>1, <1>2 DEF InstancesTyped, SiteStates
<1>9. \A i \in DOMAIN instances : site'[i] \in Ran => site[i] \in Ran
    BY <1>4, <1>5 DEF Ran
<1>10. Tracking' /\ StartedHaveHelpers' /\ CallFits'
    BY <1>2, <1>9 DEF CoreInv, Tracking, StartedHaveHelpers, CallFits
<1>11. ASSUME ~failed, NEW i \in DOMAIN instances \ cleared, Begun(i)' PROVE Matches(i)'
  <2>1. Begun(i)
    BY <1>2, <1>3, <1>9, <1>11 DEF Begun
  <2> QED
    BY <1>2, <1>11, <2>1 DEF CoreInv, BegunMatch, Matches
<1> QED
    BY <1>2, <1>7, <1>8, <1>10, <1>11 DEF CoreInv, BegunMatch

\* CreateInstanceDebugHelper disturbs none of it: the instance has not been begun.
LEMMA HelperStep ==
    ASSUME CoreInv, NEW e \in Engines, CreateInstanceDebugHelper(e) PROVE CoreInv'
<1> DEFINE id == current[e].id
<1>1. EngineOK(e) /\ EnginesTyped /\ InstancesTyped /\ SitesParse /\ Tracking
    BY DEF CoreInv
<1>2. /\ step[e] = "init" /\ step' = [step EXCEPT ![e] = "parse"]
      /\ instanceHelpers' = instanceHelpers \cup {id}
      /\ UNCHANGED <<phase, left, current, m_ScriptInstances, broken, instances, site,
                     m_LastId, set, m_Breakpoints, cleared, failed, call,
                     siteInfos, m_DisableBreakpointTracking>>
    BY DEF CreateInstanceDebugHelper, At, Go, env, debugger, history
<1>3. /\ step[e] \in Injecting /\ "parse" \in Injecting /\ step'[e] = "parse"
      /\ \A f \in Engines : f # e => step'[f] = step[f]
    BY <1>1, <1>2 DEF Injecting, EnginesTyped
<1>4. SiteFitsStep(e)' /\ id \in DOMAIN instances
    BY <1>2, <1>3, CurrentInstance DEF SiteFitsStep
<1>5. EnginesTyped' /\ SitesParse' /\ \A f \in Engines : EngineOK(f)'
    BY <1>2, <1>3, <1>4, InjectMoves
<1>6. InstancesTyped' /\ Tracking' /\ StartedHaveHelpers' /\ CallFits'
    BY <1>1, <1>2, <1>4
       DEF CoreInv, InstancesTyped, Tracking, StartedHaveHelpers, CallFits
<1>7. ASSUME ~failed, NEW i \in DOMAIN instances \ cleared, Begun(i)' PROVE Matches(i)'
  <2>1. Begun(i)
    BY <1>2, <1>3, <1>7 DEF Begun
  <2> QED
    BY <1>2, <1>7, <2>1 DEF CoreInv, BegunMatch, Matches
<1> QED
    BY <1>2, <1>5, <1>6, <1>7 DEF CoreInv, BegunMatch

\* The site is parsed, or the script is one that does not parse.
LEMMA ParseStep == ASSUME CoreInv, NEW e \in Engines, ParseScriptText(e) PROVE CoreInv'
<1> DEFINE id == current[e].id
           to == IF current[e].script \in broken THEN "not run" ELSE "run"
<1>1. EngineOK(e) /\ EnginesTyped /\ InstancesTyped /\ SitesParse /\ Tracking
    BY DEF CoreInv
<1>2. /\ step[e] = "parse" /\ step' = [step EXCEPT ![e] = to]
      /\ site' = IF current[e].script \in broken THEN site
                 ELSE [site EXCEPT ![id] = "parsed"]
      /\ UNCHANGED <<phase, left, current, m_ScriptInstances, broken, instances,
                     instanceHelpers, m_LastId, set, m_Breakpoints, cleared, failed, call,
                     siteInfos, m_DisableBreakpointTracking>>
    BY DEF ParseScriptText, At, Go, env, registries, debugger, history
<1>3. /\ step[e] \in Injecting /\ to \in Injecting /\ step'[e] = to /\ to # "start"
      /\ \A f \in Engines : f # e => step'[f] = step[f]
    BY <1>1, <1>2 DEF Injecting, EnginesTyped
<1>4. id \in DOMAIN instances /\ DOMAIN site = DOMAIN instances
    BY <1>1, <1>3, CurrentInstance DEF InstancesTyped
<1>5. current[e].script \notin broken => site'[id] = "parsed"
    BY <1>2, <1>4
<1>6. SiteFitsStep(e)'
  <2>1. /\ current[e].script \in DOMAIN m_ScriptInstances[e]
        /\ id = m_ScriptInstances[e][current[e].script] /\ id \in instanceHelpers
    BY <1>1, <1>2, <1>3, CurrentInstance DEF EngineOK, SiteFitsStep
  <2>2. CASE current[e].script \in broken
    <3>1. step'[e] = "not run" /\ current' = current
          /\ m_ScriptInstances' = m_ScriptInstances /\ broken' = broken
      BY <1>2, <1>3, <2>2
    <3> QED
      BY <2>1, <2>2, <3>1 DEF SiteFitsStep
  <2>3. CASE current[e].script \notin broken
    <3>1. step'[e] = "run" /\ current' = current /\ instanceHelpers' = instanceHelpers
          /\ m_ScriptInstances' = m_ScriptInstances /\ broken' = broken
      BY <1>2, <1>3, <2>3
    <3> QED
      BY <1>5, <2>1, <2>3, <3>1 DEF SiteFitsStep
  <2> QED
    BY <2>2, <2>3
<1>7. \A i \in DOMAIN instances : i # id => site'[i] = site[i]
    BY <1>2, <1>4
<1> HIDE DEF to
<1>8. EnginesTyped' /\ SitesParse' /\ \A f \in Engines : EngineOK(f)'
    BY <1>2, <1>3, <1>6, <1>7, InjectMoves
<1>9. InstancesTyped'
    BY <1>1, <1>2 DEF InstancesTyped, SiteStates
<1>10. \A i \in DOMAIN instances : site'[i] \in Ran => site[i] \in Ran
    BY <1>2, <1>4 DEF Ran
<1>11. Tracking' /\ StartedHaveHelpers' /\ CallFits'
    BY <1>2, <1>10 DEF CoreInv, Tracking, StartedHaveHelpers, CallFits
<1>12. ASSUME ~failed, NEW i \in DOMAIN instances \ cleared, Begun(i)' PROVE Matches(i)'
  <2>1. Begun(i)
    BY <1>2, <1>3, <1>10, <1>12 DEF Begun
  <2> QED
    BY <1>2, <1>12, <2>1 DEF CoreInv, BegunMatch, Matches
<1> QED
    BY <1>2, <1>8, <1>9, <1>11, <1>12 DEF CoreInv, BegunMatch

\* The script is started with the breakpoints that it got in Run.
LEMMA StartStep == ASSUME CoreInv, NEW e \in Engines, StartScript(e) PROVE CoreInv'
<1> DEFINE id == current[e].id
<1>1. EngineOK(e) /\ EnginesTyped /\ InstancesTyped /\ SitesParse /\ Tracking
    BY DEF CoreInv
<1>2. /\ step[e] = "start" /\ step' = [step EXCEPT ![e] = "running"]
      /\ site' = [site EXCEPT ![id] = "started"]
      /\ UNCHANGED <<phase, left, current, m_ScriptInstances, broken, instances,
                     instanceHelpers, m_LastId, set, m_Breakpoints, cleared, failed, call,
                     siteInfos, m_DisableBreakpointTracking>>
    BY DEF StartScript, At, Go, env, registries, debugger, history
<1>3. /\ step[e] \in Injecting /\ "running" \in Injecting /\ step'[e] = "running"
      /\ \A f \in Engines : f # e => step'[f] = step[f]
    BY <1>1, <1>2 DEF Injecting, EnginesTyped
<1>4. id \in DOMAIN instances /\ DOMAIN site = DOMAIN instances
    BY <1>1, <1>3, CurrentInstance DEF InstancesTyped
<1>5. site'[id] = "started" /\ \A i \in DOMAIN instances : i # id => site'[i] = site[i]
    BY <1>2, <1>4
<1>6. SiteFitsStep(e)' /\ id \in instanceHelpers
    BY <1>1, <1>2, <1>3, <1>5, CurrentInstance DEF EngineOK, SiteFitsStep
<1>7. EnginesTyped' /\ SitesParse' /\ \A f \in Engines : EngineOK(f)'
    BY <1>2, <1>3, <1>5, <1>6, InjectMoves
<1>8. InstancesTyped'
    BY <1>1, <1>2 DEF InstancesTyped, SiteStates
<1>9. Tracking' /\ StartedHaveHelpers' /\ CallFits'
    BY <1>2, <1>5, <1>6 DEF CoreInv, Tracking, StartedHaveHelpers, CallFits
<1>10. ASSUME ~failed, NEW i \in DOMAIN instances \ cleared, Begun(i)' PROVE Matches(i)'
  <2>1. Begun(i)
    BY <1>2, <1>3, <1>5, <1>10 DEF Begun
  <2> QED
    BY <1>2, <1>10, <2>1 DEF CoreInv, BegunMatch, Matches
<1> QED
    BY <1>2, <1>7, <1>8, <1>9, <1>10 DEF CoreInv, BegunMatch

\* The breakpoints of the script are applied to the new instance, and to no other.
LEMMA RunStep == ASSUME CoreInv, NEW e \in Engines, Run(e) PROVE CoreInv'
<1> DEFINE id == current[e].id
           bps == m_Breakpoints[current[e].script]
<1>1. EngineOK(e) /\ EnginesTyped /\ InstancesTyped /\ SitesParse /\ Tracking
    BY DEF CoreInv
<1>2. /\ step[e] = "run" /\ step' = [step EXCEPT ![e] = "start"]
      /\ set' = [set EXCEPT ![id] = Applied(bps, set[id])]
      /\ cleared' = cleared \ {id}
      /\ m_DisableBreakpointTracking' => m_DisableBreakpointTracking
      /\ UNCHANGED <<phase, left, current, m_ScriptInstances, broken, instances, site,
                     instanceHelpers, m_LastId, m_Breakpoints, failed, call, siteInfos>>
    BY DEF Run, At, Go, env, registries
<1>3. /\ step[e] \in Injecting /\ "start" \in Injecting /\ step'[e] = "start"
      /\ \A f \in Engines : f # e => step'[f] = step[f]
    BY <1>1, <1>2 DEF Injecting, EnginesTyped
<1>4. /\ id \in DOMAIN instances /\ DOMAIN set = DOMAIN instances
      /\ instances[id].script = current[e].script
    BY <1>1, <1>3, CurrentInstance DEF InstancesTyped
<1>5. SiteFitsStep(e)'
    BY <1>1, <1>2, <1>3, CurrentInstance DEF EngineOK, SiteFitsStep
<1>6. EnginesTyped' /\ SitesParse' /\ \A f \in Engines : EngineOK(f)'
    BY <1>2, <1>3, <1>5, InjectMoves
<1>7. current[e].script \in ScriptIds
    BY <1>1, <1>4 DEF InstancesTyped
<1>8. bps \in [Positions -> BreakpointStates] /\ set[id] \in [Positions -> BreakpointStates]
    BY <1>1, <1>4, <1>7 DEF InstancesTyped
<1>9. Applied(bps, set[id]) \in [Positions -> BreakpointStates]
    BY <1>8 DEF Applied
<1>10. InstancesTyped'
  <2> HIDE DEF bps
  <2> QED
    BY <1>1, <1>2, <1>4, <1>9 DEF InstancesTyped
<1>11. Tracking' /\ StartedHaveHelpers' /\ CallFits'
    BY <1>1, <1>2 DEF CoreInv, Tracking, StartedHaveHelpers, CallFits
<1>12. ASSUME ~failed, NEW i \in DOMAIN instances \ cleared', Begun(i)' PROVE Matches(i)'
  <2>1. CASE i = id
    BY <1>2, <1>4, <2>1 DEF Matches, Applied
  <2>2. CASE i # id
    <3>1. Begun(i) /\ i \notin cleared /\ set'[i] = set[i]
      BY <1>2, <1>3, <1>4, <1>12, <2>2 DEF Begun
    <3> QED
      BY <1>2, <1>12, <3>1 DEF CoreInv, BegunMatch, Matches
  <2> QED
    BY <2>1, <2>2
<1> QED
    BY <1>2, <1>6, <1>10, <1>11, <1>12 DEF CoreInv, BegunMatch

\* A script that has a site info already is one that parses.
LEMMA RegisterStep ==
    ASSUME CoreInv, NEW e \in Engines, RegisterScriptInstance(e) PROVE CoreInv'
<1>1. EngineOK(e) /\ EnginesTyped /\ SitesParse /\ Tracking
    BY DEF CoreInv
<1> DEFINE there == current[e].script \in DOMAIN siteInfos
           to == IF there THEN "loop" ELSE "add site"
<1>2. /\ step[e] \in {"running", "not run"} /\ step' = [step EXCEPT ![e] = to]
      /\ DOMAIN siteInfos' = DOMAIN siteInfos
      /\ UNCHANGED <<phase, left, current, m_ScriptInstances, broken, instances, site,
                     m_LastId, set, m_Breakpoints, instanceHelpers, cleared, failed, call,
                     m_DisableBreakpointTracking>>
    BY DEF RegisterScriptInstance, At, Go, env, debugger, history
<1>3. /\ step[e] \in Injecting /\ step'[e] = to
      /\ \A f \in Engines : f # e => step'[f] = step[f]
    BY <1>1, <1>2 DEF Injecting, EnginesTyped
<1>4. current[e].script \notin broken => site[current[e].id] \in Ran
    BY <1>1, <1>2, <1>3 DEF EngineOK, SiteFitsStep, Ran
<1>5. EngineOK(e)'
  <2>1. CASE there
    <3>1. current[e].script \notin broken
      BY <1>1, <2>1 DEF SitesParse
    <3> QED
      BY <1>2, <1>3, <1>4, <2>1, <3>1, BackToLoop
  <2>2. CASE ~there
    <3>1. step'[e] \in Injecting /\ step'[e] = "add site"
      BY <1>3, <2>2 DEF Injecting
    <3>2. SiteFitsStep(e)'
      BY <1>2, <1>3, <1>4, <3>1, CurrentInstance DEF SiteFitsStep
    <3> QED
      BY <1>2, <1>3, <3>1, <3>2, NextInjecting
  <2> QED
    BY <2>1, <2>2
<1>6. EnginesTyped' /\ step'[e] # "start"
  <2>1. to \in Steps /\ to # "start"
    BY DEF Steps, Injecting
  <2> HIDE DEF to
  <2> QED
    BY <1>1, <1>2, <1>3, <2>1 DEF EnginesTyped
<1>7. DOMAIN siteInfos' \cap broken = {} /\ (~failed' => ~m_DisableBreakpointTracking')
    BY <1>1, <1>2 DEF Tracking, SitesParse
<1> HIDE DEF to
<1> QED
    BY <1>2, <1>3, <1>5, <1>6, <1>7, LocalStep

\* The script of a new site info is one that parses.
LEMMA AddSiteStep == ASSUME CoreInv, NEW e \in Engines, AddSite(e) PROVE CoreInv'
<1>1. EngineOK(e) /\ EnginesTyped /\ SitesParse /\ Tracking
    BY DEF CoreInv
<1>2. /\ step[e] = "add site" /\ step' = [step EXCEPT ![e] = "loop"]
      /\ current[e].script \notin broken
      /\ siteInfos' = Extend(siteInfos, current[e].script, BagAdd(Nothing, current[e].id))
      /\ UNCHANGED <<phase, left, current, m_ScriptInstances, broken, instances, site,
                     m_LastId, set, m_Breakpoints, instanceHelpers, cleared, failed, call,
                     m_DisableBreakpointTracking>>
    BY DEF AddSite, At, Go, env, debugger, history
<1>3. /\ step[e] \in Injecting /\ step'[e] = "loop"
      /\ \A f \in Engines : f # e => step'[f] = step[f]
    BY <1>1, <1>2 DEF Injecting, EnginesTyped
<1>4. site[current[e].id] \in Ran
    BY <1>1, <1>2, <1>3 DEF EngineOK, SiteFitsStep
<1>5. EngineOK(e)'
    BY <1>2, <1>3, <1>4, BackToLoop
<1>6. EnginesTyped' /\ step'[e] # "start"
    BY <1>1, <1>2, <1>3 DEF EnginesTyped, Steps
<1>7. DOMAIN siteInfos' \cap broken = {}
    BY <1>1, <1>2 DEF SitesParse, Extend
<1>8. ~failed' => ~m_DisableBreakpointTracking'
    BY <1>1, <1>2 DEF Tracking
<1> QED
    BY <1>2, <1>3, <1>5, <1>6, <1>7, <1>8, LocalStep

\* An engine that threw has no step to take; its instance may be left half closed, and the
\* other engines' are not touched.
LEMMA ThrowStep ==
    ASSUME CoreInv, NEW e \in Engines, Throw(e),
           step[e] \in Injecting \/ (step[e] = "loop" /\ Removing(e))
               \/ (step[e] = "loop" /\ Attaching(e)),
           failed => failed', ~failed' => ~m_DisableBreakpointTracking',
           site' \in [DOMAIN instances -> SiteStates], instanceHelpers' \subseteq DOMAIN instances,
           \A i \in DOMAIN instances : instances[i].engine # e =>
               /\ site'[i] = site[i]
               /\ i \in instanceHelpers => i \in instanceHelpers',
           \A i \in DOMAIN instances : site'[i] \in Ran =>
               site[i] \in Ran /\ (i \in instanceHelpers => i \in instanceHelpers')
    PROVE  CoreInv'
<1>1. EngineOK(e) /\ EnginesTyped /\ InstancesTyped /\ SitesParse
    BY DEF CoreInv
<1>2. PICK to \in {"failed", "stuck"} :
      /\ phase' = [phase EXCEPT ![e] = to] /\ step' = [step EXCEPT ![e] = "rest"]
      /\ left' = [left EXCEPT ![e] = {}]
      /\ UNCHANGED <<current, m_ScriptInstances, broken, instances, m_LastId, set,
                     m_Breakpoints, cleared, call, siteInfos>>
    BY DEF Throw, Go, env
<1>3. /\ phase'[e] = to /\ step'[e] = "rest"
      /\ \A f \in Engines : f # e =>
             phase'[f] = phase[f] /\ step'[f] = step[f] /\ left'[f] = left[f]
    BY <1>1, <1>2 DEF EnginesTyped
<1>4. EnginesTyped'
    BY <1>1, <1>2 DEF EnginesTyped, Phases, Steps
<1>5. EngineOK(e)'
  <2>1. AtUnregister(e) = {} /\ AtUnregister(e)' = {}
    BY <1>3 DEF AtUnregister, Injecting
  <2>2. phase[e] # "failed" /\ Had(e) \subseteq ScriptIds
    BY <1>1, ScriptsAssumption DEF EngineOK, StepFitsPhase, EnginesTyped, Injecting, Had
  <2>3. InstancesOf(e)' /\ OwnsInstances(e)'
    BY <1>1, <1>2, <1>3, <2>1, <2>2 DEF EngineOK, InstancesOf, OwnsInstances, Owns, Had
  <2>4. StepFitsPhase(e)' /\ SiteFitsStep(e)' /\ PassedBegan(e)'
    BY <1>3 DEF StepFitsPhase, SiteFitsStep, PassedBegan, Attaching, Injecting
  <2> QED
    BY <2>3, <2>4 DEF EngineOK
<1>6. ASSUME NEW f \in Engines, f # e PROVE EngineOK(f)'
    BY <1>2, <1>3, <1>6, OtherEngine
<1>7. InstancesTyped' /\ SitesParse' /\ Tracking'
    BY <1>1, <1>2 DEF InstancesTyped, SitesParse, Tracking
<1>8. StartedHaveHelpers' /\ CallFits'
    BY <1>2 DEF CoreInv, StartedHaveHelpers, CallFits
<1>9. ASSUME ~failed', NEW i \in DOMAIN instances \ cleared, Begun(i)' PROVE Matches(i)'
  <2>1. Begun(i)
    BY <1>2, <1>3, <1>9 DEF Begun
  <2> QED
    BY <1>2, <1>9, <2>1 DEF CoreInv, BegunMatch, Matches
<1> QED
    BY <1>2, <1>4, <1>5, <1>6, <1>7, <1>8, <1>9 DEF CoreInv, BegunMatch

\* The exceptions that leave the instance as it is.
LEMMA QuietThrowStep ==
    ASSUME CoreInv, NEW e \in Engines, SiteFails(e) \/ ComFails(e) \/ RevertFails(e)
    PROVE  CoreInv'
<1>1. /\ Throw(e)
      /\ step[e] \in Injecting \/ (step[e] = "loop" /\ Removing(e))
             \/ (step[e] = "loop" /\ Attaching(e))
    BY DEF SiteFails, ComFails, RevertFails, At, Injecting, Removing
<1>2. /\ site' = site /\ instanceHelpers' = instanceHelpers /\ failed' = failed
      /\ m_DisableBreakpointTracking' = m_DisableBreakpointTracking
    BY DEF SiteFails, ComFails, RevertFails
<1>3. (failed => failed') /\ (~failed' => ~m_DisableBreakpointTracking')
  <2>1. ~failed => ~m_DisableBreakpointTracking
    BY DEF CoreInv, Tracking
  <2> QED
    BY <1>2, <2>1, Zenon
<1>4. site' \in [DOMAIN instances -> SiteStates] /\ instanceHelpers' \subseteq DOMAIN instances
    BY <1>2 DEF CoreInv, InstancesTyped
<1> QED
    BY <1>1, <1>2, <1>3, <1>4, ThrowStep

\* The exceptions of Run and of the dummy script, which may leave a helper.
LEMMA HalfBegunStep ==
    ASSUME CoreInv, NEW e \in Engines, WakeFails(e) \/ ApplyFails(e)
    PROVE  CoreInv'
<1> DEFINE id == current[e].id
<1>1. Throw(e) /\ step[e] \in Injecting
    BY DEF WakeFails, ApplyFails, At, Injecting
<1>2. /\ site' \in {site, [site EXCEPT ![id] = "parsed"]}
      /\ instanceHelpers' \in {instanceHelpers, instanceHelpers \cup {id}}
    BY DEF WakeFails, ApplyFails
<1>3. (failed => failed') /\ (~failed' => ~m_DisableBreakpointTracking')
  <2>1. CASE WakeFails(e)
    <3>1. failed' = failed /\ m_DisableBreakpointTracking' \in {FALSE, m_DisableBreakpointTracking}
      BY <2>1 DEF WakeFails
    <3>2. ~failed => ~m_DisableBreakpointTracking
      BY DEF CoreInv, Tracking
    <3>3. CASE m_DisableBreakpointTracking' = FALSE
      BY <3>1, <3>3, Zenon
    <3>4. CASE m_DisableBreakpointTracking' = m_DisableBreakpointTracking
      BY <3>1, <3>2, <3>4, Zenon
    <3> QED
      BY <3>1, <3>3, <3>4
  <2>2. CASE ApplyFails(e)
    BY <2>2 DEF ApplyFails
  <2> QED
    BY <2>1, <2>2
<1>4. id \in DOMAIN instances /\ instances[id].engine = e
    BY <1>1, CurrentInstance
<1>5. site \in [DOMAIN instances -> SiteStates] /\ instanceHelpers \subseteq DOMAIN instances
    BY DEF CoreInv, InstancesTyped
<1>6. /\ site' \in [DOMAIN instances -> SiteStates]
      /\ \A i \in DOMAIN instances : i # id => site'[i] = site[i]
      /\ site'[id] \in {site[id], "parsed"}
    BY <1>2, <1>4, <1>5 DEF SiteStates
<1>7. instanceHelpers' \subseteq DOMAIN instances /\ instanceHelpers \subseteq instanceHelpers'
    BY <1>2, <1>4, <1>5
<1>8. \A i \in DOMAIN instances : site'[i] \in Ran => site[i] \in Ran
    BY <1>6 DEF Ran
<1>9. \A i \in DOMAIN instances : instances[i].engine # e => site'[i] = site[i]
    BY <1>4, <1>6
<1> HIDE DEF id
<1> QED
    BY <1>1, <1>3, <1>6, <1>7, <1>8, <1>9, ThrowStep

----------------------------------------------------------------------------
\* The steps of Detach.

\* The instance that RemoveScript takes away is of no other engine.
LEMMA RemoveStep == ASSUME CoreInv, NEW e \in Engines, RemoveScript(e) PROVE CoreInv'
<1>1. EngineOK(e) /\ EnginesTyped /\ InstancesTyped /\ SitesParse /\ Tracking
    BY DEF CoreInv
<1>2. PICK s \in left[e] \cap DOMAIN m_ScriptInstances[e] :
          LET id == m_ScriptInstances[e][s] IN
          /\ step[e] = "loop" /\ Removing(e)
          /\ left' = [left EXCEPT ![e] = @ \ {s}]
          /\ current' = [current EXCEPT ![e] = [id |-> id, script |-> s]]
          /\ instances' = Restrict(instances, DOMAIN instances \ {id})
          /\ instanceHelpers' = instanceHelpers \ {id}
          /\ site' = Restrict(site, DOMAIN site \ {id})
          /\ set' = Restrict(set, DOMAIN set \ {id})
          /\ cleared' = cleared \ {id}
          /\ step' = [step EXCEPT ![e] = "unregister"]
          /\ UNCHANGED <<broken, phase, m_ScriptInstances, m_LastId, siteInfos,
                         m_Breakpoints, call, m_DisableBreakpointTracking, failed>>
    BY DEF RemoveScript, At, Go, env, debugger
<1> DEFINE id == m_ScriptInstances[e][s]
<1>3. /\ step'[e] = "unregister" /\ left'[e] = left[e] \ {s} /\ phase'[e] = phase[e]
      /\ current'[e].script = s
      /\ phase[e] \in {"remove user", "remove system"}
      /\ \A f \in Engines : f # e =>
             step'[f] = step[f] /\ left'[f] = left[f] /\ current'[f] = current[f]
    BY <1>1, <1>2 DEF EnginesTyped, Removing
<1>4. s \in LoopScripts(e) /\ left[e] \subseteq LoopScripts(e) /\ LoopScripts(e)' = LoopScripts(e)
    BY <1>1, <1>2, <1>3 DEF EngineOK, StepFitsPhase, LoopScripts
<1>5. /\ AtUnregister(e) = {} /\ AtUnregister(e)' = {s}
      /\ Had(e) = Had(e)' \cup {s}
    BY <1>2, <1>3, <1>4 DEF AtUnregister, Had
<1>6. DOMAIN m_ScriptInstances[e] \subseteq Had(e) /\ s \in DOMAIN m_ScriptInstances[e]
    BY <1>1, <1>2, <1>3, <1>5 DEF EngineOK, InstancesOf
<1>7. /\ id \in DOMAIN instances /\ instances[id].engine = e /\ instances[id].script = s
      /\ DOMAIN site = DOMAIN instances /\ DOMAIN set = DOMAIN instances
    BY <1>1, <1>5, <1>6, OwnInstance DEF InstancesTyped
<1>8. /\ DOMAIN instances' = DOMAIN instances \ {id}
      /\ \A i \in DOMAIN instances \ {id} :
             instances'[i] = instances[i] /\ site'[i] = site[i] /\ set'[i] = set[i]
    BY <1>2, <1>7 DEF Restrict
<1>9. EnginesTyped'
  <2>1. left[e] \ {s} \in SUBSET ScriptIds /\ "unregister" \in Steps
    BY <1>1 DEF EnginesTyped, Steps
  <2> QED
    BY <1>1, <1>2, <2>1 DEF EnginesTyped
<1>10. InstancesTyped'
    BY <1>1, <1>2, <1>7 DEF InstancesTyped, Restrict
<1>11. EngineOK(e)'
  <2>1. InstancesOf(e)'
    BY <1>2, <1>5, <1>6 DEF InstancesOf
  <2>2. OwnsInstances(e)'
    <3> SUFFICES ASSUME NEW r \in DOMAIN m_ScriptInstances[e], r # s
                 PROVE  Owns(e, r)'
      BY <1>2, <1>5 DEF OwnsInstances
    <3>1. Owns(e, r) /\ instances[m_ScriptInstances[e][r]].script = r
      BY <1>1, <1>5, OwnInstance DEF EngineOK, OwnsInstances
    <3>2. m_ScriptInstances[e][r] \in DOMAIN instances \ {id}
      BY <1>7, <3>1 DEF Owns
    <3> QED
      BY <1>2, <1>8, <3>1, <3>2 DEF Owns
  <2>3. StepFitsPhase(e)'
    <3>1. left'[e] \subseteq LoopScripts(e)' /\ current'[e].script \in LoopScripts(e)' \ left'[e]
      BY <1>3, <1>4
    <3> QED
      BY <1>3, <3>1 DEF StepFitsPhase, Attaching, Removing, Injecting
  <2>4. SiteFitsStep(e)' /\ PassedBegan(e)'
    BY <1>3 DEF SiteFitsStep, PassedBegan, Attaching, Injecting
  <2> QED
    BY <2>1, <2>2, <2>3, <2>4 DEF EngineOK
<1>12. ASSUME NEW f \in Engines, f # e PROVE EngineOK(f)'
  <2>1. \A i \in DOMAIN instances : instances[i].engine = f =>
            /\ i \in DOMAIN instances' /\ instances'[i] = instances[i]
            /\ site'[i] = site[i]
            /\ i \in instanceHelpers => i \in instanceHelpers'
    BY <1>2, <1>7, <1>8, <1>12
  <2> QED
    BY <1>2, <1>3, <1>12, <2>1, OtherEngine
<1>13. SitesParse' /\ Tracking'
    BY <1>1, <1>2 DEF SitesParse, Tracking
<1>14. StartedHaveHelpers'
    BY <1>2, <1>8 DEF CoreInv, StartedHaveHelpers
<1>15. ~failed' => BegunMatch'
  <2> SUFFICES ASSUME ~failed, NEW i \in DOMAIN instances' \ cleared', Begun(i)'
               PROVE  Matches(i)'
    BY <1>2 DEF BegunMatch
  <2>1. Begun(i)
    BY <1>3, <1>8 DEF Begun
  <2>2. i \in DOMAIN instances \ cleared /\ i # id
    BY <1>2, <1>8
  <2>3. Matches(i)
    BY <2>1, <2>2 DEF CoreInv, BegunMatch
  <2>4. instances'[i] = instances[i] /\ set'[i] = set[i] /\ m_Breakpoints' = m_Breakpoints
    BY <1>2, <1>8, <2>2
  <2> QED
    BY <2>3, <2>4 DEF Matches
<1>16. CallFits'
    BY <1>2, <1>8 DEF CoreInv, CallFits
<1> QED
    BY <1>9, <1>10, <1>11, <1>12, <1>13, <1>14, <1>15, <1>16 DEF CoreInv

\* The engine forgets the instance, which is the end of RemoveScript.
\* A turn of a loop for a script that gets no instance, or has none.
LEMMA PassByStep ==
    ASSUME CoreInv, NEW e \in Engines, InjectNothing(e) \/ RemoveNothing(e)
    PROVE  CoreInv'
<1>1. EngineOK(e) /\ EnginesTyped /\ SitesParse /\ Tracking
    BY DEF CoreInv
<1>2. PICK s \in left[e] :
          /\ step[e] = "loop"
          /\ Attaching(e) \/ (Removing(e) /\ s \notin DOMAIN m_ScriptInstances[e])
          /\ left' = [left EXCEPT ![e] = @ \ {s}]
          /\ UNCHANGED <<phase, step, current, m_ScriptInstances, broken, instances, site,
                         m_LastId, set, m_Breakpoints, instanceHelpers, cleared, failed,
                         call, siteInfos, m_DisableBreakpointTracking>>
    BY DEF InjectNothing, RemoveNothing, At, env, registries, debugger, history
<1>3. left'[e] = left[e] \ {s} /\ \A f \in Engines : f # e => left'[f] = left[f]
    BY <1>1, <1>2 DEF EnginesTyped
<1>4. EnginesTyped'
  <2>1. left[e] \ {s} \in SUBSET ScriptIds
    BY <1>1 DEF EnginesTyped
  <2> QED
    BY <1>1, <1>2, <2>1 DEF EnginesTyped
<1>5. AtUnregister(e) = {} /\ AtUnregister(e)' = {} /\ Had(e) \subseteq Had(e)' \cup {s}
      /\ (Attaching(e) => Had(e) \subseteq Had(e)')
    BY <1>2, <1>3 DEF AtUnregister, Had, Attaching
<1>6. EngineOK(e)'
  <2>1. InstancesOf(e)' /\ OwnsInstances(e)'
    BY <1>1, <1>2, <1>5 DEF EngineOK, InstancesOf, OwnsInstances, Owns
  <2>2. StepFitsPhase(e)' /\ SiteFitsStep(e)' /\ PassedBegan(e)'
    BY <1>1, <1>2, <1>3
       DEF EngineOK, StepFitsPhase, SiteFitsStep, PassedBegan, Attaching, Removing,
           Injecting, LoopScripts
  <2> QED
    BY <2>1, <2>2 DEF EngineOK
<1>7. step'[e] # "start" /\ DOMAIN siteInfos' \cap broken = {}
      /\ (~failed' => ~m_DisableBreakpointTracking')
    BY <1>1, <1>2 DEF SitesParse, Tracking
<1> QED
    BY <1>2, <1>3, <1>4, <1>6, <1>7, LocalStep

\* Done of a site that throws half-way touches no other instance.
LEMMA RemoveFailsStep == ASSUME CoreInv, NEW e \in Engines, RemoveFails(e) PROVE CoreInv'
<1>1. EngineOK(e) /\ InstancesTyped /\ Tracking
    BY DEF CoreInv
<1>2. /\ step[e] = "loop" /\ Removing(e) /\ Throw(e)
      /\ failed' = failed /\ m_DisableBreakpointTracking' = m_DisableBreakpointTracking
    BY DEF RemoveFails, At
<1>3. PICK s \in left[e] \cap DOMAIN m_ScriptInstances[e] :
          \/ UNCHANGED <<site, instanceHelpers>>
          \/ /\ site' = [site EXCEPT ![m_ScriptInstances[e][s]] = "closing"]
             /\ instanceHelpers' \in
                    {instanceHelpers, instanceHelpers \ {m_ScriptInstances[e][s]}}
    BY DEF RemoveFails
<1> DEFINE id == m_ScriptInstances[e][s]
<1>4. AtUnregister(e) = {}
    BY <1>2 DEF AtUnregister
<1>5. id \in DOMAIN instances /\ instances[id].engine = e
    BY <1>4, OwnInstance
<1>6. site \in [DOMAIN instances -> SiteStates] /\ instanceHelpers \subseteq DOMAIN instances
    BY <1>1 DEF InstancesTyped
<1>7. /\ site' \in [DOMAIN instances -> SiteStates]
      /\ instanceHelpers' \subseteq DOMAIN instances
      /\ \A i \in DOMAIN instances : i # id =>
             site'[i] = site[i] /\ (i \in instanceHelpers => i \in instanceHelpers')
      /\ UNCHANGED <<site, instanceHelpers>> \/ site'[id] = "closing"
    BY <1>3, <1>5, <1>6 DEF SiteStates
<1> HIDE DEF id
<1>8. \A i \in DOMAIN instances : site'[i] \in Ran =>
          site[i] \in Ran /\ (i \in instanceHelpers => i \in instanceHelpers')
    BY <1>7 DEF Ran
<1>9. \A i \in DOMAIN instances : instances[i].engine # e =>
          site'[i] = site[i] /\ (i \in instanceHelpers => i \in instanceHelpers')
    BY <1>5, <1>7
<1>10. (failed => failed') /\ (~failed' => ~m_DisableBreakpointTracking')
  <2>1. ~failed => ~m_DisableBreakpointTracking
    BY <1>1 DEF Tracking
  <2> QED
    BY <1>2, <2>1, Zenon
<1> QED
    BY <1>2, <1>7, <1>8, <1>9, <1>10, ThrowStep

\* UnregisterScriptInstance takes the script out of what the engine has.
LEMMA UnregisterStep ==
    ASSUME CoreInv, NEW e \in Engines, UnregisterScriptInstance(e) PROVE CoreInv'
<1> DEFINE s == current[e].script
           own == m_ScriptInstances[e]
<1>1. EngineOK(e) /\ EnginesTyped /\ SitesParse /\ Tracking
    BY DEF CoreInv
<1>2. /\ step[e] = "unregister" /\ step' = [step EXCEPT ![e] = "loop"]
      /\ m_ScriptInstances' =
             [m_ScriptInstances EXCEPT ![e] = Restrict(own, DOMAIN own \ {s})]
      /\ DOMAIN siteInfos' = DOMAIN siteInfos
      /\ UNCHANGED <<phase, left, current, broken, instances, site, m_LastId, set,
                     m_Breakpoints, instanceHelpers, cleared, failed, call,
                     m_DisableBreakpointTracking>>
    BY DEF UnregisterScriptInstance, At, Go, env, debugger, history
<1>3. /\ step'[e] = "loop" /\ m_ScriptInstances'[e] = Restrict(own, DOMAIN own \ {s})
      /\ \A f \in Engines : f # e =>
             step'[f] = step[f] /\ m_ScriptInstances'[f] = m_ScriptInstances[f]
    BY <1>1, <1>2 DEF EnginesTyped
<1>4. /\ phase[e] \in {"remove user", "remove system"}
      /\ left[e] \subseteq LoopScripts(e) /\ s \in LoopScripts(e) \ left[e]
    BY <1>1, <1>2 DEF EngineOK, StepFitsPhase, Removing
<1>5. AtUnregister(e) = {s} /\ AtUnregister(e)' = {} /\ Had(e)' = Had(e) /\ s \notin Had(e)
    BY <1>2, <1>3, <1>4 DEF AtUnregister, Had, LoopScripts
<1>6. /\ DOMAIN m_ScriptInstances'[e] = DOMAIN own \ {s}
      /\ \A r \in DOMAIN own \ {s} : m_ScriptInstances'[e][r] = own[r]
    BY <1>3 DEF Restrict
<1>7. EngineOK(e)'
  <2>1. InstancesOf(e)'
    BY <1>1, <1>4, <1>5, <1>6 DEF EngineOK, InstancesOf
  <2>2. OwnsInstances(e)'
    BY <1>1, <1>2, <1>5, <1>6 DEF EngineOK, OwnsInstances, Owns
  <2>3. StepFitsPhase(e)' /\ SiteFitsStep(e)' /\ PassedBegan(e)'
    BY <1>2, <1>3, <1>4
       DEF StepFitsPhase, SiteFitsStep, PassedBegan, Attaching, Removing, Injecting,
           LoopScripts
  <2> QED
    BY <2>1, <2>2, <2>3 DEF EngineOK
<1>8. EnginesTyped'
    BY <1>1, <1>2 DEF EnginesTyped, Steps
<1>9. step'[e] # "start" /\ DOMAIN siteInfos' \cap broken = {}
      /\ (~failed' => ~m_DisableBreakpointTracking')
    BY <1>1, <1>2, <1>3 DEF SitesParse, Tracking
<1> HIDE DEF s, own
<1> QED
    BY <1>2, <1>3, <1>7, <1>8, <1>9, LocalStep

----------------------------------------------------------------------------
\* The calls of the debugger.

\* Engines take no part in a call of the debugger.
LEMMA EnginesStay ==
    ASSUME CoreInv, UNCHANGED <<env, threads, registries, site>>
    PROVE  EnginesTyped' /\ SitesParse' /\ StartedHaveHelpers' /\ \A e \in Engines : EngineOK(e)'
<1>1. UNCHANGED <<broken, phase, step, left, current, m_ScriptInstances, instances, site,
                  instanceHelpers, siteInfos>>
    BY DEF env, threads, registries
<1>2. EnginesTyped' /\ SitesParse' /\ StartedHaveHelpers'
    BY <1>1 DEF CoreInv, EnginesTyped, SitesParse, StartedHaveHelpers
<1> QED
    BY <1>1, <1>2, OtherEngine

\* The breakpoints that are applied reach every instance that has begun.
LEMMA ApplyMatches ==
    ASSUME CoreInv, NEW bps \in [ScriptIds -> [Positions -> BreakpointStates]],
           m_Breakpoints' = bps, UNCHANGED <<env, threads, registries, site>>,
           ApplyBreakpoints(bps), ~failed'
    PROVE  BegunMatch' /\ ~m_DisableBreakpointTracking'
<1> DEFINE To == {i \in instanceHelpers : HasTracked(bps[instances[i].script])}
           Bad == {i \in To : ~HasContexts(i)}
<1>1. PICK done \in SUBSET (To \ Bad) :
          /\ Bad = {} => done = To
          /\ set' = [i \in DOMAIN set |->
                        IF i \in done THEN Applied(bps[instances[i].script], set[i])
                        ELSE set[i]]
          /\ cleared' = cleared \ done
          /\ m_DisableBreakpointTracking' = (Bad # {})
          /\ failed' = (failed \/ Bad # {})
    BY DEF ApplyBreakpoints
<1>2. Bad = {} /\ done = To /\ ~m_DisableBreakpointTracking'
    BY <1>1
<1>3. UNCHANGED <<step, current, instances, site>> /\ DOMAIN set = DOMAIN instances
    BY DEF threads, registries, CoreInv, InstancesTyped
<1>4. ASSUME NEW i \in DOMAIN instances \ cleared', Begun(i)' PROVE Matches(i)'
  <2>1. i \in instanceHelpers
    <3>1. CASE site[i] \in Ran
      BY <3>1 DEF CoreInv, StartedHaveHelpers
    <3>2. ASSUME NEW e \in Engines, step[e] = "start", current[e].id = i PROVE i \in instanceHelpers
      BY <3>2 DEF CoreInv, EngineOK, SiteFitsStep, Injecting
    <3> QED
      BY <1>3, <1>4, <3>1, <3>2 DEF Begun
  <2>2. CASE i \in To
    BY <1>1, <1>2, <1>3, <2>2 DEF Matches, Applied
  <2>3. CASE i \notin To
    <3>1. \A p \in Positions : bps[instances[i].script][p] = Absent
      BY <2>1, <2>3 DEF HasTracked
    <3> QED
      BY <1>3, <3>1 DEF Matches
  <2> QED
    BY <2>2, <2>3
<1> QED
    BY <1>2, <1>3, <1>4 DEF BegunMatch

\* The breakpoints that ApplyBreakpoints leaves are breakpoints.
LEMMA ApplyTyped ==
    ASSUME CoreInv, NEW bps \in [ScriptIds -> [Positions -> BreakpointStates]],
           ApplyBreakpoints(bps)
    PROVE  /\ set' \in [DOMAIN instances -> [Positions -> BreakpointStates]]
           /\ failed => failed'
           /\ ~failed' => ~m_DisableBreakpointTracking'
<1> DEFINE To == {i \in instanceHelpers : HasTracked(bps[instances[i].script])}
           Bad == {i \in To : ~HasContexts(i)}
<1>1. PICK done \in SUBSET (To \ Bad) :
          /\ set' = [i \in DOMAIN set |->
                        IF i \in done THEN Applied(bps[instances[i].script], set[i])
                        ELSE set[i]]
          /\ m_DisableBreakpointTracking' = (Bad # {})
          /\ failed' = (failed \/ Bad # {})
    BY DEF ApplyBreakpoints
<1>2. ASSUME NEW i \in DOMAIN instances
      PROVE  /\ set[i] \in [Positions -> BreakpointStates]
             /\ Applied(bps[instances[i].script], set[i]) \in [Positions -> BreakpointStates]
  <2>1. /\ set[i] \in [Positions -> BreakpointStates]
        /\ bps[instances[i].script] \in [Positions -> BreakpointStates]
    BY DEF CoreInv, InstancesTyped
  <2> QED
    BY <2>1 DEF Applied
<1>3. DOMAIN set = DOMAIN instances
    BY DEF CoreInv, InstancesTyped
<1>4. set' \in [DOMAIN instances -> [Positions -> BreakpointStates]]
    BY <1>1, <1>2, <1>3
<1> QED
    BY <1>1, <1>4

\* SetupBreakpoint tracks the breakpoint and brings it to the instances, or fails for good.
LEMMA SetupStep ==
    ASSUME CoreInv, NEW s \in ScriptIds, NEW p \in Positions,
           NEW state \in {ENABLED_BP, DISABLED_BP, DELETED_BP},
           SetupBreakpoint(s, p, state), UNCHANGED <<env, threads, registries, site>>
    PROVE  /\ m_Breakpoints' \in [ScriptIds -> [Positions -> BreakpointStates]]
           /\ set' \in [DOMAIN instances -> [Positions -> BreakpointStates]]
           /\ failed => failed'
           /\ ~failed' => ~m_DisableBreakpointTracking' /\ BegunMatch'
           /\ ~failed' /\ state # DELETED_BP => m_Breakpoints'[s][p] = state
<1>1. InstancesTyped /\ Tracking /\ (~failed => BegunMatch)
    BY DEF CoreInv
<1>2. UNCHANGED <<step, current, instances, site>>
    BY DEF threads, registries
<1>3. CASE /\ (m_DebugFlags /\ state = DELETED_BP) \/ m_DisableBreakpointTracking
           /\ UNCHANGED <<m_Breakpoints, m_DisableBreakpointTracking, set, history>>
  <2>1. BegunMatch => BegunMatch'
    BY <1>2, <1>3 DEF BegunMatch, Begun, Matches, history
  <2> QED
    BY <1>1, <1>3, <2>1 DEF InstancesTyped, Tracking, history
<1>4. CASE /\ state = DELETED_BP /\ ~m_DisableBreakpointTracking
           /\ m_Breakpoints' = [m_Breakpoints EXCEPT ![s][p] = Absent]
           /\ UNCHANGED <<m_DisableBreakpointTracking, set, history>>
  <2>1. m_Breakpoints' \in [ScriptIds -> [Positions -> BreakpointStates]]
    BY <1>1, <1>4 DEF InstancesTyped, BreakpointStates
  <2>2. \A r \in ScriptIds, q \in Positions :
            m_Breakpoints'[r][q] # Absent => m_Breakpoints'[r][q] = m_Breakpoints[r][q]
    BY <1>1, <1>4 DEF InstancesTyped
  <2>3. \A i \in DOMAIN instances : instances[i].script \in ScriptIds
    BY <1>1 DEF InstancesTyped
  <2>4. BegunMatch => BegunMatch'
    BY <1>2, <1>4, <2>2, <2>3 DEF BegunMatch, Begun, Matches, history
  <2> QED
    BY <1>1, <1>4, <2>1, <2>4 DEF InstancesTyped, Tracking, history
<1>5. CASE /\ state # DELETED_BP
           /\ m_Breakpoints' = [m_Breakpoints EXCEPT ![s][p] = state]
           /\ ApplyBreakpoints(m_Breakpoints')
  <2>1. m_Breakpoints' \in [ScriptIds -> [Positions -> BreakpointStates]]
    BY <1>1, <1>5 DEF InstancesTyped, BreakpointStates, ENABLED_BP, DISABLED_BP, DELETED_BP
  <2>2. m_Breakpoints'[s][p] = state
    BY <1>1, <1>5 DEF InstancesTyped
  <2>3. PICK bps \in [ScriptIds -> [Positions -> BreakpointStates]] : m_Breakpoints' = bps
    BY <2>1
  <2>4. ApplyBreakpoints(bps)
    BY <1>5, <2>3
  <2>5. /\ set' \in [DOMAIN instances -> [Positions -> BreakpointStates]]
        /\ failed => failed'
        /\ ~failed' => ~m_DisableBreakpointTracking'
    BY <2>4, ApplyTyped
  <2>6. ~failed' => BegunMatch'
    BY <2>3, <2>4, ApplyMatches
  <2> QED
    BY <2>1, <2>2, <2>5, <2>6
<1> QED
    BY <1>3, <1>4, <1>5 DEF SetupBreakpoint

\* A call of the debugger, up to its original action.
LEMMA SetBreakPointStep == ASSUME IInv, SetBreakPoint PROVE CoreInv'
<1>1. CoreInv /\ InstancesTyped /\ Tracking
    BY DEF IInv, CoreInv
<1>2. PICK context \in Contexts, p \in Positions,
           state \in {ENABLED_BP, DISABLED_BP, DELETED_BP} :
          /\ SetupBreakpoint(context.script, p, state)
          /\ call' = IF m_DisableBreakpointTracking' /\ ~m_DisableBreakpointTracking
                     THEN NoCall
                     ELSE [id |-> context.id, script |-> context.script,
                           position |-> p, state |-> state]
    BY DEF SetBreakPoint
<1>3. UNCHANGED <<env, threads, registries, site>>
    BY DEF SetBreakPoint
<1>4. UNCHANGED <<m_LastId, instances, instanceHelpers, site>>
    BY <1>3 DEF registries
<1>5. /\ context.id \in 0 .. m_LastId /\ context.script \in ScriptIds
      /\ context.id \in DOMAIN instances => instances[context.id].script = context.script
  <2>1. CASE \E i \in instanceHelpers :
                 context = [id |-> i, script |-> instances[i].script]
    BY <1>1, <2>1 DEF InstancesTyped
  <2>2. CASE \E s \in scriptHelpers : context = [id |-> NULL_SCRIPT_INSTANCE, script |-> s]
    BY <1>1, <2>2 DEF InstancesTyped, NULL_SCRIPT_INSTANCE, IInv, ScriptHelpersTyped
  <2> QED
    BY <2>1, <2>2 DEF Contexts
<1>6. /\ m_Breakpoints' \in [ScriptIds -> [Positions -> BreakpointStates]]
      /\ set' \in [DOMAIN instances -> [Positions -> BreakpointStates]]
      /\ failed => failed'
      /\ ~failed' => ~m_DisableBreakpointTracking' /\ BegunMatch'
      /\ ~failed' /\ state # DELETED_BP => m_Breakpoints'[context.script][p] = state
    BY <1>1, <1>2, <1>3, <1>5, SetupStep
<1>7. EnginesTyped' /\ SitesParse' /\ StartedHaveHelpers' /\ \A e \in Engines : EngineOK(e)'
    BY <1>1, <1>3, EnginesStay
<1>8. InstancesTyped' /\ Tracking'
    BY <1>1, <1>4, <1>6 DEF InstancesTyped, Tracking
<1>9. CallFits'
  <2> SUFFICES ASSUME call' # NoCall PROVE CallFits'
    BY DEF CallFits
  <2>1. call' = [id |-> context.id, script |-> context.script, position |-> p,
                 state |-> state]
    BY <1>2
  <2>2. /\ call'.id = context.id /\ call'.script = context.script
        /\ call'.position = p /\ call'.state = state
    BY <2>1
  <2> QED
    BY <1>4, <1>5, <1>6, <2>2 DEF CallFits
<1> QED
    BY <1>6, <1>7, <1>8, <1>9 DEF CoreInv

\* Another document than the one called follows the tracked breakpoints; the one called
\* does so too, or a breakpoint of it was deleted while the debugger was halted.
LEMMA PerformStep == ASSUME CoreInv, PerformOriginal PROVE CoreInv'
<1>1. InstancesTyped /\ Tracking /\ CallFits /\ (~failed => BegunMatch)
    BY DEF CoreInv
<1>2. /\ call # NoCall /\ call' = NoCall
      /\ UNCHANGED <<env, threads, registries, site>>
      /\ UNCHANGED <<m_Breakpoints, m_DisableBreakpointTracking, failed>>
    BY DEF PerformOriginal
<1>3. UNCHANGED <<m_LastId, instances, instanceHelpers, step, current, site>>
    BY <1>2 DEF registries, threads
<1>4. EnginesTyped' /\ SitesParse' /\ StartedHaveHelpers' /\ \A e \in Engines : EngineOK(e)'
    BY <1>2, EnginesStay
<1>5. CallFits' /\ Tracking'
    BY <1>1, <1>2 DEF CallFits, Tracking
<1> DEFINE i == call.id
           p == call.position
           new == IF call.state = DELETED_BP THEN Absent ELSE call.state
<1>6. DOMAIN set = DOMAIN instances
    BY <1>1 DEF InstancesTyped
<1>7. CASE i \notin DOMAIN set
  <2>1. UNCHANGED <<set, cleared>>
    BY <1>7 DEF PerformOriginal
  <2>2. InstancesTyped'
    BY <1>1, <1>2, <1>3, <2>1 DEF InstancesTyped
  <2>3. BegunMatch => BegunMatch'
    BY <1>2, <1>3, <2>1 DEF BegunMatch, Begun, Matches
  <2> QED
    BY <1>1, <1>2, <1>4, <1>5, <2>2, <2>3 DEF CoreInv
<1>8. CASE i \in DOMAIN set
  <2>1. /\ set' = [set EXCEPT ![i][p] = new]
        /\ cleared \subseteq cleared'
        /\ call.state = DELETED_BP /\ m_Breakpoints[call.script][p] # Absent => i \in cleared'
    BY <1>8 DEF PerformOriginal
  <2>2. /\ p \in Positions /\ new \in BreakpointStates /\ instances[i].script = call.script
        /\ ~failed /\ call.state # DELETED_BP => m_Breakpoints[call.script][p] = new
    BY <1>1, <1>2, <1>6, <1>8 DEF CallFits, BreakpointStates
  <2> HIDE DEF new
  <2>3. set \in [DOMAIN instances -> [Positions -> BreakpointStates]]
    BY <1>1 DEF InstancesTyped
  <2>4. /\ set' \in [DOMAIN instances -> [Positions -> BreakpointStates]]
        /\ set'[i][p] = new
        /\ \A q \in Positions : q # p => set'[i][q] = set[i][q]
        /\ \A j \in DOMAIN instances : j # i => set'[j] = set[j]
    BY <1>6, <1>8, <2>1, <2>2, <2>3
  <2>5. InstancesTyped'
    BY <1>1, <1>2, <1>3, <2>4 DEF InstancesTyped
  <2>6. ASSUME ~failed, NEW j \in DOMAIN instances \ cleared', Begun(j)' PROVE Matches(j)'
    <3>1. j \notin cleared /\ Begun(j)
      BY <1>3, <2>1, <2>6 DEF Begun
    <3>2. Matches(j)
      BY <1>1, <2>6, <3>1 DEF BegunMatch
    <3>3. CASE j # i
      BY <1>2, <1>3, <2>4, <3>2, <3>3 DEF Matches
    <3>4. CASE j = i
      <4>1. m_Breakpoints[instances[i].script][p] # Absent => set'[i][p] =
                m_Breakpoints[instances[i].script][p]
        BY <2>1, <2>2, <2>4, <2>6, <3>4
      <4> QED
        BY <1>2, <1>3, <2>4, <3>2, <3>4, <4>1 DEF Matches
    <3> QED
      BY <3>3, <3>4
  <2> QED
    BY <1>2, <1>3, <1>4, <1>5, <2>5, <2>6 DEF CoreInv, BegunMatch
<1> QED
    BY <1>7, <1>8

\* Neither the flag of the debugger nor its end changes anything that CoreInv is about.
LEMMA OtherSteps ==
    ASSUME CoreInv,
           UNCHANGED <<env, threads, m_ScriptInstances, instances, m_LastId,
                       instanceHelpers, site, set, m_Breakpoints,
                       m_DisableBreakpointTracking, call, history>>,
           DOMAIN siteInfos' \subseteq DOMAIN siteInfos
    PROVE  CoreInv'
<1>1. /\ UNCHANGED <<broken, phase, step, left, current>>
      /\ UNCHANGED <<cleared, failed>>
    BY DEF env, threads, history
<1>2. \A e \in Engines : EngineOK(e)'
    BY <1>1, OtherEngine
<1>3. DOMAIN siteInfos' \cap broken = {} /\ (~failed' => ~m_DisableBreakpointTracking')
    BY <1>1 DEF CoreInv, SitesParse, Tracking
<1>4. EnginesTyped'
    BY <1>1 DEF CoreInv, EnginesTyped
<1>5. /\ InstancesTyped' /\ SitesParse' /\ StartedHaveHelpers' /\ Tracking' /\ CallFits'
      /\ ~failed' => BegunMatch'
    BY <1>1, <1>3, BreakpointsStay
<1> QED
    BY <1>2, <1>4, <1>5 DEF CoreInv

----------------------------------------------------------------------------
\* The inductive invariant holds at the start ...
LEMMA InitHolds == Init => IInv
    BY InitCoreInv DEF IInv, Init, ScriptHelpersTyped

\* ... and every step keeps it: what it says of engines, instances and breakpoints,
LEMMA CoreInvKept == IInv /\ [Next]_vars => CoreInv'
<1> SUFFICES ASSUME IInv, [Next]_vars PROVE CoreInv'
    OBVIOUS
<1> USE DEF IInv
<1>1. ASSUME NEW e \in Engines, AttachStep(e) PROVE CoreInv'
    BY <1>1, AttachDeniedStep, AttachStepOK, InsertStep, WakeStep, HelperStep, ParseStep,
       RunStep, StartStep, StopsStep, RegisterStep, AddSiteStep, PassByStep,
       QuietThrowStep, HalfBegunStep
       DEF AttachStep
<1>2. ASSUME NEW e \in Engines, DetachStep(e) PROVE CoreInv'
    BY <1>2, DetachStepOK, RemoveStep, PassByStep, UnregisterStep, RemoveFailsStep,
       QuietThrowStep
       DEF DetachStep
<1>3. ASSUME NEW e \in Engines, LockScriptManager(e) \/ EndLoop(e) PROVE CoreInv'
    BY <1>3, LockStep, EndLoopStep
<1>4. CASE SetBreakPoint
    BY <1>4, SetBreakPointStep
<1>5. CASE PerformOriginal
    BY <1>5, PerformStep
<1>6. CASE OnBreakFlagChange
    BY <1>6, OtherSteps DEF OnBreakFlagChange, registries
<1>7. CASE Done
    BY <1>7, OtherSteps DEF Done, Nothing
<1>8. CASE UNCHANGED vars
    BY <1>8, OtherSteps DEF vars, registries, debugger
<1> QED
    BY <1>1, <1>2, <1>3, <1>4, <1>5, <1>6, <1>7, <1>8 DEF Next, DebuggerStep

\* and that the documents of common sites are of scripts.
LEMMA ScriptHelpersKept == IInv /\ [Next]_vars => ScriptHelpersTyped'
<1> SUFFICES ASSUME IInv, [Next]_vars PROVE ScriptHelpersTyped'
    OBVIOUS
<1>1. ASSUME NEW e \in Engines, RegisterScriptInstance(e) PROVE ScriptHelpersTyped'
  <2>1. step[e] \in Injecting
    BY <1>1 DEF RegisterScriptInstance, At, Injecting
  <2>2. current[e].script \in ScriptIds
    BY <2>1, CurrentInstance DEF IInv, CoreInv, InstancesTyped
  <2> QED
    BY <1>1, <2>2 DEF RegisterScriptInstance, IInv, ScriptHelpersTyped
<1>2. ASSUME NEW e \in Engines, AttachStep(e) PROVE ScriptHelpersTyped'
    BY <1>1, <1>2
       DEF AttachStep, AttachDenied, AttachFails, Attach, InjectNothing,
           InsertScriptInstance, WakeDebugger, CreateInstanceDebugHelper, ParseScriptText,
           Run, StartScript, ScriptStops, AddSite, SiteFails, ComFails, WakeFails,
           ApplyFails, registries, IInv, ScriptHelpersTyped
<1>3. ASSUME NEW e \in Engines, DetachStep(e) \/ LockScriptManager(e) \/ EndLoop(e)
      PROVE  ScriptHelpersTyped'
    BY <1>3
       DEF DetachStep, Detach, RemoveScript, RemoveNothing, RemoveFails, RevertFails,
           UnregisterScriptInstance, LockScriptManager, EndLoop, registries, IInv,
           ScriptHelpersTyped
<1>4. ASSUME DebuggerStep \/ Done \/ UNCHANGED vars PROVE ScriptHelpersTyped'
    BY <1>4
       DEF DebuggerStep, SetBreakPoint, PerformOriginal, OnBreakFlagChange, Done, vars,
           registries, IInv, ScriptHelpersTyped
<1> QED
    BY <1>2, <1>3, <1>4 DEF Next

\* The inductive invariant: what the engines have of the scripts at each step of the
\* loops, and which breakpoints the debugger still owes to whom.
THEOREM Invariance == Spec => []IInv
<1>1. Init => IInv
    BY InitHolds
<1>2. IInv /\ [Next]_vars => IInv'
    BY CoreInvKept, ScriptHelpersKept DEF IInv
<1> QED
    BY <1>1, <1>2, PTL DEF Spec

\* Until applying one fails, the breakpoints that CScriptDebugger tracks are set in every
\* instance of the script that was started.
THEOREM BreakpointsReachAll == Spec => []BreakpointsReach
<1>1. IInv => BreakpointsReach
  <2> SUFFICES ASSUME IInv, ~failed
               PROVE  /\ ~m_DisableBreakpointTracking
                      /\ \A i \in DOMAIN instances \ cleared : site[i] \in Ran => Matches(i)
    BY DEF BreakpointsReach, Matches
  <2>1. ~m_DisableBreakpointTracking
    BY DEF IInv, CoreInv, Tracking
  <2>2. BegunMatch
    BY DEF IInv, CoreInv
  <2> QED
    BY <2>1, <2>2 DEF BegunMatch, Begun
<1> QED
    BY <1>1, Invariance, PTL

----------------------------------------------------------------------------
\* What the registries know between the steps, for RegistriesAgree.

\* The engine e is the innermost call of its thread.
Innermost(e) ==
    LET stack == calls[tab[e]] IN stack # <<>> /\ stack[Len(stack)] = e

\* A thread is in the calls that have begun and not returned; all but the innermost
\* are in a running script.
CallsNest ==
    /\ tab \in [Engines -> Tabs]
    /\ calls \in [Tabs -> Seq(Engines)]
    /\ \A t \in Tabs : \A k \in 1 .. Len(calls[t]) :
          /\ tab[calls[t][k]] = t
          /\ k # Len(calls[t]) => step[calls[t][k]] = "running"
          /\ \A j \in 1 .. k - 1 : calls[t][j] # calls[t][k]
    /\ \A e \in Engines : step[e] \notin {"rest", "running"} => Innermost(e)

\* The loops of different threads exclude each other.
OneTabLoops == \A e, f \in Engines : InLoop(e) /\ InLoop(f) => tab[e] = tab[f]

FramesHaveHelpers ==
    /\ frameHelpers \subseteq Engines
    /\ \A e \in frameHelpers : phase[e] \notin {"new", "unscripted", "detached"}

\* An instance is the one of its script in its engine, even when the engine failed.
InstancesAreListed ==
    \A i \in DOMAIN instances :
        LET own == m_ScriptInstances[instances[i].engine] IN
            instances[i].script \in DOMAIN own /\ own[instances[i].script] = i

\* No two entries of the engines name the same instance.
EntriesDiffer ==
    \A e \in Engines : \A s \in DOMAIN m_ScriptInstances[e] :
        /\ s \in ScriptIds /\ m_ScriptInstances[e][s] \in Ids
        /\ \A f \in Engines : \A r \in DOMAIN m_ScriptInstances[f] :
              m_ScriptInstances[e][s] = m_ScriptInstances[f][r] => e = f /\ s = r

\* The instance that was removed is listed in its engine for one more step.
LeavingIsListed ==
    \A e \in Engines : step[e] = "unregister" =>
        /\ current[e].script \in DOMAIN m_ScriptInstances[e]
        /\ current[e].id = m_ScriptInstances[e][current[e].script]
        /\ current[e].id \notin DOMAIN instances

\* The engine has an instance of the script, did not fail at it, and is not at one of the
\* steps before with it.
Past(e, s, before) ==
    /\ s \in DOMAIN m_ScriptInstances[e] /\ ~FailedAt(e, s)
    /\ ~(step[e] \in before /\ current[e].script = s)

\* An instance has its helper from CreateInstanceDebugHelper to RemoveScript, or to a Done
\* that throws ...
InstancesHaveHelpers ==
    \A e \in Engines, s \in ScriptIds :
        Past(e, s, Waking) /\ site[m_ScriptInstances[e][s]] # "closing" =>
            m_ScriptInstances[e][s] \in instanceHelpers

\* ... and is registered for its script from the end of InjectScript to
\* UnregisterScriptInstance.
InstancesAreRegistered ==
    \A e \in Engines, s \in ScriptIds :
        m_Inited /\ Past(e, s, Injecting) =>
            s \in DOMAIN siteInfos /\ m_ScriptInstances[e][s] \in DOMAIN siteInfos[s]

SitesTyped ==
    /\ siteInfos = [s \in DOMAIN siteInfos |-> siteInfos[s]]
    /\ DOMAIN siteInfos \subseteq scriptHelpers

\* Each once, and only those of engines.
SitesListInstances ==
    \A s \in DOMAIN siteInfos : \A i \in DOMAIN siteInfos[s] :
        /\ i \in Ids /\ siteInfos[s][i] = 1
        /\ \E e \in Engines : s \in DOMAIN m_ScriptInstances[e] /\ m_ScriptInstances[e][s] = i

\* What InjectScript is at is not registered yet; a script that it is about to make a
\* common site of has none yet.
InjectedIsNew ==
    \A e \in Engines :
        /\ step[e] \in Injecting =>
              \A s \in DOMAIN siteInfos : current[e].id \notin DOMAIN siteInfos[s]
        /\ step[e] = "add site" => current[e].script \in scriptHelpers \ DOMAIN siteInfos

NoneFailed == \A e \in Engines : phase[e] # "failed"

\* A common site is in m_ScriptSiteInfos or about to be.
SitesAreListed ==
    NoneFailed =>
        \A s \in scriptHelpers \ DOMAIN siteInfos :
            \E e \in Engines : step[e] = "add site" /\ current[e].script = s

ClearedTyped == cleared \subseteq DOMAIN instances

\* After Done no engine is attached, and those that did not fail have left nothing.
LeftClean ==
    ~m_Inited =>
        /\ \A e \in Engines : phase[e] \in {"unscripted", "detached", "failed", "stuck"}
        /\ (\A e \in Engines : phase[e] \notin {"failed", "stuck"}) =>
               frameHelpers = {} /\ instanceHelpers = {} /\ scriptHelpers = {}

TablesTyped ==
    \A e \in Engines :
        m_ScriptInstances[e] = [s \in DOMAIN m_ScriptInstances[e] |-> m_ScriptInstances[e][s]]

Books ==
    /\ InstancesAreListed /\ EntriesDiffer /\ LeavingIsListed
    /\ InstancesHaveHelpers
    /\ InstancesAreRegistered
    /\ SitesTyped /\ SitesListInstances /\ InjectedIsNew
    /\ SitesAreListed
    /\ ClearedTyped

RInv ==
    /\ IInv
    /\ CallsNest /\ OneTabLoops
    /\ FramesHaveHelpers
    /\ TablesTyped
    /\ Books
    /\ LeftClean

----------------------------------------------------------------------------
\* The calls of the threads.

\* A step in the middle of a call.
LEMMA CallGoesOn ==
    ASSUME CallsNest, NEW e \in Engines, Innermost(e), calls' = calls, tab' = tab,
           \A f \in Engines : f # e => step'[f] = step[f]
    PROVE  CallsNest'
<1>1. ASSUME NEW t \in Tabs, NEW k \in 1 .. Len(calls[t]), k # Len(calls[t])
      PROVE  calls[t][k] \in Engines /\ calls[t][k] # e
  <2>1. calls[t] \in Seq(Engines) /\ Len(calls[t]) \in Nat /\ Len(calls[t]) \in 1 .. Len(calls[t])
    BY DEF CallsNest
  <2>2. tab[calls[t][k]] = t /\ calls[t][k] # calls[t][Len(calls[t])]
    BY <1>1, <2>1 DEF CallsNest
  <2> QED
    BY <2>1, <2>2 DEF Innermost
<1>2. \A f \in Engines : Innermost(f)' = Innermost(f)
    BY DEF Innermost
<1>3. ASSUME NEW t \in Tabs, NEW k \in 1 .. Len(calls[t])
      PROVE  /\ tab[calls[t][k]] = t
             /\ k # Len(calls[t]) => step'[calls[t][k]] = "running"
             /\ \A j \in 1 .. k - 1 : calls[t][j] # calls[t][k]
    BY <1>1, <1>3 DEF CallsNest
<1>4. \A f \in Engines : step'[f] \notin {"rest", "running"} => Innermost(f)
    BY DEF CallsNest
<1>5. tab' \in [Engines -> Tabs] /\ calls' \in [Tabs -> Seq(Engines)]
    BY DEF CallsNest
<1> QED
    BY <1>2, <1>3, <1>4, <1>5 DEF CallsNest

\* A thread enters an engine, from outside or from a running script.
LEMMA CallBegins ==
    ASSUME CallsNest, NEW e \in Engines, Begin(e), step[e] = "rest", tab' = tab,
           step'[e] = "lock", \A f \in Engines : f # e => step'[f] = step[f]
    PROVE  CallsNest'
<1> DEFINE stack == calls[tab[e]]
<1>1. /\ tab[e] \in Tabs /\ stack \in Seq(Engines) /\ Len(stack) \in Nat
      /\ calls' = [calls EXCEPT ![tab[e]] = Append(stack, e)]
    BY DEF CallsNest, Begin
<1>2. \A k \in 1 .. Len(stack) :
          stack[k] \in Engines /\ step[stack[k]] = "running" /\ stack[k] # e
  <2> SUFFICES ASSUME NEW k \in 1 .. Len(stack)
               PROVE  stack[k] \in Engines /\ step[stack[k]] = "running"
    OBVIOUS
  <2>1. CASE k = Len(stack)
    BY <1>1, <2>1 DEF Begin, MayBegin
  <2>2. CASE k # Len(stack)
    BY <1>1, <2>2 DEF CallsNest
  <2> QED
    BY <2>1, <2>2
<1>3. /\ calls' \in [Tabs -> Seq(Engines)]
      /\ \A t \in Tabs : t # tab[e] => calls'[t] = calls[t]
      /\ calls'[tab[e]] = Append(stack, e)
    BY <1>1 DEF CallsNest
<1>4. ASSUME NEW t \in Tabs, NEW k \in 1 .. Len(calls'[t])
      PROVE  /\ tab[calls'[t][k]] = t
             /\ k # Len(calls'[t]) => step'[calls'[t][k]] = "running"
             /\ \A j \in 1 .. k - 1 : calls'[t][j] # calls'[t][k]
  <2>1. CASE t # tab[e]
    <3>1. /\ calls'[t] = calls[t] /\ calls[t] \in Seq(Engines)
          /\ tab[calls[t][k]] = t /\ calls[t][k] \in Engines
      BY <1>3, <1>4, <2>1 DEF CallsNest
    <3>2. calls[t][k] # e /\ step'[calls[t][k]] = step[calls[t][k]]
      BY <2>1, <3>1
    <3>3. /\ k # Len(calls[t]) => step[calls[t][k]] = "running"
          /\ \A j \in 1 .. k - 1 : calls[t][j] # calls[t][k]
      BY <1>4, <3>1 DEF CallsNest
    <3> QED
      BY <3>1, <3>2, <3>3
  <2>2. CASE t = tab[e]
    <3>1. /\ Len(calls'[t]) = Len(stack) + 1 /\ calls'[t][Len(stack) + 1] = e
          /\ \A j \in 1 .. Len(stack) : calls'[t][j] = stack[j]
      BY <1>1, <1>3, <2>2
    <3>2. CASE k = Len(stack) + 1
      BY <1>1, <1>2, <2>2, <3>1, <3>2
    <3>3. CASE k # Len(stack) + 1
      <4>1. k \in 1 .. Len(stack)
        BY <1>1, <1>4, <3>1, <3>3
      <4>2. tab[stack[k]] = t /\ \A j \in 1 .. k - 1 : stack[j] # stack[k]
        BY <2>2, <4>1 DEF CallsNest
      <4> HIDE DEF stack
      <4>3. calls'[t][k] = stack[k] /\ step'[stack[k]] = "running"
        BY <1>2, <3>1, <4>1
      <4>4. \A j \in 1 .. k - 1 : calls'[t][j] = stack[j]
        BY <1>1, <3>1, <4>1
      <4> QED
        BY <4>2, <4>3, <4>4
    <3> QED
      BY <3>2, <3>3
  <2> QED
    BY <2>1, <2>2
<1>5. ASSUME NEW f \in Engines, step'[f] \notin {"rest", "running"}
      PROVE  Innermost(f)'
  <2>1. CASE f = e
    BY <1>1, <1>3, <2>1 DEF Innermost
  <2>2. CASE f # e
    <3>1. Innermost(f) /\ step[f] # "running" /\ tab[f] \in Tabs
      BY <1>5, <2>2 DEF CallsNest
    <3>2. tab[f] # tab[e]
      <4>1. ASSUME tab[f] = tab[e] PROVE FALSE
        <5>1. stack # <<>> /\ stack[Len(stack)] = f
          BY <3>1, <4>1 DEF Innermost
        <5>2. Len(stack) \in 1 .. Len(stack)
          BY <1>1, <5>1
        <5> QED
          BY <1>2, <3>1, <5>1, <5>2
      <4> QED
        BY <4>1
    <3>3. calls'[tab[f]] = calls[tab[f]]
      BY <1>3, <3>1, <3>2
    <3> QED
      BY <3>1, <3>3 DEF Innermost
  <2> QED
    BY <2>1, <2>2
<1> QED
    BY <1>3, <1>4, <1>5 DEF CallsNest

\* The innermost call of a thread returns.
LEMMA CallReturns ==
    ASSUME CallsNest, NEW e \in Engines, Innermost(e), Return(e), tab' = tab,
           step'[e] = "rest", \A f \in Engines : f # e => step'[f] = step[f]
    PROVE  CallsNest'
<1> DEFINE stack == calls[tab[e]]
           n == Len(stack)
<1>1. /\ tab[e] \in Tabs /\ stack \in Seq(Engines) /\ n \in Nat /\ n # 0 /\ stack[n] = e
      /\ calls' = [calls EXCEPT ![tab[e]] = SubSeq(stack, 1, n - 1)]
    BY DEF CallsNest, Return, Innermost
<1>2. /\ SubSeq(stack, 1, n - 1) \in Seq(Engines)
      /\ Len(SubSeq(stack, 1, n - 1)) = n - 1
      /\ \A k \in 1 .. n - 1 : SubSeq(stack, 1, n - 1)[k] = stack[k]
    BY <1>1
<1>3. /\ calls' \in [Tabs -> Seq(Engines)]
      /\ \A t \in Tabs : t # tab[e] => calls'[t] = calls[t]
      /\ calls'[tab[e]] = SubSeq(stack, 1, n - 1)
    BY <1>1, <1>2 DEF CallsNest
<1>4. ASSUME NEW t \in Tabs, NEW k \in 1 .. Len(calls'[t])
      PROVE  /\ tab[calls'[t][k]] = t
             /\ k # Len(calls'[t]) => step'[calls'[t][k]] = "running"
             /\ \A j \in 1 .. k - 1 : calls'[t][j] # calls'[t][k]
  <2>1. CASE t # tab[e]
    <3>1. /\ calls'[t] = calls[t] /\ calls[t] \in Seq(Engines)
          /\ tab[calls[t][k]] = t /\ calls[t][k] \in Engines
      BY <1>3, <1>4, <2>1 DEF CallsNest
    <3>2. calls[t][k] # e /\ step'[calls[t][k]] = step[calls[t][k]]
      BY <2>1, <3>1
    <3>3. /\ k # Len(calls[t]) => step[calls[t][k]] = "running"
          /\ \A j \in 1 .. k - 1 : calls[t][j] # calls[t][k]
      BY <1>4, <3>1 DEF CallsNest
    <3> QED
      BY <3>1, <3>2, <3>3
  <2>2. CASE t = tab[e]
    <3>1. k \in 1 .. n - 1 /\ k \in 1 .. n /\ n \in 1 .. n /\ k # n
      BY <1>1, <1>2, <1>3, <1>4, <2>2
    <3>2. /\ tab[stack[k]] = t /\ step[stack[k]] = "running" /\ stack[k] \in Engines
          /\ \A j \in 1 .. k - 1 : stack[j] # stack[k]
      BY <1>1, <2>2, <3>1 DEF CallsNest
    <3>3. stack[k] # e
      <4>1. \A j \in 1 .. n - 1 : stack[j] # stack[n]
        BY <1>1, <2>2, <3>1 DEF CallsNest
      <4> QED
        BY <1>1, <3>1, <4>1
    <3> HIDE DEF stack, n
    <3>4. /\ calls'[t][k] = stack[k]
          /\ \A j \in 1 .. k - 1 : calls'[t][j] = stack[j]
      BY <1>1, <1>2, <1>3, <2>2, <3>1
    <3> QED
      BY <3>2, <3>3, <3>4
  <2> QED
    BY <2>1, <2>2
<1>5. ASSUME NEW f \in Engines, step'[f] \notin {"rest", "running"}
      PROVE  Innermost(f)'
  <2>1. f # e /\ Innermost(f) /\ tab[f] \in Tabs
    BY <1>5 DEF CallsNest
  <2>2. tab[f] # tab[e]
    BY <1>1, <2>1 DEF Innermost
  <2>3. calls'[tab[f]] = calls[tab[f]]
    BY <1>3, <2>1, <2>2
  <2> QED
    BY <2>1, <2>3 DEF Innermost
<1> QED
    BY <1>3, <1>4, <1>5 DEF CallsNest

----------------------------------------------------------------------------
\* What the steps have in common.

\* The steps in a loop that do not end it.
InLoopStep(e) ==
    \/ InjectNothing(e) \/ RemoveNothing(e)
    \/ InsertScriptInstance(e) \/ WakeDebugger(e) \/ CreateInstanceDebugHelper(e)
    \/ ParseScriptText(e) \/ Run(e) \/ StartScript(e) \/ ScriptStops(e)
    \/ RegisterScriptInstance(e) \/ AddSite(e)
    \/ RemoveScript(e) \/ UnregisterScriptInstance(e)

Fails(e) ==
    \/ SiteFails(e) \/ ComFails(e) \/ WakeFails(e) \/ ApplyFails(e)
    \/ RemoveFails(e) \/ RevertFails(e)

EngineStep(e) ==
    \/ AttachDenied(e) \/ AttachFails(e) \/ Attach(e) \/ Detach(e) \/ LockScriptManager(e) \/ EndLoop(e)
    \/ InLoopStep(e) \/ Fails(e)

QuietStep == SetBreakPoint \/ PerformOriginal \/ OnBreakFlagChange

\* Every step is one of these; none is taken after Done.
LEMMA StepKinds ==
    ASSUME Next
    PROVE  m_Inited /\ (QuietStep \/ Done \/ \E e \in Engines : EngineStep(e))
<1>1. CASE \E e \in Engines :
             AttachStep(e) \/ DetachStep(e) \/ LockScriptManager(e) \/ EndLoop(e)
  <2>1. PICK e \in Engines :
            AttachStep(e) \/ DetachStep(e) \/ LockScriptManager(e) \/ EndLoop(e)
    BY <1>1
  <2>2. EngineStep(e)
    BY <2>1 DEF AttachStep, DetachStep, EngineStep, InLoopStep, Fails
  <2> QED
    BY <2>2 DEF Next
<1> QED
    BY <1>1 DEF Next, DebuggerStep, QuietStep

\* A step of an engine changes nothing of the others.
LEMMA OthersStay ==
    ASSUME EnginesTyped, NEW e \in Engines, EngineStep(e)
    PROVE  /\ \A f \in Engines : f # e =>
                  /\ phase'[f] = phase[f] /\ step'[f] = step[f]
                  /\ current'[f] = current[f]
                  /\ m_ScriptInstances'[f] = m_ScriptInstances[f]
           /\ tab' = tab /\ broken' = broken /\ m_Inited' = m_Inited
<1> USE DEF EnginesTyped, env, registries, debugger, Go
<1>1. CASE \/ AttachDenied(e) \/ AttachFails(e) \/ Attach(e) \/ Detach(e)
           \/ LockScriptManager(e) \/ EndLoop(e) \/ InjectNothing(e) \/ RemoveNothing(e)
    BY <1>1
       DEF AttachDenied, AttachFails, Attach, Detach, LockScriptManager, EndLoop,
           InjectNothing, RemoveNothing
<1>2. CASE InsertScriptInstance(e) \/ RemoveScript(e) \/ UnregisterScriptInstance(e)
    BY <1>2 DEF InsertScriptInstance, RemoveScript, UnregisterScriptInstance
<1>3. CASE WakeDebugger(e) \/ CreateInstanceDebugHelper(e) \/ ParseScriptText(e) \/ Run(e)
    BY <1>3 DEF WakeDebugger, CreateInstanceDebugHelper, ParseScriptText, Run
<1>4. CASE StartScript(e) \/ ScriptStops(e) \/ RegisterScriptInstance(e) \/ AddSite(e)
    BY <1>4 DEF StartScript, ScriptStops, RegisterScriptInstance, AddSite
<1>5. CASE Fails(e)
    BY <1>5
       DEF Fails, SiteFails, ComFails, WakeFails, ApplyFails, RemoveFails, RevertFails, Throw
<1> QED
    BY <1>1, <1>2, <1>3, <1>4, <1>5 DEF EngineStep, InLoopStep

\* In a loop an engine is the innermost call, and stays in it.
LEMMA StaysInLoop ==
    ASSUME EnginesTyped, NEW e \in Engines, InLoopStep(e)
    PROVE  /\ Innermost(e) /\ calls' = calls
           /\ InLoop(e) /\ step'[e] \notin {"rest", "lock"}
<1> USE DEF EnginesTyped, env, Go, At, Innermost, InLoop
<1>1. CASE InsertScriptInstance(e) \/ RemoveScript(e) \/ UnregisterScriptInstance(e)
    BY <1>1 DEF InsertScriptInstance, RemoveScript, UnregisterScriptInstance
<1>4. CASE InjectNothing(e) \/ RemoveNothing(e)
    BY <1>4 DEF InjectNothing, RemoveNothing
<1>2. CASE WakeDebugger(e) \/ CreateInstanceDebugHelper(e) \/ ParseScriptText(e) \/ Run(e)
    BY <1>2 DEF WakeDebugger, CreateInstanceDebugHelper, ParseScriptText, Run
<1>3. CASE StartScript(e) \/ ScriptStops(e) \/ RegisterScriptInstance(e) \/ AddSite(e)
    BY <1>3 DEF StartScript, ScriptStops, RegisterScriptInstance, AddSite
<1> QED
    BY <1>1, <1>2, <1>3, <1>4 DEF InLoopStep

\* An exception leaves the engine's call, and the instance in whatever lists it is in.
LEMMA FailsShape ==
    ASSUME EnginesTyped, NEW e \in Engines, StepFitsPhase(e), Fails(e)
    PROVE  /\ Innermost(e) /\ Return(e) /\ InLoop(e)
           /\ step'[e] = "rest" /\ phase'[e] \in {"failed", "stuck"}
           /\ step[e] \in Injecting => phase'[e] = "failed"
           /\ UNCHANGED <<current, m_ScriptInstances, instances, m_LastId, frameHelpers,
                          scriptHelpers, siteInfos>>
           /\ cleared' = cleared
<1>1. Throw(e) /\ Innermost(e) /\ InLoop(e) /\ scriptHelpers' = scriptHelpers
    BY DEF Fails, SiteFails, ComFails, WakeFails, ApplyFails, RemoveFails, RevertFails, At,
           Innermost, InLoop
<1>2. /\ Return(e) /\ step' = [step EXCEPT ![e] = "rest"]
      /\ phase' = [phase EXCEPT ![e] = IF Attaching(e) THEN "failed" ELSE "stuck"]
      /\ UNCHANGED <<current, m_ScriptInstances, instances, m_LastId, frameHelpers,
                     siteInfos, cleared>>
    BY <1>1 DEF Throw, Go
<1>3. step'[e] = "rest" /\ phase'[e] = IF Attaching(e) THEN "failed" ELSE "stuck"
    BY <1>2 DEF EnginesTyped
<1> QED
    BY <1>1, <1>2, <1>3 DEF StepFitsPhase

\* The stacks of calls are kept, and the loops of different threads exclude each other.
LEMMA CallsKept ==
    ASSUME RInv, NEW e \in Engines, EngineStep(e)
    PROVE  CallsNest' /\ OneTabLoops'
<1>1. /\ CallsNest /\ OneTabLoops /\ EnginesTyped /\ StepFitsPhase(e)
    BY DEF RInv, IInv, CoreInv, EngineOK
<1>2. tab' = tab /\ \A f \in Engines : f # e => step'[f] = step[f]
    BY <1>1, OthersStay
<1>3. ASSUME ~InLoop(e)' \/ InLoop(e)
      PROVE  OneTabLoops'
    BY <1>1, <1>2, <1>3 DEF OneTabLoops, InLoop
<1>4. CASE AttachDenied(e) \/ AttachFails(e)
  <2>1. calls' = calls /\ step' = step
    BY <1>4 DEF AttachDenied, AttachFails
  <2> QED
    BY <1>1, <1>2, <1>3, <2>1 DEF CallsNest, Innermost, InLoop
<1>5. CASE Attach(e) \/ Detach(e)
  <2>1. /\ Begin(e) /\ step' = [step EXCEPT ![e] = "lock"]
        /\ phase[e] \in {"new", "enabled", "stuck"}
    BY <1>5 DEF Attach, Detach, Go
  <2>2. step[e] = "rest" /\ step'[e] = "lock"
    BY <1>1, <2>1 DEF StepFitsPhase, EnginesTyped
  <2> QED
    BY <1>1, <1>2, <1>3, <2>1, <2>2, CallBegins DEF InLoop
<1>6. CASE LockScriptManager(e)
  <2>1. Innermost(e) /\ calls' = calls /\ step'[e] = "loop"
        /\ \A f \in Engines : InLoop(f) => tab[f] = tab[e]
    BY <1>1, <1>6 DEF LockScriptManager, At, Innermost, Go, EnginesTyped
  <2>2. CallsNest'
    BY <1>1, <1>2, <2>1, CallGoesOn
  <2>3. OneTabLoops'
    BY <1>1, <1>2, <2>1 DEF OneTabLoops, InLoop
  <2> QED
    BY <2>2, <2>3
<1>7. CASE EndLoop(e)
  <2>1. Innermost(e) /\ InLoop(e)
    BY <1>7 DEF EndLoop, At, Innermost, InLoop
  <2>2. \/ step'[e] = "lock" /\ calls' = calls
        \/ step'[e] = "rest" /\ Return(e)
    BY <1>1, <1>7 DEF EndLoop, Go, EnginesTyped
  <2>3. CallsNest'
    BY <1>1, <1>2, <2>1, <2>2, CallGoesOn, CallReturns
  <2> QED
    BY <1>3, <2>1, <2>3
<1>8. CASE InLoopStep(e)
    BY <1>1, <1>2, <1>3, <1>8, StaysInLoop, CallGoesOn
<1>9. CASE Fails(e)
    BY <1>1, <1>2, <1>3, <1>9, FailsShape, CallReturns
<1> QED
    BY <1>4, <1>5, <1>6, <1>7, <1>8, <1>9 DEF EngineStep

\* Two engines in the loops that are both the innermost calls are one.
LEMMA OneInLoop ==
    ASSUME RInv, NEW e \in Engines, NEW f \in Engines, InLoop(e), InLoop(f),
           Innermost(e), Innermost(f)
    PROVE  e = f
BY DEF RInv, OneTabLoops, Innermost

----------------------------------------------------------------------------
\* An instance that is past Waking is in the instance manager.
LEMMA PastIsThere ==
    ASSUME CoreInv, NEW e \in Engines, NEW s, Past(e, s, Waking)
    PROVE  m_ScriptInstances[e][s] \in DOMAIN instances
<1>1. s \in DOMAIN m_ScriptInstances[e] \ AtUnregister(e)
    BY DEF Past, Waking, AtUnregister
<1> QED
    BY <1>1, OwnInstance

----------------------------------------------------------------------------
\* The steps that change no registry but that of the frames, and those that throw.

PlainStep(e) ==
    \/ InjectNothing(e) \/ RemoveNothing(e)
    \/ AttachDenied(e) \/ AttachFails(e) \/ Attach(e) \/ Detach(e) \/ LockScriptManager(e) \/ EndLoop(e)
    \/ WakeDebugger(e) \/ ParseScriptText(e) \/ Run(e) \/ StartScript(e) \/ ScriptStops(e)
    \/ Fails(e)

\* Where such a step takes its engine.
LEMMA PlainShape ==
    ASSUME CoreInv, NEW e \in Engines, PlainStep(e)
    PROVE  /\ UNCHANGED <<m_ScriptInstances, instances, m_LastId, scriptHelpers,
                          siteInfos, current>>
           /\ cleared' \subseteq cleared
           /\ step'[e] \notin {"unregister", "add site"}
           /\ step'[e] \in Injecting => step[e] \in Injecting
           /\ phase[e] # "failed" /\ step[e] # "unregister"
           /\ phase'[e] # "failed" =>
                  /\ step[e] # "add site"
                  /\ step[e] \in Waking => step'[e] \in Waking
                  /\ step[e] \in Injecting => step'[e] \in Injecting
<1>1. EnginesTyped /\ StepFitsPhase(e)
    BY DEF CoreInv, EngineOK
<1> USE <1>1 DEF EnginesTyped, env, registries, debugger, history, Go, At, Injecting, Waking
<1>2. CASE AttachDenied(e) \/ AttachFails(e) \/ Attach(e) \/ Detach(e) \/ LockScriptManager(e)
    BY <1>2 DEF AttachDenied, AttachFails, Attach, Detach, LockScriptManager, StepFitsPhase
<1>6. CASE InjectNothing(e) \/ RemoveNothing(e)
    BY <1>6 DEF InjectNothing, RemoveNothing, StepFitsPhase
<1>3. CASE EndLoop(e)
    BY <1>3 DEF EndLoop, StepFitsPhase
<1>4. CASE WakeDebugger(e) \/ ParseScriptText(e) \/ Run(e) \/ StartScript(e) \/ ScriptStops(e)
  <2>1. /\ UNCHANGED <<m_ScriptInstances, instances, m_LastId, scriptHelpers, siteInfos,
                       current, phase>>
        /\ cleared' \subseteq cleared
    BY <1>4 DEF WakeDebugger, ParseScriptText, Run, StartScript, ScriptStops
  <2>2. \/ step[e] = "wake" /\ step'[e] = "init"
        \/ step[e] = "parse" /\ step'[e] \in {"not run", "run"}
        \/ step[e] = "run" /\ step'[e] = "start"
        \/ step[e] = "start" /\ step'[e] = "running"
        \/ step[e] = "running" /\ step'[e] = "not run"
    BY <1>4 DEF WakeDebugger, ParseScriptText, Run, StartScript, ScriptStops
  <2> QED
    BY <2>1, <2>2 DEF StepFitsPhase
<1>5. CASE Fails(e)
  <2>1. /\ step'[e] = "rest" /\ cleared' = cleared /\ InLoop(e)
        /\ step[e] \in Injecting => phase'[e] = "failed"
        /\ UNCHANGED <<m_ScriptInstances, instances, m_LastId, scriptHelpers, siteInfos,
                       current>>
    BY <1>5, FailsShape
  <2>2. step[e] # "unregister"
    BY <1>5 DEF Fails, SiteFails, ComFails, WakeFails, ApplyFails, RemoveFails, RevertFails
  <2> QED
    BY <2>1, <2>2 DEF StepFitsPhase, InLoop
<1> QED
    BY <1>2, <1>3, <1>4, <1>5, <1>6 DEF PlainStep

\* An instance that is not being closed does not lose its helper.
HelpersStay ==
    \A i \in DOMAIN instances : site'[i] # "closing" =>
        \/ i \in instanceHelpers'
        \/ site[i] # "closing" /\ (i \in instanceHelpers => i \in instanceHelpers')

\* The steps that change no registry but that of the frames keep the helper of every
\* instance whose site is not being closed.
LEMMA PlainHelpers ==
    ASSUME CoreInv, NEW e \in Engines, PlainStep(e)
    PROVE  HelpersStay
<1> DEFINE id == current[e].id
<1>1. EngineOK(e) /\ InstancesTyped
    BY DEF CoreInv
<1>2. CASE site' = site /\ instanceHelpers' = instanceHelpers
    BY <1>2 DEF HelpersStay
<1>3. CASE \/ AttachDenied(e) \/ AttachFails(e) \/ Attach(e) \/ Detach(e)
           \/ LockScriptManager(e) \/ EndLoop(e) \/ InjectNothing(e) \/ RemoveNothing(e)
           \/ WakeDebugger(e) \/ Run(e) \/ SiteFails(e) \/ ComFails(e) \/ RevertFails(e)
  <2>1. site' = site /\ instanceHelpers' = instanceHelpers
    BY <1>3
       DEF AttachDenied, AttachFails, Attach, Detach, LockScriptManager, EndLoop,
           InjectNothing, RemoveNothing, WakeDebugger, Run, SiteFails, ComFails,
           RevertFails, registries
  <2> QED
    BY <1>2, <2>1
<1>4. CASE ParseScriptText(e) \/ StartScript(e) \/ ScriptStops(e)
  <2>1. /\ step[e] \in {"parse", "start", "running"} /\ instanceHelpers' = instanceHelpers
        /\ \E state : site' \in {site, [site EXCEPT ![id] = state]}
    BY <1>4 DEF ParseScriptText, StartScript, ScriptStops, At, registries
  <2>2. step[e] \in Injecting
    BY <2>1 DEF Injecting
  <2>3. id \in DOMAIN instances
    BY <2>2, CurrentInstance
  <2>4. id \in instanceHelpers
    <3>1. CASE step[e] = "running"
      BY <1>1, <2>2, <2>3, <3>1 DEF CoreInv, EngineOK, SiteFitsStep, StartedHaveHelpers, Ran
    <3>2. CASE step[e] # "running"
      BY <1>1, <2>1, <2>2, <3>2 DEF EngineOK, SiteFitsStep
    <3> QED
      BY <3>1, <3>2
  <2> HIDE DEF id
  <2>5. \A i \in DOMAIN instances : i # id => site'[i] = site[i]
    BY <1>1, <2>1 DEF InstancesTyped
  <2> QED
    BY <2>1, <2>4, <2>5 DEF HelpersStay
<1>5. CASE WakeFails(e) \/ ApplyFails(e)
  <2>1. /\ instanceHelpers \subseteq instanceHelpers'
        /\ site' = site \/ (site' = [site EXCEPT ![id] = "parsed"] /\ id \in instanceHelpers')
    BY <1>5 DEF WakeFails, ApplyFails
  <2> HIDE DEF id
  <2> QED
    BY <1>1, <2>1 DEF HelpersStay, InstancesTyped
<1>6. CASE RemoveFails(e)
  <2>1. PICK own :
            \/ UNCHANGED <<site, instanceHelpers>>
            \/ /\ site' = [site EXCEPT ![own] = "closing"]
               /\ instanceHelpers' \in {instanceHelpers, instanceHelpers \ {own}}
    BY <1>6 DEF RemoveFails
  <2> QED
    BY <1>1, <2>1 DEF HelpersStay, InstancesTyped
<1> QED
    BY <1>3, <1>4, <1>5, <1>6 DEF PlainStep, Fails

\* What the registries know is kept when none of them changes.
LEMMA PlainKept ==
    ASSUME RInv, m_Inited, NEW e \in Engines, EngineStep(e), PlainStep(e)
    PROVE  Books'
<1>1. CoreInv /\ Books /\ EnginesTyped
    BY DEF RInv, IInv, CoreInv
<1>2. /\ UNCHANGED <<m_ScriptInstances, instances, m_LastId, scriptHelpers, siteInfos,
                     current>>
      /\ cleared' \subseteq cleared
      /\ step'[e] \notin {"unregister", "add site"}
      /\ step'[e] \in Injecting => step[e] \in Injecting
      /\ phase[e] # "failed" /\ step[e] # "unregister"
      /\ phase'[e] # "failed" =>
             /\ step[e] # "add site"
             /\ step[e] \in Waking => step'[e] \in Waking
             /\ step[e] \in Injecting => step'[e] \in Injecting
    BY <1>1, PlainShape
<1>3. \A f \in Engines : f # e => phase'[f] = phase[f] /\ step'[f] = step[f]
    BY <1>1, OthersStay
<1>4. InstancesAreListed' /\ EntriesDiffer' /\ ClearedTyped'
  <2>1. InstancesAreListed'
    BY <1>1, <1>2 DEF Books, InstancesAreListed
  <2>2. EntriesDiffer'
    <3>1. EntriesDiffer /\ Ids' = Ids /\ m_ScriptInstances' = m_ScriptInstances
      BY <1>1, <1>2 DEF Books, Ids
    <3> QED
      BY <3>1 DEF EntriesDiffer
  <2>3. ClearedTyped'
    BY <1>1, <1>2 DEF Books, ClearedTyped
  <2> QED
    BY <2>1, <2>2, <2>3
<1>5. LeavingIsListed'
    BY <1>1, <1>2, <1>3 DEF Books, LeavingIsListed
<1>10. ASSUME NEW f \in Engines, NEW s \in ScriptIds, NEW before \in {Waking, Injecting},
              Past(f, s, before)'
       PROVE  Past(f, s, before)
  <2>1. s \in DOMAIN m_ScriptInstances[f]
    BY <1>2, <1>10 DEF Past
  <2>2. CASE f # e
    BY <1>2, <1>3, <1>10, <2>2 DEF Past, FailedAt
  <2>3. CASE f = e /\ phase'[e] # "failed"
    BY <1>2, <1>10, <2>1, <2>3 DEF Past, FailedAt, Waking, Injecting
  <2>4. CASE f = e /\ phase'[e] = "failed"
    <3>1. ~FailedAt(e, s)
      BY <1>2 DEF FailedAt
    <3>2. m_ScriptInstances[e][s] # current[e].id
      BY <1>2, <1>10, <2>4 DEF Past, FailedAt
    <3>3. step[e] \in before => step[e] \in Injecting
      BY <1>2 DEF Waking, Injecting
    <3>4. step[e] \in before => current[e].script # s
      BY <1>1, <3>2, <3>3, CurrentInstance
    <3> QED
      BY <2>1, <2>4, <3>1, <3>4 DEF Past
  <2> QED
    BY <2>2, <2>3, <2>4
<1>6. InstancesHaveHelpers'
  <2> SUFFICES ASSUME NEW f \in Engines, NEW s \in ScriptIds, Past(f, s, Waking)',
                      site'[m_ScriptInstances[f][s]] # "closing"
               PROVE  m_ScriptInstances[f][s] \in instanceHelpers'
    BY <1>2 DEF InstancesHaveHelpers
  <2>1. Past(f, s, Waking)
    BY <1>10
  <2>2. m_ScriptInstances[f][s] \in DOMAIN instances
    BY <1>1, <2>1, PastIsThere
  <2>3. HelpersStay
    BY <1>1, PlainHelpers
  <2> QED
    BY <1>1, <2>1, <2>2, <2>3 DEF Books, InstancesHaveHelpers, HelpersStay
<1>7. InstancesAreRegistered'
  <2> SUFFICES ASSUME NEW f \in Engines, NEW s \in ScriptIds, Past(f, s, Injecting)'
               PROVE  s \in DOMAIN siteInfos /\ m_ScriptInstances[f][s] \in DOMAIN siteInfos[s]
    BY <1>2 DEF InstancesAreRegistered, Injecting
  <2>1. Past(f, s, Injecting)
    BY <1>10
  <2> QED
    BY <1>1, <2>1 DEF Books, InstancesAreRegistered
<1>8. SitesTyped' /\ SitesListInstances' /\ InjectedIsNew'
  <2>1. \A f \in Engines : step'[f] \in Injecting => step[f] \in Injecting
    BY <1>2, <1>3
  <2>2. \A f \in Engines : step'[f] = "add site" => step[f] = "add site"
    BY <1>2, <1>3
  <2>3. SitesTyped' /\ SitesListInstances'
    <3>1. /\ SitesTyped /\ SitesListInstances
          /\ Ids' = Ids /\ m_ScriptInstances' = m_ScriptInstances
          /\ siteInfos' = siteInfos /\ scriptHelpers' = scriptHelpers
      BY <1>1, <1>2 DEF Books, Ids
    <3> QED
      BY <3>1 DEF SitesTyped, SitesListInstances
  <2>4. InjectedIsNew'
    BY <1>1, <1>2, <2>1, <2>2 DEF Books, InjectedIsNew
  <2> QED
    BY <2>3, <2>4
<1>9. SitesAreListed'
  <2> SUFFICES ASSUME NoneFailed', NEW s \in scriptHelpers \ DOMAIN siteInfos
               PROVE  \E f \in Engines : step'[f] = "add site" /\ current[f].script = s
    BY <1>2 DEF SitesAreListed
  <2>1. NoneFailed /\ step[e] # "add site"
    BY <1>2, <1>3 DEF NoneFailed
  <2>2. PICK f \in Engines : step[f] = "add site" /\ current[f].script = s
    BY <1>1, <2>1 DEF Books, SitesAreListed
  <2> QED
    BY <1>3, <2>1, <2>2
<1> QED
    BY <1>4, <1>5, <1>6, <1>7, <1>8, <1>9 DEF Books

\* The same of the steps of the debugger.
LEMMA QuietKept ==
    ASSUME RInv, UNCHANGED vars \/ QuietStep
    PROVE  Books' /\ CallsNest' /\ OneTabLoops' /\ FramesHaveHelpers'
<1>1. /\ UNCHANGED <<env, threads, registries>>
      /\ m_Inited' = m_Inited /\ site' = site
      /\ cleared' \subseteq DOMAIN instances
  <2>1. CASE UNCHANGED vars
    BY <2>1 DEF vars, debugger, history, RInv, Books, ClearedTyped
  <2>2. CASE OnBreakFlagChange
    BY <2>2 DEF OnBreakFlagChange, history, RInv, Books, ClearedTyped
  <2>3. CASE PerformOriginal
    <3>1. DOMAIN set = DOMAIN instances /\ cleared \subseteq DOMAIN instances
      BY DEF RInv, IInv, CoreInv, InstancesTyped, Books, ClearedTyped
    <3> QED
      BY <2>3, <3>1 DEF PerformOriginal
  <2>4. CASE SetBreakPoint
    <3>1. cleared' \subseteq cleared
      BY <2>4 DEF SetBreakPoint, SetupBreakpoint, ApplyBreakpoints, history
    <3> QED
      BY <2>4, <3>1 DEF SetBreakPoint, RInv, Books, ClearedTyped
  <2> QED
    BY <2>1, <2>2, <2>3, <2>4 DEF QuietStep
<1>2. /\ tab' = tab /\ broken' = broken
      /\ UNCHANGED <<calls, phase, step, left, current>>
      /\ UNCHANGED <<m_ScriptInstances, instances, m_LastId, frameHelpers,
                     instanceHelpers, scriptHelpers, siteInfos>>
    BY <1>1 DEF env, threads, registries
<1>3. CallsNest' /\ OneTabLoops' /\ FramesHaveHelpers'
    BY <1>2 DEF RInv, CallsNest, OneTabLoops, FramesHaveHelpers, Innermost, InLoop
<1>4. InstancesAreListed' /\ EntriesDiffer' /\ LeavingIsListed' /\ ClearedTyped'
    BY <1>1, <1>2
       DEF RInv, Books, InstancesAreListed, EntriesDiffer, LeavingIsListed, ClearedTyped, Ids
<1>5. InstancesHaveHelpers' /\ InstancesAreRegistered'
    BY <1>1, <1>2
       DEF RInv, Books, InstancesHaveHelpers, InstancesAreRegistered, Past, FailedAt, Injecting
<1>6. SitesTyped' /\ SitesListInstances'
    BY <1>2 DEF RInv, Books, SitesTyped, SitesListInstances, Ids
<1>7. InjectedIsNew' /\ SitesAreListed'
    BY <1>2 DEF RInv, Books, InjectedIsNew, SitesAreListed, NoneFailed
<1> QED
    BY <1>3, <1>4, <1>5, <1>6, <1>7 DEF Books

\* Attach gives the frame its helper, and the end of the last loop takes it.
LEMMA FramesKept ==
    ASSUME RInv, NEW e \in Engines, EngineStep(e)
    PROVE  FramesHaveHelpers'
<1>1. EnginesTyped /\ FramesHaveHelpers /\ StepFitsPhase(e)
    BY DEF RInv, IInv, CoreInv, EngineOK
<1>2. \A f \in Engines : f # e => phase'[f] = phase[f]
    BY <1>1, OthersStay
<1>3. CASE AttachDenied(e)
  <2>1. frameHelpers' = frameHelpers /\ phase[e] = "new"
    BY <1>3 DEF AttachDenied, registries
  <2> QED
    BY <1>1, <1>2, <2>1 DEF FramesHaveHelpers
<1>9. CASE AttachFails(e)
  <2>1. frameHelpers' \subseteq frameHelpers \cup {e} /\ phase'[e] = "failed"
    BY <1>1, <1>9 DEF AttachFails, EnginesTyped
  <2> QED
    BY <1>1, <1>2, <2>1 DEF FramesHaveHelpers
<1>4. CASE Attach(e)
  <2>1. frameHelpers' = frameHelpers \cup {e} /\ phase'[e] = "system"
    BY <1>1, <1>4 DEF Attach, EnginesTyped
  <2> QED
    BY <1>1, <1>2, <2>1 DEF FramesHaveHelpers
<1>5. CASE EndLoop(e)
  <2>1. CASE phase[e] = "remove system"
    <3>1. frameHelpers' = frameHelpers \ {e}
      BY <1>5, <2>1 DEF EndLoop
    <3> QED
      BY <1>1, <1>2, <3>1 DEF FramesHaveHelpers
  <2>2. CASE phase[e] # "remove system"
    <3>1. phase[e] \in {"system", "user", "remove user"}
      BY <1>1, <1>5, <2>2 DEF EndLoop, At, StepFitsPhase, EnginesTyped, Phases
    <3>2. frameHelpers' = frameHelpers /\ phase'[e] \in {"user", "enabled", "remove system"}
      BY <1>1, <1>5, <3>1 DEF EndLoop, EnginesTyped
    <3> QED
      BY <1>1, <1>2, <3>2 DEF FramesHaveHelpers
  <2> QED
    BY <2>1, <2>2
<1>6. CASE InLoopStep(e) \/ LockScriptManager(e)
  <2>1. frameHelpers' = frameHelpers /\ phase' = phase
    BY <1>6
       DEF InLoopStep, LockScriptManager, InjectNothing, RemoveNothing, InsertScriptInstance, WakeDebugger,
           CreateInstanceDebugHelper, ParseScriptText, Run, StartScript, ScriptStops,
           RegisterScriptInstance, AddSite, RemoveScript, UnregisterScriptInstance,
           registries
  <2> QED
    BY <1>1, <2>1 DEF FramesHaveHelpers
<1>7. CASE Detach(e)
  <2>1. frameHelpers' = frameHelpers /\ phase'[e] = "remove user"
    BY <1>1, <1>7 DEF Detach, EnginesTyped, registries
  <2> QED
    BY <1>1, <1>2, <2>1 DEF FramesHaveHelpers
<1>8. CASE Fails(e)
  <2>1. frameHelpers' = frameHelpers /\ phase'[e] \in {"failed", "stuck"}
    BY <1>1, <1>8, FailsShape
  <2> QED
    BY <1>1, <1>2, <2>1 DEF FramesHaveHelpers
<1> QED
    BY <1>3, <1>4, <1>5, <1>6, <1>7, <1>8, <1>9 DEF EngineStep

----------------------------------------------------------------------------
\* The steps that enter an instance in a registry.

\* The new instance has an id that no registry knows.
LEMMA InsertKept ==
    ASSUME RInv, m_Inited, NEW e \in Engines, EngineStep(e), InsertScriptInstance(e)
    PROVE  Books'
<1>1. CoreInv /\ Books /\ EnginesTyped /\ InstancesTyped /\ EngineOK(e)
    BY DEF RInv, IInv, CoreInv
<1> DEFINE id == m_LastId + 1
<1>2. PICK s \in left[e] :
          /\ step[e] = "loop" /\ Attaching(e)
          /\ current' = [current EXCEPT ![e] = [id |-> id, script |-> s]]
          /\ instances' = Extend(instances, id, [script |-> s, engine |-> e])
          /\ m_ScriptInstances' = [m_ScriptInstances EXCEPT ![e] = Extend(@, s, id)]
          /\ m_LastId' = id
          /\ step' = [step EXCEPT ![e] = "wake"]
          /\ site' = Extend(site, id, "created")
          /\ UNCHANGED <<phase, instanceHelpers, siteInfos, scriptHelpers, cleared>>
    BY DEF InsertScriptInstance, At, Go, history
<1>3. /\ \A f \in Engines : f # e =>
             /\ phase'[f] = phase[f] /\ step'[f] = step[f] /\ current'[f] = current[f]
             /\ m_ScriptInstances'[f] = m_ScriptInstances[f]
      /\ phase'[e] = phase[e] /\ step'[e] = "wake"
      /\ current'[e] = [id |-> id, script |-> s]
      /\ m_ScriptInstances'[e] = Extend(m_ScriptInstances[e], s, id)
    BY <1>1, <1>2 DEF EnginesTyped
<1>4. /\ s \in ScriptIds /\ phase[e] # "failed"
      /\ s \notin DOMAIN m_ScriptInstances[e]
    BY <1>1, <1>2, ScriptsAssumption
       DEF EnginesTyped, EngineOK, StepFitsPhase, InstancesOf, Had, AtUnregister,
           Attaching, LoopScripts
<1>5. id \in Ids' /\ id \notin Ids /\ Ids \subseteq Ids' /\ DOMAIN instances \subseteq Ids
    BY <1>1, <1>2 DEF InstancesTyped, Ids
<1>6. /\ DOMAIN instances' = DOMAIN instances \cup {id}
      /\ instances'[id] = [script |-> s, engine |-> e]
      /\ \A i \in DOMAIN instances : instances'[i] = instances[i] /\ site'[i] = site[i]
    BY <1>1, <1>2, <1>5 DEF Extend, InstancesTyped
<1>7. /\ DOMAIN m_ScriptInstances'[e] = DOMAIN m_ScriptInstances[e] \cup {s}
      /\ m_ScriptInstances'[e][s] = id
      /\ \A r \in DOMAIN m_ScriptInstances[e] :
             r # s /\ m_ScriptInstances'[e][r] = m_ScriptInstances[e][r]
    BY <1>3, <1>4 DEF Extend
<1>8. \A f \in Engines : \A r \in DOMAIN m_ScriptInstances[f] :
          /\ r \in DOMAIN m_ScriptInstances'[f]
          /\ m_ScriptInstances'[f][r] = m_ScriptInstances[f][r]
    BY <1>3, <1>7
<1>9. \A f \in Engines : \A r \in DOMAIN m_ScriptInstances'[f] :
          \/ f = e /\ r = s
          \/ r \in DOMAIN m_ScriptInstances[f]
    BY <1>3, <1>7
<1>10. \A f \in Engines : \A r \in DOMAIN m_ScriptInstances[f] :
          r \in ScriptIds /\ m_ScriptInstances[f][r] \in Ids
    BY <1>1 DEF Books, EntriesDiffer
<1> HIDE DEF id
<1>11. InstancesAreListed'
  <2> SUFFICES ASSUME NEW i \in DOMAIN instances'
               PROVE  LET own == m_ScriptInstances'[instances'[i].engine] IN
                          /\ instances'[i].script \in DOMAIN own
                          /\ own[instances'[i].script] = i
    BY DEF InstancesAreListed
  <2>1. CASE i = id
    BY <1>6, <1>7, <2>1
  <2>2. CASE i \in DOMAIN instances
    <3>1. instances[i].engine \in Engines
      BY <1>1, <2>2 DEF InstancesTyped
    <3>2. /\ instances[i].script \in DOMAIN m_ScriptInstances[instances[i].engine]
          /\ m_ScriptInstances[instances[i].engine][instances[i].script] = i
      BY <1>1, <2>2 DEF Books, InstancesAreListed
    <3> QED
      BY <1>6, <1>8, <2>2, <3>1, <3>2
  <2> QED
    BY <1>6, <2>1, <2>2
<1>12. EntriesDiffer'
  <2> SUFFICES ASSUME NEW f \in Engines, NEW r \in DOMAIN m_ScriptInstances'[f]
               PROVE  /\ r \in ScriptIds /\ m_ScriptInstances'[f][r] \in Ids'
                      /\ \A g \in Engines : \A q \in DOMAIN m_ScriptInstances'[g] :
                            m_ScriptInstances'[f][r] = m_ScriptInstances'[g][q] =>
                                f = g /\ r = q
    BY DEF EntriesDiffer
  <2>1. r \in ScriptIds /\ m_ScriptInstances'[f][r] \in Ids'
    BY <1>4, <1>5, <1>7, <1>8, <1>9, <1>10
  <2>2. ASSUME NEW g \in Engines, NEW q \in DOMAIN m_ScriptInstances'[g],
               m_ScriptInstances'[f][r] = m_ScriptInstances'[g][q]
        PROVE  f = g /\ r = q
    <3>1. CASE r \in DOMAIN m_ScriptInstances[f] /\ q \in DOMAIN m_ScriptInstances[g]
      <4>1. m_ScriptInstances[f][r] = m_ScriptInstances[g][q]
        BY <1>8, <2>2, <3>1
      <4> QED
        BY <1>1, <3>1, <4>1 DEF Books, EntriesDiffer
    <3>2. CASE ~(r \in DOMAIN m_ScriptInstances[f] /\ q \in DOMAIN m_ScriptInstances[g])
      BY <1>5, <1>7, <1>8, <1>9, <1>10, <2>2, <3>2
    <3> QED
      BY <3>1, <3>2
  <2> QED
    BY <2>1, <2>2
<1>13. LeavingIsListed'
  <2> SUFFICES ASSUME NEW f \in Engines, step'[f] = "unregister"
               PROVE  /\ current'[f].script \in DOMAIN m_ScriptInstances'[f]
                      /\ current'[f].id = m_ScriptInstances'[f][current'[f].script]
                      /\ current'[f].id \notin DOMAIN instances'
    BY DEF LeavingIsListed
  <2>1. f # e /\ step[f] = "unregister" /\ current'[f] = current[f]
    BY <1>3
  <2>2. /\ current[f].script \in DOMAIN m_ScriptInstances[f]
        /\ current[f].id = m_ScriptInstances[f][current[f].script]
        /\ current[f].id \notin DOMAIN instances
    BY <1>1, <2>1 DEF Books, LeavingIsListed
  <2>3. current[f].id # id
    BY <1>5, <1>10, <2>2
  <2> QED
    BY <1>6, <1>8, <2>1, <2>2, <2>3
<1>14. ASSUME NEW f \in Engines, NEW r \in ScriptIds, NEW before, "wake" \in before,
              "loop" \notin before, Past(f, r, before)'
       PROVE  Past(f, r, before) /\ m_ScriptInstances'[f][r] = m_ScriptInstances[f][r]
  <2>1. ~(f = e /\ r = s)
    BY <1>3, <1>14 DEF Past, FailedAt
  <2>2. r \in DOMAIN m_ScriptInstances[f]
    BY <1>9, <1>14, <2>1 DEF Past, FailedAt
  <2> QED
    BY <1>2, <1>3, <1>4, <1>8, <1>14, <2>2 DEF Past, FailedAt
<1>15. InstancesHaveHelpers'
  <2> SUFFICES ASSUME NEW f \in Engines, NEW r \in ScriptIds, Past(f, r, Waking)',
                      site'[m_ScriptInstances'[f][r]] # "closing"
               PROVE  m_ScriptInstances'[f][r] \in instanceHelpers
    BY <1>2 DEF InstancesHaveHelpers, Waking
  <2>1. Past(f, r, Waking) /\ m_ScriptInstances'[f][r] = m_ScriptInstances[f][r]
    BY <1>14 DEF Waking
  <2>2. m_ScriptInstances[f][r] \in DOMAIN instances
    BY <1>1, <2>1, PastIsThere
  <2> QED
    BY <1>1, <1>6, <2>1, <2>2 DEF Books, InstancesHaveHelpers
<1>16. InstancesAreRegistered'
  <2>1. "wake" \in Injecting /\ "loop" \notin Injecting
    BY DEF Injecting
  <2> QED
    BY <1>1, <1>2, <1>14, <2>1 DEF Books, InstancesAreRegistered
<1>17. SitesTyped'
    BY <1>1, <1>2 DEF Books, SitesTyped
<1>18. SitesListInstances'
  <2> SUFFICES ASSUME NEW r \in DOMAIN siteInfos, NEW i \in DOMAIN siteInfos[r]
               PROVE  /\ i \in Ids' /\ siteInfos[r][i] = 1
                      /\ \E f \in Engines : r \in DOMAIN m_ScriptInstances'[f]
                                            /\ m_ScriptInstances'[f][r] = i
    BY <1>2 DEF SitesListInstances
  <2>1. /\ i \in Ids /\ siteInfos[r][i] = 1
        /\ \E f \in Engines : r \in DOMAIN m_ScriptInstances[f] /\ m_ScriptInstances[f][r] = i
    BY <1>1 DEF Books, SitesListInstances
  <2> QED
    BY <1>5, <1>8, <2>1
<1>19. InjectedIsNew'
  <2>1. \A r \in DOMAIN siteInfos : id \notin DOMAIN siteInfos[r]
    BY <1>1, <1>5 DEF Books, SitesListInstances
  <2>2. \A f \in Engines : f # e => step'[f] = step[f] /\ current'[f] = current[f]
    BY <1>3
  <2>3. current'[e].id = id /\ step'[e] = "wake"
    BY <1>3
  <2> QED
    BY <1>1, <1>2, <2>1, <2>2, <2>3 DEF Books, InjectedIsNew
<1>20. SitesAreListed'
  <2> SUFFICES ASSUME NoneFailed', NEW r \in scriptHelpers \ DOMAIN siteInfos
               PROVE  \E f \in Engines : step'[f] = "add site" /\ current'[f].script = r
    BY <1>2 DEF SitesAreListed
  <2>1. PICK f \in Engines : step[f] = "add site" /\ current[f].script = r
    BY <1>1, <1>2 DEF NoneFailed, Books, SitesAreListed
  <2> QED
    BY <1>2, <1>3, <2>1
<1>21. ClearedTyped'
    BY <1>1, <1>2, <1>6 DEF Books, ClearedTyped
<1> QED
    BY <1>11, <1>12, <1>13, <1>15, <1>16, <1>17, <1>18, <1>19, <1>20, <1>21 DEF Books

\* A step that changes none of the instances.
LEMMA InstancesStay ==
    ASSUME Books, NEW e \in Engines, step'[e] # "unregister",
           UNCHANGED <<m_ScriptInstances, instances, m_LastId, current, cleared>>,
           \A f \in Engines : f # e => step'[f] = step[f]
    PROVE  InstancesAreListed' /\ EntriesDiffer' /\ LeavingIsListed' /\ ClearedTyped'
<1>1. InstancesAreListed' /\ ClearedTyped'
    BY DEF Books, InstancesAreListed, ClearedTyped
<1>2. EntriesDiffer'
  <2>1. EntriesDiffer /\ Ids' = Ids /\ m_ScriptInstances' = m_ScriptInstances
    BY DEF Books, Ids
  <2> QED
    BY <2>1 DEF EntriesDiffer
<1>3. LeavingIsListed'
    BY DEF Books, LeavingIsListed
<1> QED
    BY <1>1, <1>2, <1>3

\* The helper is that of the instance the loop is at.
LEMMA CreateKept ==
    ASSUME RInv, m_Inited, NEW e \in Engines, EngineStep(e), CreateInstanceDebugHelper(e)
    PROVE  Books'
<1>1. CoreInv /\ Books /\ EnginesTyped
    BY DEF RInv, IInv, CoreInv
<1>2. /\ step[e] = "init" /\ step' = [step EXCEPT ![e] = "parse"]
      /\ instanceHelpers' = instanceHelpers \cup {current[e].id}
      /\ UNCHANGED <<m_ScriptInstances, instances, m_LastId, current, cleared, phase, site,
                     siteInfos, scriptHelpers>>
    BY DEF CreateInstanceDebugHelper, At, Go, history
<1>3. step'[e] = "parse" /\ \A f \in Engines : f # e => step'[f] = step[f]
    BY <1>1, <1>2 DEF EnginesTyped
<1>4. step[e] \in Injecting /\ step'[e] \in Injecting
    BY <1>2, <1>3 DEF Injecting
<1>5. InstancesAreListed' /\ EntriesDiffer' /\ LeavingIsListed' /\ ClearedTyped'
    BY <1>1, <1>2, <1>3, InstancesStay
<1>6. InstancesHaveHelpers'
  <2> SUFFICES ASSUME NEW f \in Engines, NEW r \in ScriptIds, Past(f, r, Waking)',
                      site[m_ScriptInstances[f][r]] # "closing"
               PROVE  m_ScriptInstances[f][r] \in instanceHelpers'
    BY <1>2 DEF InstancesHaveHelpers
  <2>1. CASE f = e /\ r = current[e].script
    BY <1>1, <1>2, <1>4, <2>1, CurrentInstance
  <2>2. CASE ~(f = e /\ r = current[e].script)
    <3>1. Past(f, r, Waking)
      BY <1>2, <1>3, <2>2 DEF Past, FailedAt, Waking
    <3> QED
      BY <1>1, <1>2, <3>1 DEF Books, InstancesHaveHelpers
  <2> QED
    BY <2>1, <2>2
<1>7. InstancesAreRegistered'
  <2> SUFFICES ASSUME NEW f \in Engines, NEW r \in ScriptIds, Past(f, r, Injecting)'
               PROVE  r \in DOMAIN siteInfos /\ m_ScriptInstances[f][r] \in DOMAIN siteInfos[r]
    BY <1>2 DEF InstancesAreRegistered, Injecting
  <2>1. Past(f, r, Injecting)
    BY <1>2, <1>3, <1>4 DEF Past, FailedAt, Injecting
  <2> QED
    BY <1>1, <2>1 DEF Books, InstancesAreRegistered
<1>8. SitesTyped' /\ SitesListInstances'
  <2>1. /\ SitesTyped /\ SitesListInstances
        /\ Ids' = Ids /\ m_ScriptInstances' = m_ScriptInstances
        /\ siteInfos' = siteInfos /\ scriptHelpers' = scriptHelpers
    BY <1>1, <1>2 DEF Books, Ids
  <2> QED
    BY <2>1 DEF SitesTyped, SitesListInstances
<1>9. InjectedIsNew' /\ SitesAreListed'
  <2>1. \A f \in Engines : (step'[f] \in Injecting <=> step[f] \in Injecting)
                           /\ (step'[f] = "add site" <=> step[f] = "add site")
    BY <1>2, <1>3, <1>4
  <2>2. InjectedIsNew'
    BY <1>1, <1>2, <2>1 DEF Books, InjectedIsNew
  <2>3. SitesAreListed'
    BY <1>1, <1>2, <2>1 DEF Books, SitesAreListed, NoneFailed
  <2> QED
    BY <2>2, <2>3
<1> QED
    BY <1>5, <1>6, <1>7, <1>8, <1>9 DEF Books

----------------------------------------------------------------------------
\* An instance is entered for one script of one engine.
LEMMA OneEntry ==
    ASSUME Books, NEW e \in Engines, NEW f \in Engines,
           NEW s \in DOMAIN m_ScriptInstances[e], NEW r \in DOMAIN m_ScriptInstances[f],
           m_ScriptInstances[e][s] = m_ScriptInstances[f][r]
    PROVE  e = f /\ s = r
BY DEF Books, EntriesDiffer

\* What the list of a script says of an instance.
LEMMA ListSays ==
    ASSUME Books, NEW s \in DOMAIN siteInfos, NEW i \in DOMAIN siteInfos[s]
    PROVE  /\ i \in Ids /\ siteInfos[s][i] = 1
           /\ \E e \in Engines : s \in DOMAIN m_ScriptInstances[e]
                                 /\ m_ScriptInstances[e][s] = i
BY DEF Books, SitesListInstances

----------------------------------------------------------------------------
\* The steps that register an instance for its script.

\* What RegisterScriptInstance and AddSite have in common: the instance is new in the
\* list of its script.
LEMMA ListedKept ==
    ASSUME RInv, m_Inited, NEW e \in Engines, step[e] \in {"running", "not run", "add site"},
           Innermost(e), step'[e] = "loop",
           \A f \in Engines : f # e => step'[f] = step[f],
           UNCHANGED <<m_ScriptInstances, instances, m_LastId, current, cleared, phase,
                       site, instanceHelpers, scriptHelpers>>,
           current[e].script \in scriptHelpers,
           siteInfos' = [r \in DOMAIN siteInfos \cup {current[e].script} |-> siteInfos'[r]],
           \A r \in DOMAIN siteInfos : r # current[e].script => siteInfos'[r] = siteInfos[r],
           \A i \in DOMAIN siteInfos'[current[e].script] :
               /\ \/ i = current[e].id
                  \/ current[e].script \in DOMAIN siteInfos
                     /\ i \in DOMAIN siteInfos[current[e].script]
               /\ siteInfos'[current[e].script][i] = 1,
           current[e].id \in DOMAIN siteInfos'[current[e].script],
           current[e].script \in DOMAIN siteInfos =>
               DOMAIN siteInfos[current[e].script]
                   \subseteq DOMAIN siteInfos'[current[e].script]
    PROVE  Books'
<1>1. CoreInv /\ Books /\ EnginesTyped /\ InstancesTyped /\ CallsNest
    BY DEF RInv, IInv, CoreInv
<1>2. step[e] \in Injecting /\ step[e] \notin Waking /\ InLoop(e)
    BY DEF Injecting, Waking, InLoop
<1>3. PICK s : s = current[e].script
    OBVIOUS
<1>4. PICK id : id = current[e].id
    OBVIOUS
<1>5. /\ s \in DOMAIN m_ScriptInstances[e] /\ id = m_ScriptInstances[e][s]
      /\ id \in DOMAIN instances /\ id \in Ids /\ Attaching(e)
    BY <1>1, <1>2, <1>3, <1>4, CurrentInstance DEF InstancesTyped, Ids
<1>6. /\ DOMAIN siteInfos' = DOMAIN siteInfos \cup {s} /\ s \in scriptHelpers
      /\ \A r \in DOMAIN siteInfos : DOMAIN siteInfos[r] \subseteq DOMAIN siteInfos'[r]
      /\ id \in DOMAIN siteInfos'[s]
    BY <1>3, <1>4
<1>7. \A r \in DOMAIN siteInfos' : \A i \in DOMAIN siteInfos'[r] :
          \/ r \in DOMAIN siteInfos /\ i \in DOMAIN siteInfos[r]
          \/ r = s /\ i = id
    BY <1>3, <1>4, <1>6
<1>8. InstancesAreListed' /\ EntriesDiffer' /\ LeavingIsListed' /\ ClearedTyped'
    BY <1>1, InstancesStay
<1>9. InstancesHaveHelpers'
  <2> SUFFICES ASSUME NEW f \in Engines, NEW r \in ScriptIds, Past(f, r, Waking)',
                      site[m_ScriptInstances[f][r]] # "closing"
               PROVE  m_ScriptInstances[f][r] \in instanceHelpers
    BY DEF InstancesHaveHelpers
  <2>1. Past(f, r, Waking)
    BY <1>2 DEF Past, FailedAt, Waking
  <2> QED
    BY <1>1, <2>1 DEF Books, InstancesHaveHelpers
<1>10. InstancesAreRegistered'
  <2> SUFFICES ASSUME NEW f \in Engines, NEW r \in ScriptIds, Past(f, r, Injecting)'
               PROVE  r \in DOMAIN siteInfos' /\ m_ScriptInstances[f][r] \in DOMAIN siteInfos'[r]
    BY DEF InstancesAreRegistered, Injecting
  <2>1. CASE f = e /\ r = s
    BY <1>5, <1>6, <2>1
  <2>2. CASE ~(f = e /\ r = s)
    <3>1. Past(f, r, Injecting)
      BY <1>3, <2>2 DEF Past, FailedAt, Injecting
    <3>2. r \in DOMAIN siteInfos /\ m_ScriptInstances[f][r] \in DOMAIN siteInfos[r]
      BY <1>1, <3>1 DEF Books, InstancesAreRegistered
    <3> QED
      BY <1>6, <3>2
  <2> QED
    BY <2>1, <2>2
<1>11. SitesTyped'
    BY <1>1, <1>3, <1>6 DEF Books, SitesTyped
<1>12. SitesListInstances'
  <2> SUFFICES ASSUME NEW r \in DOMAIN siteInfos', NEW i \in DOMAIN siteInfos'[r]
               PROVE  /\ i \in Ids /\ siteInfos'[r][i] = 1
                      /\ \E f \in Engines : r \in DOMAIN m_ScriptInstances[f]
                                            /\ m_ScriptInstances[f][r] = i
    BY DEF SitesListInstances, Ids
  <2>1. siteInfos'[r][i] = 1
    <3>1. CASE r = s
      BY <1>3, <3>1
    <3>2. CASE r # s
      <4>1. r \in DOMAIN siteInfos /\ siteInfos'[r] = siteInfos[r]
        BY <1>3, <1>6, <3>2
      <4>2. i \in DOMAIN siteInfos[r]
        BY <4>1
      <4>3. siteInfos[r][i] = 1
        BY <1>1, <4>1, <4>2, ListSays
      <4> QED
        BY <4>1, <4>3
    <3> QED
      BY <3>1, <3>2
  <2>2. CASE r \in DOMAIN siteInfos /\ i \in DOMAIN siteInfos[r]
    BY <1>1, <2>1, <2>2 DEF Books, SitesListInstances
  <2>3. CASE r = s /\ i = id
    BY <1>5, <2>1, <2>3
  <2> QED
    BY <1>7, <2>2, <2>3
<1>13. InjectedIsNew'
  <2> SUFFICES ASSUME NEW f \in Engines, step'[f] \in Injecting
               PROVE  /\ \A r \in DOMAIN siteInfos' : current[f].id \notin DOMAIN siteInfos'[r]
                      /\ step'[f] = "add site" =>
                             current[f].script \in scriptHelpers \ DOMAIN siteInfos'
    BY DEF InjectedIsNew, Injecting
  <2>1. f # e /\ step[f] \in Injecting /\ step'[f] = step[f]
    BY DEF Injecting
  <2>2. current[f].id # id
    <3>1. /\ current[f].script \in DOMAIN m_ScriptInstances[f]
          /\ current[f].id = m_ScriptInstances[f][current[f].script]
      BY <1>1, <2>1, CurrentInstance
    <3>2. m_ScriptInstances[e][s] = m_ScriptInstances[f][current[f].script] => e = f
      BY <1>1, <1>5, <3>1, OneEntry
    <3> QED
      BY <1>5, <2>1, <3>1, <3>2
  <2>3. \A r \in DOMAIN siteInfos : current[f].id \notin DOMAIN siteInfos[r]
    BY <1>1, <2>1 DEF Books, InjectedIsNew
  <2>4. step[f] # "add site"
    <3>1. ASSUME step[f] = "add site" PROVE FALSE
      <4>1. Innermost(f) /\ InLoop(f)
        BY <1>1, <3>1 DEF CallsNest, InLoop
      <4> QED
        BY <1>2, <2>1, <4>1, OneInLoop
    <3> QED
      BY <3>1
  <2> QED
    BY <1>7, <2>1, <2>2, <2>3, <2>4
<1>14. SitesAreListed'
  <2> SUFFICES ASSUME NoneFailed', NEW r \in scriptHelpers \ DOMAIN siteInfos'
               PROVE  \E f \in Engines : step'[f] = "add site" /\ current[f].script = r
    BY DEF SitesAreListed
  <2>1. PICK f \in Engines : step[f] = "add site" /\ current[f].script = r
    BY <1>1, <1>6 DEF NoneFailed, Books, SitesAreListed
  <2>2. f # e
    BY <1>3, <1>6, <2>1
  <2> QED
    BY <2>1, <2>2
<1> QED
    BY <1>8, <1>9, <1>10, <1>11, <1>12, <1>13, <1>14 DEF Books

\* The script has a site info now, with this one instance in it.
LEMMA AddSiteKept ==
    ASSUME RInv, m_Inited, NEW e \in Engines, EngineStep(e), AddSite(e)
    PROVE  Books'
<1>1. Books /\ EnginesTyped
    BY DEF RInv, IInv, CoreInv
<1>2. /\ step[e] = "add site" /\ step' = [step EXCEPT ![e] = "loop"] /\ Innermost(e)
      /\ siteInfos' = Extend(siteInfos, current[e].script, BagAdd(Nothing, current[e].id))
      /\ UNCHANGED <<m_ScriptInstances, instances, m_LastId, current, cleared, phase,
                     site, instanceHelpers, scriptHelpers>>
    BY DEF AddSite, At, Go, Innermost, history
<1>3. step'[e] = "loop" /\ \A f \in Engines : f # e => step'[f] = step[f]
    BY <1>1, <1>2 DEF EnginesTyped
<1>4. current[e].script \in scriptHelpers \ DOMAIN siteInfos
    BY <1>1, <1>2 DEF Books, InjectedIsNew
<1>5. BagAdd(Nothing, current[e].id) = [i \in {current[e].id} |-> 1]
    BY DEF BagAdd, Nothing
<1>6. /\ siteInfos' = [r \in DOMAIN siteInfos \cup {current[e].script} |-> siteInfos'[r]]
      /\ \A r \in DOMAIN siteInfos : r # current[e].script => siteInfos'[r] = siteInfos[r]
      /\ siteInfos'[current[e].script] = [i \in {current[e].id} |-> 1]
    BY <1>2, <1>5 DEF Extend
<1>7. /\ DOMAIN siteInfos'[current[e].script] = {current[e].id}
      /\ siteInfos'[current[e].script][current[e].id] = 1
    BY <1>6
<1> QED
    BY <1>2, <1>3, <1>4, <1>6, <1>7, ListedKept

\* The instance is entered in the site info of its script, or a common site is made for one.
LEMMA RegisterKept ==
    ASSUME RInv, m_Inited, NEW e \in Engines, EngineStep(e), RegisterScriptInstance(e)
    PROVE  Books'
<1>1. CoreInv /\ Books /\ EnginesTyped
    BY DEF RInv, IInv, CoreInv
<1>2. /\ step[e] \in {"running", "not run"} /\ Innermost(e)
      /\ UNCHANGED <<m_ScriptInstances, instances, m_LastId, current, cleared, phase,
                     site, instanceHelpers>>
    BY DEF RegisterScriptInstance, At, Go, Innermost, history
<1>3. step[e] \in Injecting
    BY <1>2 DEF Injecting
<1>4. CASE current[e].script \in DOMAIN siteInfos
  <2>1. PICK old : old = siteInfos[current[e].script]
    OBVIOUS
  <2>2. /\ step' = [step EXCEPT ![e] = "loop"] /\ scriptHelpers' = scriptHelpers
        /\ siteInfos' = [siteInfos EXCEPT ![current[e].script] = BagAdd(old, current[e].id)]
    BY <1>4, <2>1 DEF RegisterScriptInstance, Go
  <2>3. step'[e] = "loop" /\ \A f \in Engines : f # e => step'[f] = step[f]
    BY <1>1, <2>2 DEF EnginesTyped
  <2>4. current[e].id \notin DOMAIN old /\ \A i \in DOMAIN old : old[i] = 1
    <3>1. current[e].id \notin DOMAIN old
      BY <1>1, <1>3, <1>4, <2>1 DEF Books, InjectedIsNew
    <3>2. \A i \in DOMAIN old : old[i] = 1
      BY <1>1, <1>4, <2>1, ListSays
    <3> QED
      BY <3>1, <3>2
  <2>5. /\ BagAdd(old, current[e].id) =
               [i \in DOMAIN old \cup {current[e].id} |-> IF i = current[e].id THEN 1 ELSE old[i]]
    BY <2>4 DEF BagAdd
  <2>6. /\ siteInfos' = [r \in DOMAIN siteInfos \cup {current[e].script} |-> siteInfos'[r]]
        /\ \A r \in DOMAIN siteInfos : r # current[e].script => siteInfos'[r] = siteInfos[r]
        /\ siteInfos'[current[e].script] = BagAdd(old, current[e].id)
    <3>1. siteInfos = [r \in DOMAIN siteInfos |-> siteInfos[r]]
      BY <1>1 DEF Books, SitesTyped
    <3>2. DOMAIN siteInfos \cup {current[e].script} = DOMAIN siteInfos
      BY <1>4
    <3>3. /\ DOMAIN siteInfos' = DOMAIN siteInfos
          /\ siteInfos'[current[e].script] = BagAdd(old, current[e].id)
          /\ \A r \in DOMAIN siteInfos : r # current[e].script => siteInfos'[r] = siteInfos[r]
      BY <1>4, <2>2
    <3>4. siteInfos' = [r \in DOMAIN siteInfos' |-> siteInfos'[r]]
      BY <2>2
    <3> QED
      BY <3>2, <3>3, <3>4
  <2>7. /\ DOMAIN siteInfos'[current[e].script] = DOMAIN old \cup {current[e].id}
        /\ \A i \in DOMAIN siteInfos'[current[e].script] :
               siteInfos'[current[e].script][i] = 1
    BY <2>4, <2>5, <2>6
  <2>8. current[e].script \in scriptHelpers
    BY <1>1, <1>4 DEF Books, SitesTyped
  <2> QED
    BY <1>2, <1>4, <2>1, <2>2, <2>3, <2>6, <2>7, <2>8, ListedKept
<1>5. CASE current[e].script \notin DOMAIN siteInfos
  <2>1. /\ step' = [step EXCEPT ![e] = "add site"] /\ siteInfos' = siteInfos
        /\ scriptHelpers' = scriptHelpers \cup {current[e].script}
    BY <1>5 DEF RegisterScriptInstance, Go
  <2>2. step'[e] = "add site" /\ \A f \in Engines : f # e => step'[f] = step[f]
    BY <1>1, <2>1 DEF EnginesTyped
  <2>3. InstancesAreListed' /\ EntriesDiffer' /\ LeavingIsListed' /\ ClearedTyped'
    BY <1>1, <1>2, <2>2, InstancesStay
  <2>4. InstancesHaveHelpers'
    <3> SUFFICES ASSUME NEW f \in Engines, NEW r \in ScriptIds, Past(f, r, Waking)',
                        site[m_ScriptInstances[f][r]] # "closing"
                 PROVE  m_ScriptInstances[f][r] \in instanceHelpers
      BY <1>2 DEF InstancesHaveHelpers
    <3>1. Past(f, r, Waking)
      BY <1>2, <2>2 DEF Past, FailedAt, Waking
    <3> QED
      BY <1>1, <3>1 DEF Books, InstancesHaveHelpers
  <2>5. InstancesAreRegistered'
    <3> SUFFICES ASSUME NEW f \in Engines, NEW r \in ScriptIds, Past(f, r, Injecting)'
                 PROVE  r \in DOMAIN siteInfos /\ m_ScriptInstances[f][r] \in DOMAIN siteInfos[r]
      BY <1>2, <2>1 DEF InstancesAreRegistered, Injecting
    <3>1. Past(f, r, Injecting)
      BY <1>2, <1>3, <2>2 DEF Past, FailedAt, Injecting
    <3> QED
      BY <1>1, <3>1 DEF Books, InstancesAreRegistered
  <2>6. SitesTyped' /\ SitesListInstances'
    <3>1. /\ SitesTyped /\ SitesListInstances
          /\ Ids' = Ids /\ m_ScriptInstances' = m_ScriptInstances
          /\ siteInfos' = siteInfos /\ scriptHelpers \subseteq scriptHelpers'
      BY <1>1, <1>2, <2>1 DEF Books, Ids
    <3> QED
      BY <3>1 DEF SitesTyped, SitesListInstances
  <2>7. InjectedIsNew'
    <3> SUFFICES ASSUME NEW f \in Engines
                 PROVE  /\ step'[f] \in Injecting =>
                              \A r \in DOMAIN siteInfos : current[f].id \notin DOMAIN siteInfos[r]
                        /\ step'[f] = "add site" =>
                              current[f].script \in scriptHelpers' \ DOMAIN siteInfos
      BY <1>2, <2>1 DEF InjectedIsNew
    <3>1. CASE f = e
      BY <1>1, <1>3, <1>5, <2>1, <3>1 DEF Books, InjectedIsNew
    <3>2. CASE f # e
      BY <1>1, <2>1, <2>2, <3>2 DEF Books, InjectedIsNew
    <3> QED
      BY <3>1, <3>2
  <2>8. SitesAreListed'
    <3> SUFFICES ASSUME NoneFailed', NEW r \in scriptHelpers' \ DOMAIN siteInfos
                 PROVE  \E f \in Engines : step'[f] = "add site" /\ current[f].script = r
      BY <1>2, <2>1 DEF SitesAreListed
    <3>1. CASE r = current[e].script
      BY <2>2, <3>1
    <3>2. CASE r # current[e].script
      <4>1. PICK f \in Engines : step[f] = "add site" /\ current[f].script = r
        BY <1>1, <1>2, <2>1, <3>2 DEF NoneFailed, Books, SitesAreListed
      <4> QED
        BY <1>2, <2>2, <4>1
    <3> QED
      BY <3>1, <3>2
  <2> QED
    BY <2>3, <2>4, <2>5, <2>6, <2>7, <2>8 DEF Books
<1> QED
    BY <1>4, <1>5

----------------------------------------------------------------------------
\* The steps that take an instance out of the registries.

\* The instance that is removed is the one the engine has for the script; it stays
\* registered for one more step.
LEMMA RemoveKept ==
    ASSUME RInv, m_Inited, NEW e \in Engines, EngineStep(e), RemoveScript(e)
    PROVE  Books'
<1>1. CoreInv /\ Books /\ EnginesTyped /\ InstancesTyped /\ EngineOK(e)
    BY DEF RInv, IInv, CoreInv
<1>2. PICK s, id :
          /\ s \in left[e] /\ s \in DOMAIN m_ScriptInstances[e]
          /\ step[e] = "loop" /\ Removing(e) /\ id = m_ScriptInstances[e][s]
          /\ current' = [current EXCEPT ![e] = [id |-> id, script |-> s]]
          /\ instances' = Restrict(instances, DOMAIN instances \ {id})
          /\ instanceHelpers' = instanceHelpers \ {id}
          /\ site' = Restrict(site, DOMAIN site \ {id})
          /\ cleared' = cleared \ {id}
          /\ step' = [step EXCEPT ![e] = "unregister"]
          /\ UNCHANGED <<phase, m_ScriptInstances, m_LastId, scriptHelpers, siteInfos>>
    BY DEF RemoveScript, At, Go, debugger
<1>3. /\ \A f \in Engines : f # e => step'[f] = step[f] /\ current'[f] = current[f]
      /\ step'[e] = "unregister" /\ current'[e] = [id |-> id, script |-> s]
    BY <1>1, <1>2 DEF EnginesTyped
<1>4. s \in DOMAIN m_ScriptInstances[e] /\ phase[e] # "failed"
    BY <1>2 DEF Removing
<1>5. /\ DOMAIN instances' = DOMAIN instances \ {id}
      /\ \A i \in DOMAIN instances' : instances'[i] = instances[i] /\ site'[i] = site[i]
    BY <1>1, <1>2 DEF Restrict, InstancesTyped
<1>6. Ids' = Ids
    BY <1>2 DEF Ids
<1>7. \A f \in Engines : \A r \in DOMAIN m_ScriptInstances[f] :
          m_ScriptInstances[f][r] = id => f = e /\ r = s
    BY <1>1, <1>2, <1>4, OneEntry
<1>8. InstancesAreListed'
  <2>1. m_ScriptInstances' = m_ScriptInstances
    BY <1>2
  <2>2. InstancesAreListed
    BY <1>1 DEF Books
  <2>3. SUFFICES ASSUME NEW i \in DOMAIN instances'
                 PROVE  LET own == m_ScriptInstances'[instances'[i].engine] IN
                            instances'[i].script \in DOMAIN own
                            /\ own[instances'[i].script] = i
    BY DEF InstancesAreListed
  <2>4. i \in DOMAIN instances /\ instances'[i] = instances[i]
    BY <1>5, <2>3
  <2> QED
    BY <2>1, <2>2, <2>4 DEF InstancesAreListed
<1>9. EntriesDiffer'
  <2>1. EntriesDiffer /\ m_ScriptInstances' = m_ScriptInstances
    BY <1>1, <1>2 DEF Books
  <2> QED
    BY <1>6, <2>1 DEF EntriesDiffer
<1>10. LeavingIsListed'
  <2> SUFFICES ASSUME NEW f \in Engines, step'[f] = "unregister"
               PROVE  /\ current'[f].script \in DOMAIN m_ScriptInstances[f]
                      /\ current'[f].id = m_ScriptInstances[f][current'[f].script]
                      /\ current'[f].id \notin DOMAIN instances'
    BY <1>2 DEF LeavingIsListed
  <2>1. CASE f = e
    BY <1>2, <1>3, <1>4, <1>5, <2>1
  <2>2. CASE f # e
    BY <1>1, <1>3, <1>5, <2>2 DEF Books, LeavingIsListed
  <2> QED
    BY <2>1, <2>2
<1>11. InstancesHaveHelpers'
  <2> SUFFICES ASSUME NEW f \in Engines, NEW r \in ScriptIds, Past(f, r, Waking)',
                      site'[m_ScriptInstances[f][r]] # "closing"
               PROVE  m_ScriptInstances[f][r] \in instanceHelpers'
    BY <1>2 DEF InstancesHaveHelpers
  <2>1. r \in DOMAIN m_ScriptInstances[f]
    BY <1>2 DEF Past, FailedAt
  <2>2. ~(f = e /\ r = s)
    BY <1>3 DEF Past, FailedAt, Waking
  <2>3. Past(f, r, Waking) /\ m_ScriptInstances[f][r] # id
    BY <1>2, <1>3, <1>4, <1>7, <2>1, <2>2 DEF Past, FailedAt, Waking
  <2>4. site[m_ScriptInstances[f][r]] # "closing"
    BY <1>1, <1>5, <2>3, PastIsThere
  <2>5. m_ScriptInstances[f][r] \in instanceHelpers
    BY <1>1, <2>3, <2>4 DEF Books, InstancesHaveHelpers
  <2> QED
    BY <1>2, <2>3, <2>5
<1>12. InstancesAreRegistered'
  <2> SUFFICES ASSUME NEW f \in Engines, NEW r \in ScriptIds, Past(f, r, Injecting)'
               PROVE  r \in DOMAIN siteInfos /\ m_ScriptInstances[f][r] \in DOMAIN siteInfos[r]
    BY <1>2 DEF InstancesAreRegistered, Injecting
  <2>1. Past(f, r, Injecting)
    BY <1>2, <1>3, <1>4 DEF Past, FailedAt, Injecting
  <2> QED
    BY <1>1, <2>1 DEF Books, InstancesAreRegistered
<1>13. SitesTyped' /\ SitesListInstances'
  <2>1. /\ SitesTyped /\ SitesListInstances /\ m_ScriptInstances' = m_ScriptInstances
        /\ siteInfos' = siteInfos /\ scriptHelpers' = scriptHelpers
    BY <1>1, <1>2 DEF Books
  <2> QED
    BY <1>6, <2>1 DEF SitesTyped, SitesListInstances
<1>14. InjectedIsNew'
  <2>1. \A f \in Engines : step'[f] \in Injecting =>
            f # e /\ step[f] = step'[f] /\ current'[f] = current[f]
    BY <1>3 DEF Injecting
  <2>2. "add site" \in Injecting
    BY DEF Injecting
  <2> QED
    BY <1>1, <1>2, <2>1, <2>2 DEF Books, InjectedIsNew
<1>15. SitesAreListed'
  <2> SUFFICES ASSUME NoneFailed', NEW r \in scriptHelpers \ DOMAIN siteInfos
               PROVE  \E f \in Engines : step'[f] = "add site" /\ current'[f].script = r
    BY <1>2 DEF SitesAreListed
  <2>1. PICK f \in Engines : step[f] = "add site" /\ current[f].script = r
    BY <1>1, <1>2 DEF NoneFailed, Books, SitesAreListed
  <2> QED
    BY <1>2, <1>3, <2>1
<1>16. ClearedTyped'
    BY <1>1, <1>2, <1>5 DEF Books, ClearedTyped
<1> QED
    BY <1>8, <1>9, <1>10, <1>11, <1>12, <1>13, <1>14, <1>15, <1>16 DEF Books

\* The instance is found in the list of its script, and in no other.
LEMMA UnregisterKept ==
    ASSUME RInv, m_Inited, NEW e \in Engines, EngineStep(e), UnregisterScriptInstance(e)
    PROVE  Books'
<1>1. CoreInv /\ Books /\ EnginesTyped /\ InstancesTyped /\ StepFitsPhase(e)
    BY DEF RInv, IInv, CoreInv, EngineOK
<1>2. PICK s, id : s = current[e].script /\ id = current[e].id
    OBVIOUS
<1>3. /\ step[e] = "unregister" /\ step' = [step EXCEPT ![e] = "loop"]
      /\ siteInfos' = [siteInfos EXCEPT ![s] = BagRemove(siteInfos[s], id)]
      /\ m_ScriptInstances' = [m_ScriptInstances EXCEPT
             ![e] = Restrict(m_ScriptInstances[e], DOMAIN m_ScriptInstances[e] \ {s})]
      /\ UNCHANGED <<phase, current, instances, m_LastId, site, instanceHelpers,
                     scriptHelpers, cleared>>
    BY <1>2 DEF UnregisterScriptInstance, At, Go, history
<1>4. /\ step'[e] = "loop" /\ \A f \in Engines : f # e => step'[f] = step[f]
      /\ m_ScriptInstances'[e] =
             Restrict(m_ScriptInstances[e], DOMAIN m_ScriptInstances[e] \ {s})
      /\ \A f \in Engines : f # e => m_ScriptInstances'[f] = m_ScriptInstances[f]
    BY <1>1, <1>3 DEF EnginesTyped
<1>5. /\ s \in DOMAIN m_ScriptInstances[e] /\ id = m_ScriptInstances[e][s]
      /\ id \notin DOMAIN instances
    BY <1>1, <1>2, <1>3 DEF Books, LeavingIsListed
<1>6. /\ DOMAIN m_ScriptInstances'[e] = DOMAIN m_ScriptInstances[e] \ {s}
      /\ \A r \in DOMAIN m_ScriptInstances'[e] :
             m_ScriptInstances'[e][r] = m_ScriptInstances[e][r]
    BY <1>4 DEF Restrict
<1>7. \A f \in Engines : \A r \in DOMAIN m_ScriptInstances'[f] :
          /\ ~(f = e /\ r = s) /\ r \in DOMAIN m_ScriptInstances[f]
          /\ m_ScriptInstances'[f][r] = m_ScriptInstances[f][r]
    BY <1>4, <1>6
<1>8. \A f \in Engines : \A r \in DOMAIN m_ScriptInstances[f] :
          \/ f = e /\ r = s
          \/ /\ m_ScriptInstances[f][r] # id /\ r \in DOMAIN m_ScriptInstances'[f]
             /\ m_ScriptInstances'[f][r] = m_ScriptInstances[f][r]
  <2> SUFFICES ASSUME NEW f \in Engines, NEW r \in DOMAIN m_ScriptInstances[f],
                      ~(f = e /\ r = s)
               PROVE  /\ m_ScriptInstances[f][r] # id /\ r \in DOMAIN m_ScriptInstances'[f]
                      /\ m_ScriptInstances'[f][r] = m_ScriptInstances[f][r]
    OBVIOUS
  <2>1. m_ScriptInstances[f][r] # id
    BY <1>1, <1>5, OneEntry
  <2> QED
    BY <1>4, <1>6, <2>1
<1>9. s \in DOMAIN siteInfos /\ id \in DOMAIN siteInfos[s]
  <2>1. s \in ScriptIds
    BY <1>1, <1>5 DEF Books, EntriesDiffer
  <2>2. Past(e, s, Injecting)
    BY <1>1, <1>3, <1>5 DEF Past, FailedAt, Injecting, StepFitsPhase, Removing
  <2> QED
    BY <1>1, <1>5, <2>1, <2>2 DEF Books, InstancesAreRegistered
<1>10. PICK old : old = siteInfos[s]
    OBVIOUS
<1>11. BagRemove(old, id) = [i \in DOMAIN old \ {id} |-> old[i]]
  <2>1. old[id] = 1 /\ id \in DOMAIN old
    BY <1>1, <1>9, <1>10, ListSays
  <2> QED
    BY <2>1 DEF BagRemove
<1>12. /\ siteInfos' = [r \in DOMAIN siteInfos |-> siteInfos'[r]]
       /\ DOMAIN siteInfos' = DOMAIN siteInfos
       /\ \A r \in DOMAIN siteInfos : r # s => siteInfos'[r] = siteInfos[r]
       /\ siteInfos'[s] = [i \in DOMAIN old \ {id} |-> old[i]]
    BY <1>3, <1>9, <1>10, <1>11
<1>13. \A r \in DOMAIN siteInfos : \A i \in DOMAIN siteInfos'[r] :
           /\ i \in DOMAIN siteInfos[r] /\ siteInfos'[r][i] = siteInfos[r][i]
           /\ ~(r = s /\ i = id)
    BY <1>10, <1>12
<1>14. \A r \in DOMAIN siteInfos : \A i \in DOMAIN siteInfos[r] :
           i # id => i \in DOMAIN siteInfos'[r]
    BY <1>10, <1>12
<1>15. Ids' = Ids
    BY <1>3 DEF Ids
<1>16. InstancesAreListed'
  <2> SUFFICES ASSUME NEW i \in DOMAIN instances
               PROVE  LET own == m_ScriptInstances'[instances[i].engine] IN
                          instances[i].script \in DOMAIN own /\ own[instances[i].script] = i
    BY <1>3 DEF InstancesAreListed
  <2>1. instances[i].engine \in Engines /\ i # id
    BY <1>1, <1>5 DEF InstancesTyped
  <2>2. /\ instances[i].script \in DOMAIN m_ScriptInstances[instances[i].engine]
        /\ m_ScriptInstances[instances[i].engine][instances[i].script] = i
    BY <1>1 DEF Books, InstancesAreListed
  <2> QED
    BY <1>5, <1>8, <2>1, <2>2
<1>17. EntriesDiffer'
  <2> SUFFICES ASSUME NEW f \in Engines, NEW r \in DOMAIN m_ScriptInstances'[f]
               PROVE  /\ r \in ScriptIds /\ m_ScriptInstances'[f][r] \in Ids
                      /\ \A g \in Engines : \A q \in DOMAIN m_ScriptInstances'[g] :
                            m_ScriptInstances'[f][r] = m_ScriptInstances'[g][q] =>
                                f = g /\ r = q
    BY <1>15 DEF EntriesDiffer
  <2>1. r \in ScriptIds /\ m_ScriptInstances'[f][r] \in Ids
    BY <1>1, <1>7 DEF Books, EntriesDiffer
  <2>2. ASSUME NEW g \in Engines, NEW q \in DOMAIN m_ScriptInstances'[g],
               m_ScriptInstances'[f][r] = m_ScriptInstances'[g][q]
        PROVE  f = g /\ r = q
    <3>1. /\ r \in DOMAIN m_ScriptInstances[f] /\ q \in DOMAIN m_ScriptInstances[g]
          /\ m_ScriptInstances[f][r] = m_ScriptInstances[g][q]
      BY <1>7, <2>2
    <3> QED
      BY <1>1, <3>1, OneEntry
  <2> QED
    BY <2>1, <2>2
<1>18. LeavingIsListed'
  <2> SUFFICES ASSUME NEW f \in Engines, step'[f] = "unregister"
               PROVE  /\ current[f].script \in DOMAIN m_ScriptInstances'[f]
                      /\ current[f].id = m_ScriptInstances'[f][current[f].script]
                      /\ current[f].id \notin DOMAIN instances
    BY <1>3 DEF LeavingIsListed
  <2>1. f # e /\ step[f] = "unregister" /\ m_ScriptInstances'[f] = m_ScriptInstances[f]
    BY <1>4
  <2> QED
    BY <1>1, <2>1 DEF Books, LeavingIsListed
<1>19. ASSUME NEW f \in Engines, NEW r \in ScriptIds, NEW before, "loop" \notin before,
              Past(f, r, before)'
       PROVE  /\ Past(f, r, before) \/ f = e
              /\ ~(f = e /\ r = s) /\ r \in DOMAIN m_ScriptInstances[f]
              /\ m_ScriptInstances'[f][r] = m_ScriptInstances[f][r]
              /\ f = e => phase[f] # "failed"
  <2>1. phase[e] # "failed"
    BY <1>1, <1>3 DEF StepFitsPhase, Removing
  <2>2. /\ ~(f = e /\ r = s) /\ r \in DOMAIN m_ScriptInstances[f]
        /\ m_ScriptInstances'[f][r] = m_ScriptInstances[f][r]
    BY <1>7, <1>19 DEF Past
  <2>3. f # e => Past(f, r, before)
    BY <1>3, <1>4, <1>19, <2>2 DEF Past, FailedAt
  <2> QED
    BY <2>1, <2>2, <2>3
<1>20. InstancesHaveHelpers'
  <2> SUFFICES ASSUME NEW f \in Engines, NEW r \in ScriptIds, Past(f, r, Waking)',
                      site[m_ScriptInstances'[f][r]] # "closing"
               PROVE  m_ScriptInstances'[f][r] \in instanceHelpers
    BY <1>3 DEF InstancesHaveHelpers
  <2>1. "loop" \notin Waking
    BY DEF Waking
  <2>2. /\ Past(f, r, Waking) \/ f = e
        /\ ~(f = e /\ r = s) /\ r \in DOMAIN m_ScriptInstances[f]
        /\ m_ScriptInstances'[f][r] = m_ScriptInstances[f][r]
        /\ f = e => phase[f] # "failed"
    BY <1>19, <2>1
  <2>3. Past(f, r, Waking)
    BY <1>2, <2>2 DEF Past, FailedAt
  <2> QED
    BY <1>1, <2>2, <2>3 DEF Books, InstancesHaveHelpers
<1>21. InstancesAreRegistered'
  <2> SUFFICES ASSUME NEW f \in Engines, NEW r \in ScriptIds, Past(f, r, Injecting)'
               PROVE  /\ r \in DOMAIN siteInfos'
                      /\ m_ScriptInstances'[f][r] \in DOMAIN siteInfos'[r]
    BY DEF InstancesAreRegistered, Injecting
  <2>1. "loop" \notin Injecting
    BY DEF Injecting
  <2>2. /\ Past(f, r, Injecting) \/ f = e
        /\ ~(f = e /\ r = s) /\ r \in DOMAIN m_ScriptInstances[f]
        /\ m_ScriptInstances'[f][r] = m_ScriptInstances[f][r]
        /\ f = e => phase[f] # "failed"
    BY <1>19, <2>1
  <2>3. Past(f, r, Injecting)
    BY <1>2, <2>2 DEF Past, FailedAt
  <2>4. r \in DOMAIN siteInfos /\ m_ScriptInstances[f][r] \in DOMAIN siteInfos[r]
    BY <1>1, <2>3 DEF Books, InstancesAreRegistered
  <2>5. m_ScriptInstances[f][r] # id
    BY <1>8, <2>2
  <2> QED
    BY <1>12, <1>14, <2>2, <2>4, <2>5
<1>22. SitesTyped'
    BY <1>1, <1>3, <1>12 DEF Books, SitesTyped
<1>23. SitesListInstances'
  <2> SUFFICES ASSUME NEW r \in DOMAIN siteInfos, NEW i \in DOMAIN siteInfos'[r]
               PROVE  /\ i \in Ids /\ siteInfos'[r][i] = 1
                      /\ \E f \in Engines : r \in DOMAIN m_ScriptInstances'[f]
                                            /\ m_ScriptInstances'[f][r] = i
    BY <1>12, <1>15 DEF SitesListInstances
  <2>1. /\ i \in DOMAIN siteInfos[r] /\ siteInfos'[r][i] = siteInfos[r][i]
        /\ ~(r = s /\ i = id)
    BY <1>13
  <2>2. /\ i \in Ids /\ siteInfos[r][i] = 1
        /\ \E f \in Engines : r \in DOMAIN m_ScriptInstances[f] /\ m_ScriptInstances[f][r] = i
    BY <1>1, <2>1, ListSays
  <2>3. PICK f \in Engines : r \in DOMAIN m_ScriptInstances[f] /\ m_ScriptInstances[f][r] = i
    BY <2>2
  <2>4. ~(f = e /\ r = s)
    BY <1>5, <2>1, <2>3
  <2>5. r \in DOMAIN m_ScriptInstances'[f] /\ m_ScriptInstances'[f][r] = i
    BY <1>8, <2>3, <2>4
  <2> QED
    BY <2>1, <2>2, <2>5
<1>24. InjectedIsNew'
  <2>1. \A f \in Engines : step'[f] \in Injecting => step[f] = step'[f]
    BY <1>4 DEF Injecting
  <2>2. "add site" \in Injecting
    BY DEF Injecting
  <2>3. \A f \in Engines : step'[f] \in Injecting =>
            \A r \in DOMAIN siteInfos : current[f].id \notin DOMAIN siteInfos'[r]
    BY <1>1, <1>13, <2>1 DEF Books, InjectedIsNew
  <2> QED
    BY <1>1, <1>3, <1>12, <2>1, <2>2, <2>3 DEF Books, InjectedIsNew
<1>25. SitesAreListed'
  <2> SUFFICES ASSUME NoneFailed', NEW r \in scriptHelpers \ DOMAIN siteInfos
               PROVE  \E f \in Engines : step'[f] = "add site" /\ current[f].script = r
    BY <1>3, <1>12 DEF SitesAreListed
  <2>1. PICK f \in Engines : step[f] = "add site" /\ current[f].script = r
    BY <1>1, <1>3 DEF NoneFailed, Books, SitesAreListed
  <2> QED
    BY <1>3, <1>4, <2>1
<1>26. ClearedTyped'
    BY <1>1, <1>3 DEF Books, ClearedTyped
<1> QED
    BY <1>16, <1>17, <1>18, <1>20, <1>21, <1>22, <1>23, <1>24, <1>25, <1>26 DEF Books

----------------------------------------------------------------------------
\* All of it.

\* What an engine keeps of its scripts is a table from scripts to ids.
LEMMA TablesKept ==
    ASSUME RInv, NEW e \in Engines, EngineStep(e)
    PROVE  TablesTyped'
<1>1. TablesTyped /\ EnginesTyped /\ StepFitsPhase(e)
    BY DEF RInv, IInv, CoreInv, EngineOK
<1>2. \A f \in Engines : f # e => m_ScriptInstances'[f] = m_ScriptInstances[f]
    BY <1>1, OthersStay
<1>3. SUFFICES m_ScriptInstances'[e] =
                   [s \in DOMAIN m_ScriptInstances'[e] |-> m_ScriptInstances'[e][s]]
    BY <1>1, <1>2 DEF TablesTyped
<1>4. CASE InsertScriptInstance(e)
  <2>1. PICK s : m_ScriptInstances'[e] = Extend(m_ScriptInstances[e], s, m_LastId + 1)
    BY <1>1, <1>4 DEF InsertScriptInstance, EnginesTyped
  <2> QED
    BY <2>1 DEF Extend
<1>5. CASE UnregisterScriptInstance(e)
  <2>1. PICK S : m_ScriptInstances'[e] = Restrict(m_ScriptInstances[e], S)
    BY <1>1, <1>5 DEF UnregisterScriptInstance, EnginesTyped
  <2> QED
    BY <2>1 DEF Restrict
<1>6. CASE \/ InjectNothing(e) \/ RemoveNothing(e)
           \/ AttachDenied(e) \/ AttachFails(e) \/ Attach(e) \/ Detach(e) \/ LockScriptManager(e)
           \/ EndLoop(e) \/ Fails(e)
           \/ WakeDebugger(e) \/ CreateInstanceDebugHelper(e) \/ ParseScriptText(e)
           \/ Run(e) \/ StartScript(e) \/ ScriptStops(e)
           \/ RegisterScriptInstance(e) \/ AddSite(e) \/ RemoveScript(e)
  <2>1. m_ScriptInstances' = m_ScriptInstances
    BY <1>1, <1>6, FailsShape
       DEF InjectNothing, RemoveNothing, AttachDenied, AttachFails, Attach, Detach, LockScriptManager, EndLoop, WakeDebugger,
           CreateInstanceDebugHelper, ParseScriptText, Run, StartScript, ScriptStops,
           RegisterScriptInstance, AddSite, RemoveScript, registries
  <2> QED
    BY <1>1, <2>1 DEF TablesTyped
<1> QED
    BY <1>4, <1>5, <1>6 DEF EngineStep, InLoopStep

\* The steps of an engine by the registry they change.
LEMMA BooksKept ==
    ASSUME RInv, m_Inited, NEW e \in Engines, EngineStep(e)
    PROVE  Books'
<1>1. \/ PlainStep(e)
      \/ InsertScriptInstance(e) \/ CreateInstanceDebugHelper(e)
      \/ RegisterScriptInstance(e) \/ AddSite(e)
      \/ RemoveScript(e) \/ UnregisterScriptInstance(e)
    BY DEF EngineStep, InLoopStep, PlainStep
<1> QED
    BY <1>1, PlainKept, InsertKept, CreateKept, RegisterKept, AddSiteKept, RemoveKept,
       UnregisterKept

\* When the debugger is done, the engines that have not failed have left nothing.
LEMMA DoneKept ==
    ASSUME RInv, Done
    PROVE  /\ CallsNest' /\ OneTabLoops' /\ FramesHaveHelpers' /\ TablesTyped'
           /\ Books' /\ LeftClean'
<1>1. CoreInv /\ Books /\ EnginesTyped /\ InstancesTyped
    BY DEF RInv, IInv, CoreInv
<1>2. /\ tab' = tab /\ UNCHANGED <<calls, phase, step, left, current>>
      /\ UNCHANGED <<m_ScriptInstances, instances, m_LastId, frameHelpers,
                     instanceHelpers, site, cleared>>
      /\ ~m_Inited' /\ siteInfos' = Nothing /\ scriptHelpers' = scriptHelpers \ DOMAIN siteInfos
    BY DEF Done, env, threads, history
<1>3. ASSUME NEW e \in Engines
      PROVE  /\ phase[e] \in {"unscripted", "detached", "failed", "stuck"}
             /\ step[e] = "rest"
             /\ phase[e] \notin {"failed", "stuck"} => DOMAIN m_ScriptInstances[e] = {}
  <2>1. InstancesOf(e) /\ StepFitsPhase(e)
    BY <1>1 DEF CoreInv, EngineOK
  <2>2. phase[e] \in {"unscripted", "detached", "failed", "stuck"} /\ step[e] = "rest"
    BY <2>1 DEF Done, StepFitsPhase
  <2>3. phase[e] \notin {"failed", "stuck"} => Had(e) = {} /\ AtUnregister(e) = {}
    BY <2>2 DEF Had, AtUnregister
  <2> QED
    BY <2>1, <2>2, <2>3 DEF InstancesOf
<1>4. CallsNest' /\ OneTabLoops' /\ FramesHaveHelpers' /\ TablesTyped'
  <2>1. CallsNest'
    BY <1>2 DEF RInv, CallsNest, Innermost
  <2>2. OneTabLoops' /\ FramesHaveHelpers'
    BY <1>2 DEF RInv, OneTabLoops, FramesHaveHelpers, InLoop
  <2>3. TablesTyped'
    BY <1>2 DEF RInv, TablesTyped
  <2> QED
    BY <2>1, <2>2, <2>3
<1>5. DOMAIN Nothing = {} /\ Nothing = [r \in DOMAIN Nothing |-> Nothing[r]]
    BY DEF Nothing
<1>6. Books'
  <2>1. InstancesAreListed' /\ LeavingIsListed' /\ ClearedTyped'
    BY <1>1, <1>2 DEF Books, InstancesAreListed, LeavingIsListed, ClearedTyped
  <2>2. EntriesDiffer'
    <3>1. EntriesDiffer /\ Ids' = Ids /\ m_ScriptInstances' = m_ScriptInstances
      BY <1>1, <1>2 DEF Books, Ids
    <3> QED
      BY <3>1 DEF EntriesDiffer
  <2>3. InstancesHaveHelpers' /\ InstancesAreRegistered'
    BY <1>1, <1>2
       DEF Books, InstancesHaveHelpers, InstancesAreRegistered, Past, FailedAt, Waking
  <2>4. SitesTyped' /\ SitesListInstances'
    BY <1>2, <1>5 DEF SitesTyped, SitesListInstances
  <2>5. InjectedIsNew'
    BY <1>2, <1>3 DEF InjectedIsNew, Injecting
  <2>6. SitesAreListed'
    <3> SUFFICES ASSUME NoneFailed, NEW r \in scriptHelpers \ DOMAIN siteInfos PROVE FALSE
      BY <1>2 DEF SitesAreListed, NoneFailed
    <3> QED
      BY <1>1, <1>3 DEF Books, SitesAreListed
  <2> QED
    BY <2>1, <2>2, <2>3, <2>4, <2>5, <2>6 DEF Books
<1>7. LeftClean'
  <2> SUFFICES ASSUME \A e \in Engines : phase[e] \notin {"failed", "stuck"}
               PROVE  frameHelpers = {} /\ instanceHelpers = {} /\ scriptHelpers' = {}
    BY <1>2, <1>3 DEF LeftClean
  <2>1. frameHelpers = {}
    BY <1>3 DEF RInv, FramesHaveHelpers
  <2>2. ASSUME NEW i \in DOMAIN instances PROVE FALSE
    <3>1. instances[i].engine \in Engines
      BY <1>1, <2>2 DEF InstancesTyped
    <3>2. instances[i].script \in DOMAIN m_ScriptInstances[instances[i].engine]
      BY <1>1, <2>2 DEF Books, InstancesAreListed
    <3> QED
      BY <1>3, <3>1, <3>2
  <2>3. instanceHelpers = {}
    BY <1>1, <2>2 DEF InstancesTyped
  <2>4. \A r \in scriptHelpers : r \in DOMAIN siteInfos
    BY <1>1, <1>3 DEF Books, SitesAreListed, NoneFailed
  <2> QED
    BY <1>2, <2>1, <2>3, <2>4
<1> QED
    BY <1>4, <1>6, <1>7

\* At the start nothing is registered.
LEMMA InitRInv == Init => RInv
<1> SUFFICES ASSUME Init PROVE RInv
    OBVIOUS
<1>1. IInv
    BY InitHolds
<1>2. DOMAIN Nothing = {} /\ Nothing = [r \in DOMAIN Nothing |-> Nothing[r]]
    BY DEF Nothing
<1>3. \A e \in Engines : step[e] = "rest" /\ m_ScriptInstances[e] = Nothing
    BY DEF Init
<1>4. CallsNest
  <2>1. /\ tab \in [Engines -> Tabs] /\ calls \in [Tabs -> Seq(Engines)]
        /\ \A t \in Tabs : 1 .. Len(calls[t]) = {}
    BY DEF Init
  <2> QED
    BY <1>3, <2>1 DEF CallsNest
<1>5. OneTabLoops /\ FramesHaveHelpers /\ TablesTyped /\ LeftClean
    BY <1>2, <1>3 DEF Init, OneTabLoops, InLoop, FramesHaveHelpers, TablesTyped, LeftClean
<1>6. InstancesAreListed /\ EntriesDiffer /\ LeavingIsListed /\ ClearedTyped
    BY <1>2, <1>3
       DEF Init, InstancesAreListed, EntriesDiffer, LeavingIsListed, ClearedTyped
<1>7. InstancesHaveHelpers /\ InstancesAreRegistered
    BY <1>2, <1>3 DEF InstancesHaveHelpers, InstancesAreRegistered, Past, FailedAt
<1>8. SitesTyped /\ SitesListInstances /\ SitesAreListed
    BY <1>2 DEF Init, SitesTyped, SitesListInstances, SitesAreListed
<1>9. InjectedIsNew
    BY <1>3 DEF InjectedIsNew, Injecting
<1> QED
    BY <1>1, <1>4, <1>5, <1>6, <1>7, <1>8, <1>9 DEF RInv, Books

\* Every step of the engines and of the debugger, and its end, keeps the invariant.
LEMMA NextRInv == RInv /\ [Next]_vars => RInv'
<1> SUFFICES ASSUME RInv, [Next]_vars PROVE RInv'
    OBVIOUS
<1>1. IInv'
    BY CoreInvKept, ScriptHelpersKept DEF IInv, RInv
<1>2. CASE UNCHANGED vars \/ (QuietStep /\ m_Inited)
  <2>1. Books' /\ CallsNest' /\ OneTabLoops' /\ FramesHaveHelpers'
    BY <1>2, QuietKept
  <2>2. UNCHANGED registries
    BY <1>2 DEF vars, QuietStep, SetBreakPoint, PerformOriginal, OnBreakFlagChange
  <2>3. TablesTyped'
    BY <2>2 DEF RInv, TablesTyped, registries
  <2>4. LeftClean'
    <3>1. CASE UNCHANGED vars
      BY <3>1 DEF vars, threads, registries, debugger, RInv, LeftClean
    <3>2. CASE QuietStep /\ m_Inited
      BY <3>2 DEF QuietStep, SetBreakPoint, PerformOriginal, OnBreakFlagChange, LeftClean
    <3> QED
      BY <1>2, <3>1, <3>2
  <2> QED
    BY <1>1, <2>1, <2>3, <2>4 DEF RInv
<1>3. CASE Done
    BY <1>1, <1>3, DoneKept DEF RInv
<1>4. ASSUME m_Inited, NEW e \in Engines, EngineStep(e) PROVE RInv'
  <2>1. m_Inited' = m_Inited
    BY <1>4, OthersStay DEF RInv, IInv, CoreInv
  <2>2. LeftClean'
    BY <1>4, <2>1 DEF LeftClean
  <2> QED
    BY <1>1, <1>4, <2>2, CallsKept, FramesKept, TablesKept, BooksKept DEF RInv
<1> QED
    BY <1>2, <1>3, <1>4, StepKinds

\* The inductive invariant of the registries: what each of them knows of an instance at
\* each step of InjectScript and RemoveScript.
THEOREM RegistriesInvariance == Spec => []RInv
<1> QED
    BY InitRInv, NextRInv, PTL DEF Spec

\* The state has the types that the code gives it, and a helper, a site and breakpoints
\* are only there for an instance that the instance manager has.
THEOREM TypeCorrect == Spec => []TypeOK
<1>1. RInv => TypeOK
  <2> SUFFICES ASSUME RInv PROVE TypeOK
    OBVIOUS
  <2>1. tab \in [Engines -> Tabs] /\ calls \in [Tabs -> Seq(Engines)]
    BY DEF RInv, CallsNest
  <2>2. /\ DOMAIN instances \subseteq Ids /\ m_LastId \in Nat
        /\ instances \in [DOMAIN instances -> [script : ScriptIds, engine : Engines]]
        /\ instanceHelpers \subseteq DOMAIN instances
        /\ site \in [DOMAIN instances -> {"created", "parsed", "started", "stopped", "closing"}]
        /\ set \in [DOMAIN instances -> [Positions -> BreakpointStates]]
        /\ m_Breakpoints \in [ScriptIds -> [Positions -> BreakpointStates]]
    BY DEF RInv, IInv, CoreInv, InstancesTyped, Ids, SiteStates
  <2>3. \A e \in Engines : DOMAIN m_ScriptInstances[e] \subseteq ScriptIds
    BY DEF RInv, Books, EntriesDiffer
  <2>4. frameHelpers \subseteq Engines /\ scriptHelpers \subseteq ScriptIds
    BY DEF RInv, FramesHaveHelpers, IInv, ScriptHelpersTyped
  <2>5. DOMAIN siteInfos \subseteq scriptHelpers
    BY DEF RInv, Books, SitesTyped
  <2>6. \A s \in DOMAIN siteInfos :
            /\ DOMAIN siteInfos[s] \subseteq Ids
            /\ \A i \in DOMAIN siteInfos[s] : siteInfos[s][i] \in Nat \ {0}
    BY ListSays DEF RInv
  <2>7. cleared \subseteq DOMAIN instances
    BY DEF RInv, Books, ClearedTyped
  <2> QED
    BY <2>1, <2>2, <2>3, <2>4, <2>5, <2>6, <2>7 DEF TypeOK
<1> QED
    BY <1>1, RegistriesInvariance, PTL

\* An entry of an engine is registered for its script, once.
LEMMA EntryRegistered ==
    ASSUME RInv, m_Inited, NEW e \in Engines, NEW s \in DOMAIN m_ScriptInstances[e],
           ~FailedAt(e, s), Busy(e, s) => step[e] = "unregister"
    PROVE  Registered(m_ScriptInstances[e][s], s)
<1>1. Books
    BY DEF RInv
<1>2. s \in ScriptIds
    BY <1>1 DEF Books, EntriesDiffer
<1>3. Past(e, s, Injecting)
    BY DEF Past, Busy, InLoop, Injecting
<1>4. s \in DOMAIN siteInfos /\ m_ScriptInstances[e][s] \in DOMAIN siteInfos[s]
    BY <1>1, <1>2, <1>3 DEF Books, InstancesAreRegistered
<1>5. siteInfos[s][m_ScriptInstances[e][s]] = 1
    BY <1>1, <1>4, ListSays
<1> QED
    BY <1>4, <1>5 DEF Registered

\* When EnableEngine (UpgradrScriptEngine.cpp:66-154) returns without an exception, each
\* script that the engine has an instance of parses, was begun and has its common site,
\* whatever else failed, and whatever other engines did meanwhile.
THEOREM EnabledEnginesBegan == Spec => []EnabledScriptsBegan
<1>1. RInv => EnabledScriptsBegan
  <2> SUFFICES ASSUME RInv, NEW e \in Engines, phase[e] = "enabled",
                      NEW s \in DOMAIN m_ScriptInstances[e]
               PROVE  /\ s \notin broken /\ s \in DOMAIN siteInfos
                      /\ site[m_ScriptInstances[e][s]] \in Ran
    BY DEF EnabledScriptsBegan
  <2>1. EngineOK(e)
    BY DEF RInv, IInv, CoreInv
  <2>2. step[e] = "rest"
    BY <2>1 DEF EngineOK, StepFitsPhase
  <2>3. s \notin broken /\ site[m_ScriptInstances[e][s]] \in Ran
    BY <2>1, <2>2 DEF EngineOK, PassedBegan, Injecting
  <2>4. m_Inited /\ ~FailedAt(e, s) /\ ~Busy(e, s)
    BY <2>2 DEF RInv, LeftClean, FailedAt, Busy, InLoop
  <2>5. Registered(m_ScriptInstances[e][s], s)
    BY <2>4, EntryRegistered
  <2> QED
    BY <2>3, <2>5 DEF Registered
<1> QED
    BY <1>1, RegistriesInvariance, PTL

\* The four registries of the instances agree between the scripts of a loop, but for the
\* script that an engine failed at, and an engine that is detached has left nothing in them.
THEOREM RegistriesAgreeAlways == Spec => []RegistriesAgree
<1>1. RInv => RegistriesAgree
  <2> SUFFICES ASSUME RInv PROVE RegistriesAgree
    OBVIOUS
  <2>1. CoreInv /\ Books
    BY DEF RInv, IInv
  <2>2. ASSUME NEW e \in Engines, NEW s \in DOMAIN m_ScriptInstances[e],
               m_Inited, ~FailedAt(e, s), Busy(e, s) => step[e] = "unregister"
        PROVE  Registered(m_ScriptInstances[e][s], s)
    BY <2>2, EntryRegistered
  <2>3. ASSUME NEW e \in Engines, NEW s \in DOMAIN m_ScriptInstances[e],
               ~FailedAt(e, s), ~Busy(e, s)
        PROVE  /\ m_ScriptInstances[e][s] \in DOMAIN instances
               /\ site[m_ScriptInstances[e][s]] # "closing" =>
                      m_ScriptInstances[e][s] \in instanceHelpers
    <3>1. s \in ScriptIds
      BY <2>1, <2>3 DEF Books, EntriesDiffer
    <3>2. Past(e, s, Waking)
      BY <2>3 DEF Past, Waking, Busy, InLoop
    <3> QED
      BY <2>1, <3>1, <3>2, PastIsThere DEF Books, InstancesHaveHelpers
  <2>4. ASSUME NEW e \in Engines, step[e] = "unregister"
        PROVE  m_Inited /\ \A s : ~FailedAt(e, s)
    <3>1. Removing(e)
      BY <2>1, <2>4 DEF CoreInv, EngineOK, StepFitsPhase
    <3> QED
      BY <3>1 DEF RInv, LeftClean, Removing, FailedAt
  <2>5. \A e \in Engines : \A s \in DOMAIN m_ScriptInstances[e] :
            LET i == m_ScriptInstances[e][s] IN
                /\ ~Busy(e, s) /\ ~FailedAt(e, s) =>
                      /\ i \in DOMAIN instances /\ (m_Inited => Registered(i, s))
                      /\ site[i] # "closing" => i \in instanceHelpers
                /\ Busy(e, s) /\ step[e] = "unregister" => Registered(i, s)
    BY <2>2, <2>3, <2>4
  <2>6. \A i \in DOMAIN instances :
            LET own == m_ScriptInstances[instances[i].engine] IN
                instances[i].script \in DOMAIN own /\ own[instances[i].script] = i
    BY <2>1 DEF Books, InstancesAreListed
  <2>7. \A s \in DOMAIN siteInfos : \A i \in DOMAIN siteInfos[s] :
            \E e \in Engines :
                s \in DOMAIN m_ScriptInstances[e] /\ m_ScriptInstances[e][s] = i
    BY <2>1, ListSays
  <2>8. ASSUME NEW e \in Engines, phase[e] = "detached"
        PROVE  m_ScriptInstances[e] = Nothing /\ e \notin frameHelpers
    <3>1. DOMAIN m_ScriptInstances[e] = {}
      <4>1. EngineOK(e)
        BY <2>1 DEF CoreInv
      <4>2. step[e] = "rest" /\ Had(e) = {} /\ AtUnregister(e) = {}
        BY <2>8, <4>1 DEF EngineOK, StepFitsPhase, Had, AtUnregister
      <4> QED
        BY <2>8, <4>1, <4>2 DEF EngineOK, InstancesOf
    <3>2. m_ScriptInstances[e] = Nothing
      <4>1. m_ScriptInstances[e] =
                [s \in DOMAIN m_ScriptInstances[e] |-> m_ScriptInstances[e][s]]
        BY DEF RInv, TablesTyped
      <4> QED
        BY <3>1, <4>1 DEF Nothing
    <3> QED
      BY <2>8, <3>2 DEF RInv, FramesHaveHelpers
  <2>9. ~m_Inited /\ (\A e \in Engines : phase[e] \notin {"failed", "stuck"}) =>
            frameHelpers = {} /\ instanceHelpers = {} /\ scriptHelpers = {}
    BY DEF RInv, LeftClean
  <2> QED
    BY <2>5, <2>6, <2>7, <2>8, <2>9 DEF RegistriesAgree
<1> QED
    BY <1>1, RegistriesInvariance, PTL
=============================================================================
