----------------------------- MODULE ScriptStore -----------------------------
(***************************************************************************)
(* The scripts of every IE process and what they keep in the database that *)
(* the processes share: CFileSystem::Init loads the script files into      *)
(* CScriptManager under the handles of CHandleManager, scripts set and get *)
(* values through CUpgradrShell, and CScriptManager::Done saves the list   *)
(* of the sites where a script is disabled.                                *)
(*                                                                         *)
(* SCRIPTMANAGER makes the methods of one process atomic to its threads,   *)
(* but no statement is in a transaction with another: each one commits by  *)
(* itself, fails by itself (another process has the file), and the process *)
(* may die after any of them.  A script has one key and one disabled site. *)
(***************************************************************************)
EXTENDS Naturals, FiniteSets, FiniteSetsExt, SequencesExt

CONSTANTS
    Processes,
    Files,        \* script files
    SystemFiles,  \* those under SystemScriptsDir; the others are user scripts
    Guids,
    Values,
    NoValue,
    NoScript,     \* a NULL CScript*
    MaxEvents     \* bound: calls of SetScriptValue and files not read, together

ASSUME StoreAssumption ==
    /\ SystemFiles \subseteq Files
    /\ NoValue \notin Values
    /\ NoScript \notin Guids
    /\ MaxEvents \in Nat

VARIABLES
    guidOf,         \* file -> the GUID in it, or guessed from its code
    ScriptValues,   \* guid -> rows of the table, oldest first
    DisabledScripts,\* guid -> rows of the table
    phase,          \* process -> how far its CUpgradrRootImpl is
    left,           \* process -> files of the directory ScanDirectory has yet to see
    skipped,        \* process -> files it has made no script of
    m_Inited,       \* process -> CScriptManager::m_Inited
    handles,        \* process -> guids in the order of their handles
    scripts,        \* process -> handle -> script
    setting,        \* process -> the row SetScriptValue has still to insert
    sets,           \* calls of SetScriptValue so far
    last,           \* history: guid -> the value inserted last
    contested,      \* history: guid -> two processes were setting it at once
    interrupted     \* history: guid -> a SetScriptValue ended before its INSERT

disk == <<guidOf, ScriptValues, DisabledScripts>>
catalog == <<left, skipped, m_Inited, handles, scripts>>
history == <<last, contested, interrupted>>
vars == <<disk, phase, catalog, setting, sets, history>>

EC_USER == "EC_USER"
EC_SYSTEM == "EC_SYSTEM"
Idle == [guid |-> NoScript, value |-> NoValue]
UserFiles == Files \ SystemFiles

Init ==
    /\ guidOf \in [Files -> Guids]
    /\ ScriptValues = [g \in Guids |-> <<>>]
    /\ DisabledScripts \in [Guids -> {0, 1}]
    /\ phase = [p \in Processes |-> "down"]
    /\ left = [p \in Processes |-> {}]
    /\ skipped = [p \in Processes |-> {}]
    /\ m_Inited = [p \in Processes |-> FALSE]
    /\ handles = [p \in Processes |-> <<>>]
    /\ scripts = [p \in Processes |-> <<>>]
    /\ setting = [p \in Processes |-> Idle]
    /\ sets = 0
    /\ last = [g \in Guids |-> NoValue]
    /\ contested = [g \in Guids |-> FALSE]
    /\ interrupted = [g \in Guids |-> FALSE]
----------------------------------------------------------------------------
\* Calls of SetScriptValue and files not read are counted together.
EventsLeft ==
    sets + Cardinality({x \in Processes \X Files : x[2] \in skipped[x[1]]}) < MaxEvents

----------------------------------------------------------------------------
\* CHandleManager and CScriptManager of process p.

Handles(p) == DOMAIN handles[p]
Registered(p) == {handles[p][h] : h \in DOMAIN scripts[p]}

\* The handles of p after GetHandle(guid), which makes one for an unknown GUID; the
\* handle is the position.  Nothing calls FreeHandle.
WithHandle(p, guid) ==
    IF \E h \in Handles(p) : handles[p][h] = guid
    THEN handles[p] ELSE Append(handles[p], guid)

\* The rows of a script that LoadUserSettings comes to: Execute has stepped past the first
\* row of all, and resets the statement only if there is none.
RowsLeft(guid) ==
    LET First == CHOOSE g \in Guids : DisabledScripts[g] > 0
    IN IF DisabledScripts[guid] > 0 /\ guid = First
       THEN DisabledScripts[guid] - 1 ELSE DisabledScripts[guid]

\* LoadUserSettings, row by row: the script of the rows is looked up when a row has
\* another GUID than the script before, if there was one; the pointer starts as NULL.
ScriptOfRow(script, guid) ==
    IF script # NoScript /\ script # guid THEN guid ELSE script

LoadUserSettings(p) ==
    LET Rows == SetToSeq({g \in Guids : RowsLeft(g) > 0})
        Found == {FoldLeft(ScriptOfRow, NoScript, SubSeq(Rows, 1, i)) : i \in DOMAIN Rows}
    IN [h \in DOMAIN scripts[p] |->
           [scripts[p][h] EXCEPT
               !.m_Disables = IF handles[p][h] \in Found
                              THEN RowsLeft(handles[p][h]) ELSE @]]

\* The scripts of p once ScriptManagerLock's operator-> has called Init.
Inited(p) == IF m_Inited[p] THEN scripts[p] ELSE LoadUserSettings(p)

\* Mutant: a script replaces the one that has its handle.
AddScript_Replaced(p, f) ==
    LET known == WithHandle(p, guidOf[f])
        handle == CHOOSE h \in DOMAIN known : known[h] = guidOf[f]
    IN /\ handles' = [handles EXCEPT ![p] = known]
       /\ scripts' = [scripts EXCEPT ![p] =
             [h \in DOMAIN @ \cup {handle} |->
                 IF h # handle THEN @[h]
                 ELSE [file |-> f, m_Category |-> EC_USER, m_Disables |-> 0]]]

\* A script whose GUID is registered already is dropped ("Duplicit key found").
AddScript(p, f) ==
    LET known == WithHandle(p, guidOf[f])
        handle == CHOOSE h \in DOMAIN known : known[h] = guidOf[f]
    IN /\ handles' = [handles EXCEPT ![p] = known]
       /\ scripts' = [scripts EXCEPT ![p] =
             IF handle \in DOMAIN @ THEN Inited(p)
             ELSE [h \in DOMAIN @ \cup {handle} |->
                      IF h # handle THEN Inited(p)[h]
                      ELSE [file |-> f, m_Category |-> EC_USER, m_Disables |-> 0]]]

----------------------------------------------------------------------------
\* CFileSystem::Init, called by CUpgradrRootImpl::Init.

Start(p) ==
    /\ phase[p] = "down"
    /\ phase' = [phase EXCEPT ![p] = "system"]
    /\ left' = [left EXCEPT ![p] = SystemFiles]
    /\ UNCHANGED <<disk, skipped, m_Inited, handles, scripts, setting, sets, history>>

ProcessFile(p, f) ==
    /\ phase[p] \in {"system", "user"} /\ f \in left[p]
    /\ AddScript(p, f)
    /\ m_Inited' = [m_Inited EXCEPT ![p] = TRUE]
    /\ left' = [left EXCEPT ![p] = @ \ {f}]
    /\ UNCHANGED <<disk, phase, skipped, setting, sets, history>>

\* A file that is hidden, is no plain script, cannot be opened or does not parse is passed
\* over, and so is the rest of a directory when FindNextFile fails.
SkipFile(p, f) ==
    /\ phase[p] \in {"system", "user"} /\ f \in left[p]
    /\ EventsLeft
    /\ left' = [left EXCEPT ![p] = @ \ {f}]
    /\ skipped' = [skipped EXCEPT ![p] = @ \cup {f}]
    /\ UNCHANGED <<disk, phase, m_Inited, handles, scripts, setting, sets, history>>

\* "mark scripts as system scripts", then "load user scripts"
MarkSystemScripts(p) ==
    /\ phase[p] = "system" /\ left[p] = {}
    /\ phase' = [phase EXCEPT ![p] = "user"]
    /\ left' = [left EXCEPT ![p] = UserFiles]
    /\ scripts' = [scripts EXCEPT ![p] =
          [h \in DOMAIN @ |-> [Inited(p)[h] EXCEPT !.m_Category = EC_SYSTEM]]]
    /\ m_Inited' = [m_Inited EXCEPT ![p] = TRUE]
    /\ UNCHANGED <<disk, skipped, handles, setting, sets, history>>

Loaded(p) ==
    /\ phase[p] = "user" /\ left[p] = {}
    /\ phase' = [phase EXCEPT ![p] = "running"]
    /\ UNCHANGED <<disk, catalog, setting, sets, history>>

\* The SELECT of LoadUserSettings throws, through InitRoot, which keeps gRootCS: no
\* object of the process gets a root any more.
LoadFails(p) ==
    /\ phase[p] = "system" /\ ~m_Inited[p]
    /\ phase' = [phase EXCEPT ![p] = "stuck"]
    /\ left' = [left EXCEPT ![p] = {}]
    /\ UNCHANGED <<disk, skipped, m_Inited, handles, scripts, setting, sets, history>>

----------------------------------------------------------------------------
\* Values: CUpgradrShell::SetValue and GetValue.

\* Mutant: the rows of all scripts go.
DeleteValues_All(g) == ScriptValues' = [k \in Guids |-> <<>>]

\* Mutant: nothing is deleted.
DeleteValues_None(g) == UNCHANGED ScriptValues

\* DELETE FROM ScriptValues WHERE ScriptGUID=? AND Key=?
DeleteValues(g) == ScriptValues' = [ScriptValues EXCEPT ![g] = <<>>]

\* SetScriptValue up to its DELETE; a DELETE that fails changes nothing.
SetDelete(p, g, v) ==
    /\ phase[p] = "running" /\ setting[p] = Idle
    /\ g \in Registered(p)
    /\ EventsLeft
    /\ sets' = sets + 1
    /\ DeleteValues(g)
    /\ setting' = [setting EXCEPT ![p] = [guid |-> g, value |-> v]]
    /\ contested' = [contested EXCEPT ![g] = \E q \in Processes : setting[q].guid = g]
    /\ UNCHANGED <<guidOf, DisabledScripts, phase, catalog, last, interrupted>>

\* The INSERT.
SetInsert(p) ==
    LET g == setting[p].guid
        v == setting[p].value
    IN /\ setting[p] # Idle
       /\ ScriptValues' = [ScriptValues EXCEPT ![g] = Append(@, [by |-> p, value |-> v])]
       /\ last' = [last EXCEPT ![g] = v]
       /\ interrupted' = [interrupted EXCEPT ![g] = FALSE]
       /\ setting' = [setting EXCEPT ![p] = Idle]
       /\ UNCHANGED <<guidOf, DisabledScripts, phase, catalog, sets, contested>>

Interrupt(p) ==
    /\ setting' = [setting EXCEPT ![p] = Idle]
    /\ interrupted' = IF setting[p] = Idle THEN interrupted
                      ELSE [interrupted EXCEPT ![setting[p].guid] = TRUE]

\* The INSERT fails: CUpgradrSQLError leaves SetScriptValue, the process goes on.
SetFails(p) ==
    /\ setting[p] # Idle
    /\ Interrupt(p)
    /\ UNCHANGED <<disk, phase, catalog, sets, last, contested>>

\* GetScriptValue: the first row that the SELECT returns
GetScriptValue(g) ==
    IF ScriptValues[g] = <<>> THEN NoValue ELSE Head(ScriptValues[g]).value

----------------------------------------------------------------------------
\* CUpgradrRootImpl::Done, and the end of the process.

\* SaveUserSettings: DELETE FROM DisabledScripts
SaveDelete(p) ==
    /\ phase[p] = "running" /\ setting[p] = Idle
    /\ DisabledScripts' = [g \in Guids |-> 0]
    /\ phase' = [phase EXCEPT ![p] = "closing"]
    /\ UNCHANGED <<guidOf, ScriptValues, catalog, setting, sets, history>>

\* Mutant: the scripts are not released.
Forget_Kept(p) ==
    /\ phase' = [phase EXCEPT ![p] = "down"]
    /\ left' = [left EXCEPT ![p] = {}]
    /\ skipped' = [skipped EXCEPT ![p] = {}]
    /\ m_Inited' = [m_Inited EXCEPT ![p] = FALSE]
    /\ handles' = [handles EXCEPT ![p] = <<>>]
    /\ UNCHANGED scripts

\* The root is deleted with its managers.
Forget(p) ==
    /\ phase' = [phase EXCEPT ![p] = "down"]
    /\ left' = [left EXCEPT ![p] = {}]
    /\ skipped' = [skipped EXCEPT ![p] = {}]
    /\ m_Inited' = [m_Inited EXCEPT ![p] = FALSE]
    /\ handles' = [handles EXCEPT ![p] = <<>>]
    /\ scripts' = [scripts EXCEPT ![p] = <<>>]

\* The INSERTs, each of them stepped by Execute and again by Reset; ReleaseScripts.
SaveInsert(p) ==
    /\ phase[p] = "closing"
    /\ DisabledScripts' =
          [g \in Guids |-> DisabledScripts[g] +
              2 * MapThenSumSet(LAMBDA h : scripts[p][h].m_Disables,
                                {h \in DOMAIN scripts[p] : handles[p][h] = g})]
    /\ Forget(p)
    /\ UNCHANGED <<guidOf, ScriptValues, setting, sets, history>>

\* The process dies, whatever it is doing.
Crash(p) ==
    /\ phase[p] # "down"
    /\ Forget(p)
    /\ Interrupt(p)
    /\ UNCHANGED <<disk, sets, last, contested>>

Next ==
    \E p \in Processes :
        \/ Start(p) \/ MarkSystemScripts(p) \/ Loaded(p) \/ LoadFails(p)
        \/ \E f \in Files : ProcessFile(p, f) \/ SkipFile(p, f)
        \/ \E g \in Guids, v \in Values : SetDelete(p, g, v)
        \/ SetInsert(p) \/ SetFails(p)
        \/ SaveDelete(p) \/ SaveInsert(p) \/ Crash(p)

Spec == Init /\ [][Next]_vars

\* For TLC: nothing tells the processes apart.
ProcessSymmetry == Permutations(Processes)

----------------------------------------------------------------------------
Row == [by : Processes, value : Values]
Script == [file : Files, m_Category : {EC_USER, EC_SYSTEM}, m_Disables : Nat]

TypeOK ==
    /\ guidOf \in [Files -> Guids]
    /\ ScriptValues \in [Guids -> Seq(Row)]
    /\ DisabledScripts \in [Guids -> Nat]
    /\ phase \in [Processes -> {"down", "system", "user", "running", "stuck", "closing"}]
    /\ left \in [Processes -> SUBSET Files]
    /\ skipped \in [Processes -> SUBSET Files]
    /\ m_Inited \in [Processes -> BOOLEAN]
    /\ handles \in [Processes -> Seq(Guids)]
    /\ \A p \in Processes : DOMAIN scripts[p] \subseteq Handles(p)
    /\ \A p \in Processes : scripts[p] \in [DOMAIN scripts[p] -> Script]
    /\ setting \in [Processes -> [guid : Guids, value : Values] \cup {Idle}]
    /\ sets \in Nat
    /\ last \in [Guids -> Values \cup {NoValue}]
    /\ contested \in [Guids -> BOOLEAN]
    /\ interrupted \in [Guids -> BOOLEAN]

\* However the statements of several processes interleave, fail and are cut short, a
\* process leaves at most one row for a key, and none while it is setting the key: the
\* table never holds more values of a key than there are processes (SetScriptValue).
OneRowPerProcess ==
    \A g \in Guids : \A i, j \in DOMAIN ScriptValues[g] :
        /\ ScriptValues[g][i].by = ScriptValues[g][j].by => i = j
        /\ setting[ScriptValues[g][i].by].guid # g

\* Unless two processes were setting the key at once since its rows were last deleted,
\* there is one row, and GetScriptValue returns the value that was inserted last.
UncontendedRead ==
    \A g \in Guids : ScriptValues[g] # <<>> /\ ~contested[g] =>
        Len(ScriptValues[g]) = 1 /\ GetScriptValue(g) = last[g]

\* A value once set is missing only while a process is setting it anew, or after one
\* failed or died between the DELETE and the INSERT.
AbsentWhenInterrupted ==
    \A g \in Guids : ScriptValues[g] = <<>> /\ last[g] # NoValue =>
        interrupted[g] \/ \E p \in Processes : setting[p].guid = g

\* The scripts of a running process are those of the files it could read, one for each
\* GUID, and a script is a system script just if it is from the system directory; where a
\* user script has the GUID of a system script that was read, the system script is the one
\* that runs, in whatever order the files of a directory come and whichever are passed over
\* (CFileSystem::Init loads and marks the system scripts before the user scripts).
CatalogMatchesDisk ==
    \A p \in Processes : phase[p] = "running" =>
        /\ Registered(p) = {guidOf[f] : f \in Files \ skipped[p]}
        /\ \A h \in DOMAIN scripts[p] :
              LET s == scripts[p][h] IN
                  /\ guidOf[s.file] = handles[p][h]
                  /\ s.m_Category = EC_SYSTEM <=> s.file \in SystemFiles
                  /\ (\E f \in SystemFiles \ skipped[p] : guidOf[f] = handles[p][h]) =>
                         s.file \in SystemFiles

=============================================================================
