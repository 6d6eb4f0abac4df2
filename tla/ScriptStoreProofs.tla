------------------------- MODULE ScriptStoreProofs -------------------------
(***************************************************************************)
(* What the tables hold of the values of scripts, and which scripts a      *)
(* process runs, for any number of processes, files and calls.             *)
(***************************************************************************)
EXTENDS ScriptStore, SequenceTheorems, TLAPS

Sets(p, g) == setting[p].guid = g

----------------------------------------------------------------------------
\* The values.  The two tables and the two loops over them never meet, so the values
\* have an inductive invariant of their own.

ValuesTypeOK ==
    /\ ScriptValues \in [Guids -> Seq(Row)]
    /\ setting \in [Processes -> [guid : Guids, value : Values] \cup {Idle}]
    /\ last \in [Guids -> Values \cup {NoValue}]
    /\ contested \in [Guids -> BOOLEAN]
    /\ interrupted \in [Guids -> BOOLEAN]

\* A key that is not contested is being set by one process at most, which has
\* deleted its rows.
SetAlone ==
    \A g \in Guids : ~contested[g] => \A p \in Processes : Sets(p, g) =>
        /\ ScriptValues[g] = <<>>
        /\ \A q \in Processes : Sets(q, g) => q = p

VInv ==
    /\ ValuesTypeOK
    /\ OneRowPerProcess
    /\ SetAlone
    /\ UncontendedRead
    /\ AbsentWhenInterrupted

\* Idle sets the key of no script.
LEMMA IdleSetsNothing == \A g \in Guids : Idle.guid # g
    BY StoreAssumption DEF Idle

\* Each row was inserted by a process.
LEMMA RowsAreOfProcesses ==
    VInv => \A g \in Guids : \A i \in DOMAIN ScriptValues[g] :
                ScriptValues[g][i].by \in Processes
<1> SUFFICES ASSUME VInv, NEW g \in Guids, NEW i \in DOMAIN ScriptValues[g]
             PROVE  ScriptValues[g][i].by \in Processes
    OBVIOUS
<1>1. ScriptValues[g] \in Seq(Row)
    BY DEF VInv, ValuesTypeOK
<1>2. ScriptValues[g][i] \in Row
    BY <1>1, LenProperties, ElementOfSeq
<1> QED
    BY <1>2 DEF Row

\* The table of values is empty at first.
LEMMA InitVInv == Init => VInv
<1> SUFFICES ASSUME Init PROVE VInv
    OBVIOUS
<1>1. \A g \in Guids : ScriptValues[g] = <<>>
    BY DEF Init
<1>2. \A p \in Processes, g \in Guids : ~Sets(p, g)
    BY IdleSetsNothing DEF Init, Sets
<1>3. ValuesTypeOK
    BY DEF Init, ValuesTypeOK
<1>4. OneRowPerProcess
    BY <1>1 DEF OneRowPerProcess
<1>5. SetAlone
    BY <1>2 DEF SetAlone
<1>6. UncontendedRead
    BY <1>1 DEF UncontendedRead
<1>7. AbsentWhenInterrupted
    BY DEF Init, AbsentWhenInterrupted
<1> QED
    BY <1>3, <1>4, <1>5, <1>6, <1>7 DEF VInv

\* After the DELETE the process is the only one that set the key, or it is contested.
LEMMA SetDeleteStep ==
    ASSUME VInv, NEW p \in Processes, NEW k \in Guids, NEW v \in Values, SetDelete(p, k, v)
    PROVE  VInv'
<1> USE DEF VInv
<1>1. /\ setting[p] = Idle
      /\ ScriptValues' = [ScriptValues EXCEPT ![k] = <<>>]
      /\ setting' = [setting EXCEPT ![p] = [guid |-> k, value |-> v]]
      /\ contested' = [contested EXCEPT ![k] = \E q \in Processes : setting[q].guid = k]
      /\ UNCHANGED <<last, interrupted>>
    BY DEF SetDelete, DeleteValues
<1>2. ScriptValues'[k] = <<>> /\ Sets(p, k)' /\ \A g \in Guids : Sets(p, g)' <=> g = k
    BY <1>1 DEF ValuesTypeOK, Sets
<1>3. \A q \in Processes : q # p => setting'[q] = setting[q]
    BY <1>1 DEF ValuesTypeOK
<1>4. \A g \in Guids : g # k => ScriptValues'[g] = ScriptValues[g] /\ contested'[g] = contested[g]
    BY <1>1 DEF ValuesTypeOK
<1>5. contested'[k] <=> \E q \in Processes : Sets(q, k)
    BY <1>1, Zenon DEF ValuesTypeOK, Sets
<1>6. ValuesTypeOK'
  <2>1. contested' \in [Guids -> BOOLEAN]
    BY <1>1, Zenon DEF ValuesTypeOK
  <2>2. ScriptValues' \in [Guids -> Seq(Row)]
    BY <1>1, EmptySeq DEF ValuesTypeOK
  <2> QED
    BY <1>1, <2>1, <2>2 DEF ValuesTypeOK
<1>7. OneRowPerProcess'
    BY <1>1, <1>2, <1>3, <1>4 DEF OneRowPerProcess, ValuesTypeOK, Row, Sets
<1>8. SetAlone'
  <2> SUFFICES ASSUME NEW g \in Guids, ~contested'[g], NEW q \in Processes, Sets(q, g)'
               PROVE  /\ ScriptValues'[g] = <<>>
                      /\ \A r \in Processes : Sets(r, g)' => r = q
    BY DEF SetAlone
  <2>1. \A r \in Processes : r # p => (Sets(r, g)' <=> Sets(r, g))
    BY <1>3 DEF Sets
  <2>2. CASE g = k
    BY <1>2, <1>5, <2>1, <2>2
  <2>3. CASE g # k
    BY <1>2, <1>4, <2>1, <2>3 DEF SetAlone
  <2> QED
    BY <2>2, <2>3
<1>9. UncontendedRead'
    BY <1>1, <1>2, <1>4 DEF UncontendedRead, GetScriptValue
<1>10. AbsentWhenInterrupted'
  <2>1. \A g \in Guids, q \in Processes : g # k /\ Sets(q, g) => Sets(q, g)'
    BY <1>1, <1>3, IdleSetsNothing DEF Sets
  <2> QED
    BY <1>1, <1>2, <1>4, <2>1 DEF AbsentWhenInterrupted, Sets
<1> QED
    BY <1>6, <1>7, <1>8, <1>9, <1>10

\* The INSERT adds a row to none of the same process.
LEMMA SetInsertStep ==
    ASSUME VInv, NEW p \in Processes, SetInsert(p)
    PROVE  VInv'
<1> USE DEF VInv
<1> DEFINE k == setting[p].guid
           v == setting[p].value
           row == [by |-> p, value |-> v]
<1>1. /\ setting[p] # Idle
      /\ ScriptValues' = [ScriptValues EXCEPT ![k] = Append(@, row)]
      /\ last' = [last EXCEPT ![k] = v]
      /\ interrupted' = [interrupted EXCEPT ![k] = FALSE]
      /\ setting' = [setting EXCEPT ![p] = Idle]
      /\ UNCHANGED contested
    BY DEF SetInsert
<1>2. k \in Guids /\ v \in Values /\ row \in Row
    BY <1>1 DEF ValuesTypeOK, Row
<1>3. ScriptValues'[k] = Append(ScriptValues[k], row) /\ last'[k] = v
    BY <1>1, <1>2 DEF ValuesTypeOK
<1>4. \A g \in Guids : g # k => /\ ScriptValues'[g] = ScriptValues[g]
                                /\ last'[g] = last[g] /\ interrupted'[g] = interrupted[g]
    BY <1>1, <1>2 DEF ValuesTypeOK
<1>5. /\ \A g \in Guids : ~Sets(p, g)'
      /\ \A q \in Processes, g \in Guids : q # p => (Sets(q, g)' <=> Sets(q, g))
    BY <1>1, IdleSetsNothing DEF ValuesTypeOK, Sets
<1>6. /\ ScriptValues[k] \in Seq(Row)
      /\ Len(ScriptValues'[k]) = Len(ScriptValues[k]) + 1
      /\ DOMAIN ScriptValues'[k] = 1 .. Len(ScriptValues[k]) + 1
      /\ DOMAIN ScriptValues[k] = 1 .. Len(ScriptValues[k])
      /\ \A i \in DOMAIN ScriptValues[k] : ScriptValues'[k][i] = ScriptValues[k][i]
      /\ ScriptValues'[k][Len(ScriptValues[k]) + 1] = row
      /\ ScriptValues'[k] # <<>>
  <2> HIDE DEF k, v, row
  <2>1. ScriptValues[k] \in Seq(Row)
    BY <1>2 DEF ValuesTypeOK
  <2>2. /\ Append(ScriptValues[k], row) \in Seq(Row)
        /\ Append(ScriptValues[k], row) # <<>>
        /\ Len(Append(ScriptValues[k], row)) = Len(ScriptValues[k]) + 1
        /\ \A i \in 1 .. Len(ScriptValues[k]) :
               Append(ScriptValues[k], row)[i] = ScriptValues[k][i]
        /\ Append(ScriptValues[k], row)[Len(ScriptValues[k]) + 1] = row
    BY <1>2, <2>1, AppendProperties, Zenon
  <2> QED
    BY <1>3, <2>1, <2>2, LenProperties
<1> HIDE DEF k, v, row
<1>7. ValuesTypeOK'
  <2>1. interrupted' \in [Guids -> BOOLEAN]
    BY <1>1, Zenon DEF ValuesTypeOK
  <2>2. ScriptValues' \in [Guids -> Seq(Row)]
    BY <1>1, <1>2, AppendProperties DEF ValuesTypeOK
  <2> QED
    BY <1>1, <1>2, <2>1, <2>2 DEF ValuesTypeOK
<1>8. OneRowPerProcess'
  <2> SUFFICES ASSUME NEW g \in Guids, NEW i \in DOMAIN ScriptValues'[g],
                      NEW j \in DOMAIN ScriptValues'[g]
               PROVE  /\ ScriptValues'[g][i].by = ScriptValues'[g][j].by => i = j
                      /\ setting'[ScriptValues'[g][i].by].guid # g
    BY DEF OneRowPerProcess
  <2>1. \A n \in DOMAIN ScriptValues[k] :
            /\ ScriptValues[k][n].by \in Processes /\ ScriptValues[k][n].by # p
            /\ ~Sets(ScriptValues[k][n].by, k)
    BY <1>2, RowsAreOfProcesses DEF OneRowPerProcess, Sets, k
  <2>2. CASE g = k
    <3> DEFINE n == Len(ScriptValues[k])
    <3>1. row.by = p /\ n \in Nat
      BY <1>6, LenProperties DEF row
    <3>2. \A m \in DOMAIN ScriptValues'[k] :
              IF m = n + 1 THEN ScriptValues'[k][m].by = p
              ELSE /\ m \in DOMAIN ScriptValues[k]
                   /\ ScriptValues'[k][m].by = ScriptValues[k][m].by
      BY <1>6, <3>1
    <3>3. setting'[ScriptValues'[g][i].by].guid # g
      <4>1. \A q \in Processes : q = p \/ setting[q].guid # g => setting'[q].guid # g
        BY <1>5 DEF Sets
      <4>2. /\ ScriptValues'[g][i].by \in Processes
            /\ ScriptValues'[g][i].by = p \/ setting[ScriptValues'[g][i].by].guid # g
        BY <2>1, <2>2, <3>2 DEF Sets
      <4> QED
        BY <4>1, <4>2
    <3>4. ScriptValues'[k][i].by = ScriptValues'[k][j].by => i = j
      BY <1>2, <2>1, <2>2, <3>2 DEF OneRowPerProcess
    <3> QED
      BY <2>2, <3>3, <3>4
  <2>3. CASE g # k
    <3>1. ScriptValues[g][i].by \in Processes
      BY <1>4, <2>3, RowsAreOfProcesses
    <3>2. ~Sets(ScriptValues[g][i].by, g)
      BY <1>4, <2>3 DEF OneRowPerProcess, Sets
    <3> QED
      BY <1>4, <1>5, <2>3, <3>1, <3>2 DEF OneRowPerProcess, Sets
  <2> QED
    BY <2>2, <2>3
<1>9. SetAlone'
  <2> SUFFICES ASSUME NEW g \in Guids, ~contested'[g], NEW q \in Processes, Sets(q, g)'
               PROVE  /\ ScriptValues'[g] = <<>>
                      /\ \A r \in Processes : Sets(r, g)' => r = q
    BY DEF SetAlone
  <2>1. ~contested[g] /\ q # p /\ Sets(q, g)
    BY <1>1, <1>5
  <2>2. g # k
    BY <2>1 DEF SetAlone, Sets, k
  <2> QED
    BY <1>4, <1>5, <2>1, <2>2 DEF SetAlone
<1>10. UncontendedRead'
  <2>1. ~contested[k] => ScriptValues[k] = <<>>
    BY <1>2 DEF SetAlone, Sets, k
  <2>2. ~contested[k] => Len(ScriptValues'[k]) = 1 /\ Head(ScriptValues'[k]) = row
    BY <1>6, <2>1
  <2>3. row.value = v
    BY DEF row
  <2> QED
    BY <1>1, <1>2, <1>3, <1>4, <2>2, <2>3 DEF UncontendedRead, GetScriptValue
<1>11. AbsentWhenInterrupted'
  <2>1. \A g \in Guids, q \in Processes : g # k /\ Sets(q, g) => Sets(q, g)'
    BY <1>5 DEF Sets, k
  <2> QED
    BY <1>4, <1>6, <2>1 DEF AbsentWhenInterrupted, Sets
<1> QED
    BY <1>7, <1>8, <1>9, <1>10, <1>11

\* An INSERT that fails, and the death of a process, leave the rows alone.
LEMMA InterruptStep ==
    ASSUME VInv, NEW p \in Processes, Interrupt(p), UNCHANGED <<ScriptValues, last,
           contested>>
    PROVE  VInv'
<1> USE DEF VInv
<1>1. /\ \A g \in Guids : ~Sets(p, g)'
      /\ \A q \in Processes, g \in Guids : q # p => (Sets(q, g)' <=> Sets(q, g))
    BY IdleSetsNothing DEF Interrupt, ValuesTypeOK, Sets
<1>2. \A g \in Guids : interrupted[g] \/ Sets(p, g) => interrupted'[g]
  <2>1. CASE setting[p] = Idle
    BY <2>1, IdleSetsNothing, Zenon DEF Interrupt, Sets
  <2>2. CASE setting[p] # Idle
    BY <2>2, Zenon DEF Interrupt, ValuesTypeOK, Sets
  <2> QED
    BY <2>1, <2>2
<1>3. ValuesTypeOK'
  <2>1. interrupted' \in [Guids -> BOOLEAN]
    BY Zenon DEF Interrupt, ValuesTypeOK
  <2> QED
    BY <2>1 DEF Interrupt, ValuesTypeOK
<1>4. OneRowPerProcess'
    BY <1>1, RowsAreOfProcesses DEF OneRowPerProcess, Sets
<1>5. SetAlone'
    BY <1>1 DEF SetAlone
<1>6. UncontendedRead'
    BY DEF UncontendedRead, GetScriptValue
<1>7. AbsentWhenInterrupted'
    BY <1>1, <1>2 DEF AbsentWhenInterrupted, Sets
<1> QED
    BY <1>3, <1>4, <1>5, <1>6, <1>7

\* The steps of the catalog leave the values alone.
LEMMA ValuesUnchanged ==
    VInv /\ UNCHANGED <<ScriptValues, setting, last, contested, interrupted>> => VInv'
BY DEF VInv, ValuesTypeOK, OneRowPerProcess, SetAlone, UncontendedRead, GetScriptValue,
       AbsentWhenInterrupted, Sets

\* Every step keeps the invariant of the values.
LEMMA NextVInv == VInv /\ [Next]_vars => VInv'
<1> SUFFICES ASSUME VInv, [Next]_vars PROVE VInv'
    OBVIOUS
<1>1. CASE UNCHANGED vars
    BY <1>1, ValuesUnchanged DEF vars, disk, history
<1>2. ASSUME NEW p \in Processes,
             \/ Start(p) \/ MarkSystemScripts(p) \/ Loaded(p) \/ LoadFails(p)
             \/ \E f \in Files : ProcessFile(p, f) \/ SkipFile(p, f)
             \/ SaveDelete(p) \/ SaveInsert(p)
      PROVE  VInv'
    BY <1>2, ValuesUnchanged
       DEF Start, MarkSystemScripts, Loaded, LoadFails, ProcessFile, SkipFile, SaveDelete,
           SaveInsert, disk, history
<1>3. ASSUME NEW p \in Processes, \E g \in Guids, v \in Values : SetDelete(p, g, v)
      PROVE  VInv'
    BY <1>3, SetDeleteStep
<1>4. ASSUME NEW p \in Processes, SetFails(p) \/ Crash(p) PROVE VInv'
    BY <1>4, InterruptStep DEF SetFails, Crash, disk
<1> QED
    BY <1>1, <1>2, <1>3, <1>4, SetInsertStep DEF Next

\* The inductive invariant of the values.
THEOREM ValuesInvariance == Spec => []VInv
    BY InitVInv, NextVInv, PTL DEF Spec

\* However the statements of the processes interleave, fail and are cut short: a
\* process leaves one row of a key at most ...
THEOREM OneRowEach == Spec => []OneRowPerProcess
<1>1. VInv => OneRowPerProcess
    BY DEF VInv
<1> QED
    BY <1>1, ValuesInvariance, PTL

\* ... the value read is the one inserted last, unless two processes set it at once ...
THEOREM ReadsLast == Spec => []UncontendedRead
<1>1. VInv => UncontendedRead
    BY DEF VInv
<1> QED
    BY <1>1, ValuesInvariance, PTL

\* ... and a value that was set is missing only if it is being set, or after a
\* SetScriptValue ended between its two statements.
THEOREM AbsentOnlyInterrupted == Spec => []AbsentWhenInterrupted
<1>1. VInv => AbsentWhenInterrupted
    BY DEF VInv
<1> QED
    BY <1>1, ValuesInvariance, PTL

----------------------------------------------------------------------------
\* The catalog.  Only the list of disabled sites comes from the table, and no
\* property is about it: a script keeps its file and its category when the user
\* settings are loaded.

IsScript(s) == s = [file |-> s.file, m_Category |-> s.m_Category,
    m_Disables |-> s.m_Disables]

\* A handle stands for one GUID, and each handle has a script with that GUID.
HandlesHaveScripts(p) ==
    /\ DOMAIN scripts[p] = Handles(p)
    /\ \A h, k \in Handles(p) : handles[p][h] = handles[p][k] => h = k
    /\ \A h \in Handles(p) :
          /\ IsScript(scripts[p][h])
          /\ scripts[p][h].file \in Files
          /\ guidOf[scripts[p][h].file] = handles[p][h]

\* The files that ScanDirectory has made scripts of.
Seen(p) == (IF phase[p] = "system" THEN SystemFiles \ left[p]
            ELSE IF phase[p] = "user" THEN Files \ left[p] ELSE Files) \ skipped[p]

SeenAreRegistered(p) ==
    /\ phase[p] = "down" => handles[p] = <<>> /\ skipped[p] = {}
    /\ phase[p] = "system" => left[p] \cup skipped[p] \subseteq SystemFiles
    /\ phase[p] = "user" => left[p] \subseteq UserFiles
    /\ left[p] \cap skipped[p] = {}
    /\ phase[p] \in {"system", "user", "running"} =>
          /\ \A f \in Seen(p) : \E h \in Handles(p) : handles[p][h] = guidOf[f]
          /\ \A h \in Handles(p) : scripts[p][h].file \in Seen(p)

\* System scripts are loaded first and marked before the user scripts come.
SystemComesFirst(p) ==
    phase[p] \in {"user", "running"} =>
        \A h \in Handles(p) :
            /\ scripts[p][h].m_Category = EC_SYSTEM <=> scripts[p][h].file \in SystemFiles
            /\ (\E f \in SystemFiles \ skipped[p] : guidOf[f] = handles[p][h]) =>
                   scripts[p][h].file \in SystemFiles

CInv ==
    /\ guidOf \in [Files -> Guids]
    /\ phase \in [Processes -> {"down", "system", "user", "running", "stuck", "closing"}]
    /\ left \in [Processes -> SUBSET Files]
    /\ skipped \in [Processes -> SUBSET Files]
    /\ handles \in [Processes -> Seq(Guids)]
    /\ scripts = [p \in Processes |-> scripts[p]]
    /\ \A p \in Processes :
          HandlesHaveScripts(p) /\ SeenAreRegistered(p) /\ SystemComesFirst(p)

\* No process has a script at first.
LEMMA InitCInv == Init => CInv
<1> SUFFICES ASSUME Init PROVE CInv
    OBVIOUS
<1>1. \A p \in Processes : /\ handles[p] = <<>> /\ scripts[p] = <<>> /\ phase[p] = "down"
                           /\ left[p] = {} /\ skipped[p] = {}
                           /\ Handles(p) = {} /\ DOMAIN scripts[p] = {}
    BY DEF Init, Handles
<1>2. handles \in [Processes -> Seq(Guids)]
    BY EmptySeq DEF Init
<1>3. \A p \in Processes :
          HandlesHaveScripts(p) /\ SeenAreRegistered(p) /\ SystemComesFirst(p)
    BY <1>1 DEF HandlesHaveScripts, SeenAreRegistered, SystemComesFirst
<1> QED
    BY <1>2, <1>3 DEF Init, CInv

\* The user settings change the number of disabled sites only.
LEMMA InitedKeepsScripts ==
    ASSUME CInv, NEW p \in Processes
    PROVE  \A h \in Handles(p) : /\ IsScript(Inited(p)[h])
                                 /\ Inited(p)[h].file = scripts[p][h].file
                                 /\ Inited(p)[h].m_Category = scripts[p][h].m_Category
<1> SUFFICES ASSUME NEW h \in Handles(p)
             PROVE  /\ IsScript(Inited(p)[h])
                    /\ Inited(p)[h].file = scripts[p][h].file
                    /\ Inited(p)[h].m_Category = scripts[p][h].m_Category
    OBVIOUS
<1>1. IsScript(scripts[p][h]) /\ h \in DOMAIN scripts[p]
    BY DEF CInv, HandlesHaveScripts
<1>2. \A d : LET s == [scripts[p][h] EXCEPT !.m_Disables = d] IN
          IsScript(s) /\ s.file = scripts[p][h].file /\ s.m_Category = scripts[p][h].m_Category
    BY <1>1 DEF IsScript
<1>3. \E d : LoadUserSettings(p)[h] = [scripts[p][h] EXCEPT !.m_Disables = d]
    BY <1>1, Zenon DEF LoadUserSettings
<1> QED
    BY <1>1, <1>2, <1>3, Zenon DEF Inited

\* What a step of p that leaves the others alone has to show.
LEMMA OneProcessSteps ==
    ASSUME CInv, NEW p \in Processes, NEW ph \in {"down", "system", "user", "running",
           "stuck", "closing"},
           NEW l \in SUBSET Files, NEW sk \in SUBSET Files, NEW hs \in Seq(Guids), NEW ss,
           phase' = [phase EXCEPT ![p] = ph], left' = [left EXCEPT ![p] = l],
           skipped' = [skipped EXCEPT ![p] = sk],
           handles' = [handles EXCEPT ![p] = hs], scripts' = [scripts EXCEPT ![p] = ss],
           UNCHANGED guidOf,
           HandlesHaveScripts(p)' /\ SeenAreRegistered(p)' /\ SystemComesFirst(p)'
    PROVE  CInv'
<1>1. \A q \in Processes : q # p =>
          /\ phase'[q] = phase[q] /\ left'[q] = left[q] /\ skipped'[q] = skipped[q]
          /\ handles'[q] = handles[q] /\ scripts'[q] = scripts[q]
    BY DEF CInv
<1>2. ASSUME NEW q \in Processes, q # p
      PROVE  HandlesHaveScripts(q)' /\ SeenAreRegistered(q)' /\ SystemComesFirst(q)'
  <2>1. /\ phase'[q] = phase[q] /\ left'[q] = left[q] /\ handles'[q] = handles[q]
        /\ scripts'[q] = scripts[q] /\ guidOf' = guidOf /\ skipped'[q] = skipped[q]
    BY <1>1, <1>2
  <2>2. Seen(q)' = Seen(q) /\ Handles(q)' = Handles(q)
    BY <2>1 DEF Seen, Handles
  <2>3. HandlesHaveScripts(q) /\ SeenAreRegistered(q) /\ SystemComesFirst(q)
    BY DEF CInv
  <2>4. HandlesHaveScripts(q)'
    BY <2>1, <2>2, <2>3 DEF HandlesHaveScripts
  <2>5. SeenAreRegistered(q)'
    BY <2>1, <2>2, <2>3 DEF SeenAreRegistered
  <2>6. SystemComesFirst(q)'
    BY <2>1, <2>2, <2>3 DEF SystemComesFirst
  <2> QED
    BY <2>4, <2>5, <2>6
<1>3. \A q \in Processes :
          HandlesHaveScripts(q)' /\ SeenAreRegistered(q)' /\ SystemComesFirst(q)'
    BY <1>2
<1>4. /\ guidOf' \in [Files -> Guids]
      /\ phase' \in [Processes -> {"down", "system", "user", "running", "stuck", "closing"}]
      /\ left' \in [Processes -> SUBSET Files]
      /\ skipped' \in [Processes -> SUBSET Files]
      /\ handles' \in [Processes -> Seq(Guids)]
      /\ scripts' = [q \in Processes |-> scripts'[q]]
    BY DEF CInv
<1> QED
    BY <1>3, <1>4 DEF CInv

\* GetHandle appends a GUID that is new, so the handles stay distinct.
LEMMA WithHandleFinds ==
    ASSUME CInv, NEW p \in Processes, NEW g \in Guids, NEW known, known = WithHandle(p, g)
    PROVE  /\ known \in Seq(Guids)
           /\ \E h \in DOMAIN known : known[h] = g
           /\ \A h \in Handles(p) : h \in DOMAIN known /\ known[h] = handles[p][h]
           /\ \A h \in DOMAIN known : h \in Handles(p) \/ known[h] = g
           /\ \A h, k \in DOMAIN known : known[h] = known[k] => h = k
<1>1. handles[p] \in Seq(Guids) /\ Handles(p) = 1 .. Len(handles[p]) /\ Len(handles[p]) \in Nat
    BY LenProperties DEF CInv, Handles
<1>2. \A h, k \in Handles(p) : handles[p][h] = handles[p][k] => h = k
    BY DEF CInv, HandlesHaveScripts
<1>3. CASE \E h \in Handles(p) : handles[p][h] = g
    BY <1>1, <1>2, <1>3 DEF WithHandle, Handles
<1>4. CASE ~\E h \in Handles(p) : handles[p][h] = g
  <2> DEFINE n == Len(handles[p])
  <2>1. /\ known \in Seq(Guids) /\ Len(known) = n + 1
        /\ \A h \in 1 .. n : known[h] = handles[p][h]
        /\ known[n + 1] = g
    BY <1>1, <1>4, AppendProperties DEF WithHandle
  <2>2. DOMAIN known = 1 .. n + 1
    BY <2>1, LenProperties
  <2> QED
    BY <1>1, <1>2, <1>4, <2>1, <2>2
<1> QED
    BY <1>3, <1>4

\* A script that ProcessFile adds has a GUID no other script has.
LEMMA ProcessFileStep ==
    ASSUME CInv, NEW p \in Processes, NEW f \in Files, ProcessFile(p, f)
    PROVE  CInv'
<1> DEFINE g == guidOf[f]
           known == WithHandle(p, g)
           handle == CHOOSE h \in DOMAIN known : known[h] = g
           new == [file |-> f, m_Category |-> EC_USER, m_Disables |-> 0]
           ss == IF handle \in DOMAIN scripts[p] THEN Inited(p)
                 ELSE [h \in DOMAIN scripts[p] \cup {handle} |->
                          IF h # handle THEN Inited(p)[h] ELSE new]
<1>1. /\ phase[p] \in {"system", "user"} /\ f \in left[p]
      /\ handles' = [handles EXCEPT ![p] = known]
      /\ scripts' = [scripts EXCEPT ![p] = ss]
      /\ left' = [left EXCEPT ![p] = left[p] \ {f}]
      /\ skipped' = [skipped EXCEPT ![p] = skipped[p]]
      /\ phase' = [phase EXCEPT ![p] = phase[p]]
      /\ guidOf' = guidOf
    BY DEF ProcessFile, AddScript, disk, CInv
<1>2. g \in Guids
    BY DEF CInv
<1>3. /\ known \in Seq(Guids)
      /\ \E h \in DOMAIN known : known[h] = g
      /\ \A h \in Handles(p) : h \in DOMAIN known /\ known[h] = handles[p][h]
      /\ \A h \in DOMAIN known : h \in Handles(p) \/ known[h] = g
      /\ \A h, k \in DOMAIN known : known[h] = known[k] => h = k
    BY <1>2, WithHandleFinds
<1> HIDE DEF known, g
<1>4. handle \in DOMAIN known /\ known[handle] = g
    BY <1>3
<1> HIDE DEF handle
<1>5. /\ DOMAIN scripts[p] = Handles(p) /\ DOMAIN Inited(p) = Handles(p)
      /\ \A h \in Handles(p) : scripts[p][h].file \in Files /\ guidOf[scripts[p][h].file] = handles[p][h]
    BY Zenon DEF CInv, HandlesHaveScripts, Inited, LoadUserSettings
<1>6. IsScript(new) /\ new.file = f /\ new.m_Category = EC_USER
    BY DEF IsScript
<1> HIDE DEF new
<1>7. /\ DOMAIN ss = DOMAIN known
      /\ \A h \in Handles(p) : /\ IsScript(ss[h]) /\ ss[h].file = scripts[p][h].file
                               /\ ss[h].m_Category = scripts[p][h].m_Category
      /\ handle \notin Handles(p) => ss[handle] = new
      /\ \A h \in DOMAIN known : h \in Handles(p) \/ h = handle
  <2>1. \A h \in DOMAIN known : h \in Handles(p) \/ h = handle
    BY <1>3, <1>4
  <2>2. DOMAIN ss = DOMAIN known
    <3>1. Handles(p) \cup {handle} = DOMAIN known
      BY <1>3, <1>4, <2>1
    <3>2. DOMAIN ss = Handles(p) \cup {handle}
      BY <1>5
    <3> QED
      BY <3>1, <3>2
  <2>3. handle \notin Handles(p) => ss[handle] = new
    BY <1>5
  <2>4. \A h \in Handles(p) : ss[h] = Inited(p)[h]
    BY <1>5
  <2> HIDE DEF ss
  <2>5. ASSUME NEW h \in Handles(p)
        PROVE  /\ IsScript(ss[h]) /\ ss[h].file = scripts[p][h].file
               /\ ss[h].m_Category = scripts[p][h].m_Category
    <3>1. /\ IsScript(Inited(p)[h]) /\ Inited(p)[h].file = scripts[p][h].file
          /\ Inited(p)[h].m_Category = scripts[p][h].m_Category
      BY InitedKeepsScripts
    <3> QED
      BY <2>4, <3>1
  <2> QED
    BY <2>1, <2>2, <2>3, <2>5
<1> HIDE DEF ss
<1>8. /\ handles'[p] = known /\ scripts'[p] = ss /\ left'[p] = left[p] \ {f}
      /\ skipped'[p] = skipped[p] /\ phase'[p] = phase[p] /\ Handles(p)' = DOMAIN known
  <2>1. /\ handles'[p] = known /\ scripts'[p] = ss /\ left'[p] = left[p] \ {f}
        /\ skipped'[p] = skipped[p] /\ phase'[p] = phase[p]
    BY <1>1 DEF CInv
  <2> QED
    BY <2>1 DEF Handles
<1>9. HandlesHaveScripts(p)'
  <2>1. guidOf' = guidOf /\ guidOf[f] = known[handle]
    BY <1>1, <1>4 DEF g
  <2>2. ASSUME NEW h \in DOMAIN known
        PROVE  IsScript(ss[h]) /\ ss[h].file \in Files /\ guidOf[ss[h].file] = known[h]
    <3>1. CASE h \in Handles(p)
      BY <1>3, <1>5, <1>7, <3>1
    <3>2. CASE h \notin Handles(p)
      BY <1>6, <1>7, <2>1, <3>2
    <3> QED
      BY <3>1, <3>2
  <2>3. DOMAIN ss = DOMAIN known /\ \A h, k \in DOMAIN known : known[h] = known[k] => h = k
    BY <1>3, <1>7
  <2> QED
    BY <1>8, <2>1, <2>2, <2>3 DEF HandlesHaveScripts
<1>10. /\ SeenAreRegistered(p) /\ SystemComesFirst(p)
       /\ Seen(p)' = Seen(p) \cup {f}
  <2>1. SeenAreRegistered(p) /\ SystemComesFirst(p) /\ left[p] \subseteq Files
    BY DEF CInv
  <2>2. CASE phase[p] = "system"
    BY <1>1, <1>8, <2>1, <2>2 DEF SeenAreRegistered, Seen
  <2>3. CASE phase[p] = "user"
    BY <1>1, <1>8, <2>1, <2>3 DEF SeenAreRegistered, Seen
  <2> QED
    BY <1>1, <2>1, <2>2, <2>3
<1>11. SeenAreRegistered(p)'
  <2>1. \A x \in Seen(p)' : \E h \in DOMAIN known : known[h] = guidOf[x]
    BY <1>1, <1>3, <1>10 DEF SeenAreRegistered, g
  <2>2. \A h \in DOMAIN known : ss[h].file \in Seen(p)'
    BY <1>1, <1>6, <1>7, <1>10 DEF SeenAreRegistered
  <2> QED
    BY <1>1, <1>8, <1>10, <2>1, <2>2 DEF SeenAreRegistered
<1>12. SystemComesFirst(p)'
  <2> SUFFICES ASSUME phase[p] = "user", NEW h \in DOMAIN known
               PROVE  /\ ss[h].m_Category = EC_SYSTEM <=> ss[h].file \in SystemFiles
                      /\ (\E x \in SystemFiles \ skipped[p] : guidOf[x] = known[h]) =>
                             ss[h].file \in SystemFiles
    BY <1>1, <1>8 DEF SystemComesFirst
  <2>1. CASE h \in Handles(p)
    BY <1>3, <1>7, <1>10, <2>1 DEF SystemComesFirst
  <2>2. CASE h \notin Handles(p)
    <3>1. h = handle /\ ss[h].file = f /\ ss[h].m_Category = EC_USER /\ f \notin SystemFiles
      BY <1>1, <1>6, <1>7, <1>10, <2>2 DEF SeenAreRegistered, UserFiles
    <3>2. \A x \in SystemFiles \ skipped[p] : \E k \in Handles(p) : handles[p][k] = guidOf[x]
      BY <1>1, <1>10, StoreAssumption DEF SeenAreRegistered, Seen, UserFiles
    <3>3. \A x \in SystemFiles \ skipped[p] : guidOf[x] # known[h]
      BY <1>3, <2>2, <3>2
    <3> QED
      BY <3>1, <3>3 DEF EC_USER, EC_SYSTEM
  <2> QED
    BY <2>1, <2>2
<1> QED
    BY <1>1, <1>3, <1>9, <1>11, <1>12, OneProcessSteps DEF CInv

\* A file that is passed over is none of those that ScanDirectory has made scripts of.
LEMMA SkipFileStep ==
    ASSUME CInv, NEW p \in Processes, NEW f \in Files, SkipFile(p, f)
    PROVE  CInv'
<1>1. /\ phase[p] \in {"system", "user"} /\ f \in left[p]
      /\ handles' = [handles EXCEPT ![p] = handles[p]]
      /\ scripts' = [scripts EXCEPT ![p] = scripts[p]]
      /\ left' = [left EXCEPT ![p] = left[p] \ {f}]
      /\ skipped' = [skipped EXCEPT ![p] = skipped[p] \cup {f}]
      /\ phase' = [phase EXCEPT ![p] = phase[p]]
      /\ guidOf' = guidOf
    BY DEF SkipFile, disk, CInv
<1>2. /\ HandlesHaveScripts(p) /\ SeenAreRegistered(p) /\ SystemComesFirst(p)
      /\ left[p] \in SUBSET Files /\ skipped[p] \in SUBSET Files
      /\ handles[p] \in Seq(Guids)
    BY DEF CInv
<1>3. /\ handles'[p] = handles[p] /\ scripts'[p] = scripts[p] /\ phase'[p] = phase[p]
      /\ left'[p] = left[p] \ {f} /\ skipped'[p] = skipped[p] \cup {f}
      /\ Handles(p)' = Handles(p)
    BY <1>1 DEF CInv, Handles
<1>4. Seen(p)' = Seen(p)
    BY <1>1, <1>3 DEF Seen
<1>5. HandlesHaveScripts(p)'
    BY <1>1, <1>2, <1>3 DEF HandlesHaveScripts
<1>6. SeenAreRegistered(p)'
    BY <1>1, <1>2, <1>3, <1>4 DEF SeenAreRegistered
<1>7. SystemComesFirst(p)'
    BY <1>1, <1>2, <1>3 DEF SystemComesFirst
<1> QED
    BY <1>1, <1>2, <1>5, <1>6, <1>7, OneProcessSteps

\* The process is down, or ends: it has no scripts.
LEMMA NoScriptsNoWorry ==
    ASSUME NEW p, Handles(p) = {}, DOMAIN scripts[p] = {}, phase[p] \notin {"system",
           "user", "running"},
           phase[p] = "down" => handles[p] = <<>> /\ skipped[p] = {},
           left[p] \cap skipped[p] = {}
    PROVE  HandlesHaveScripts(p) /\ SeenAreRegistered(p) /\ SystemComesFirst(p)
BY DEF HandlesHaveScripts, SeenAreRegistered, SystemComesFirst

\* The scan of the system scripts begins.
LEMMA StartStep ==
    ASSUME CInv, NEW p \in Processes, Start(p) PROVE CInv'
<1>1. /\ phase[p] = "down"
      /\ phase' = [phase EXCEPT ![p] = "system"]
      /\ left' = [left EXCEPT ![p] = SystemFiles]
      /\ skipped' = [skipped EXCEPT ![p] = skipped[p]]
      /\ handles' = [handles EXCEPT ![p] = handles[p]]
      /\ scripts' = [scripts EXCEPT ![p] = scripts[p]]
      /\ guidOf' = guidOf
    BY DEF Start, disk, CInv
<1>2. /\ handles[p] = <<>> /\ Handles(p) = {} /\ DOMAIN scripts[p] = {}
      /\ skipped[p] = {} /\ handles[p] \in Seq(Guids)
    BY <1>1 DEF CInv, HandlesHaveScripts, SeenAreRegistered, Handles
<1>3. /\ Handles(p)' = {} /\ DOMAIN scripts'[p] = {} /\ phase'[p] = "system"
      /\ left'[p] = SystemFiles /\ skipped'[p] = {}
    BY <1>1, <1>2 DEF CInv, Handles
<1>4. HandlesHaveScripts(p)' /\ SeenAreRegistered(p)' /\ SystemComesFirst(p)'
    BY <1>3 DEF HandlesHaveScripts, SeenAreRegistered, SystemComesFirst, Seen
<1> QED
    BY <1>1, <1>2, <1>4, StoreAssumption, OneProcessSteps

\* At the end of the loop over the system scripts every script is one.
LEMMA MarkSystemScriptsStep ==
    ASSUME CInv, NEW p \in Processes, MarkSystemScripts(p) PROVE CInv'
<1> DEFINE ss == [h \in DOMAIN scripts[p] |-> [Inited(p)[h] EXCEPT !.m_Category = EC_SYSTEM]]
<1>1. /\ phase[p] = "system" /\ left[p] = {}
      /\ phase' = [phase EXCEPT ![p] = "user"]
      /\ left' = [left EXCEPT ![p] = UserFiles]
      /\ skipped' = [skipped EXCEPT ![p] = skipped[p]]
      /\ handles' = [handles EXCEPT ![p] = handles[p]]
      /\ scripts' = [scripts EXCEPT ![p] = ss]
      /\ guidOf' = guidOf
    BY DEF MarkSystemScripts, disk, CInv
<1>2. /\ HandlesHaveScripts(p) /\ SeenAreRegistered(p) /\ handles[p] \in Seq(Guids)
      /\ skipped[p] \in SUBSET Files
    BY DEF CInv
<1>3. /\ DOMAIN ss = Handles(p)
      /\ \A h \in Handles(p) : /\ IsScript(ss[h]) /\ ss[h].file = scripts[p][h].file
                               /\ ss[h].m_Category = EC_SYSTEM
  <2>1. \A s, t : IsScript(s) /\ t = [s EXCEPT !.m_Category = EC_SYSTEM] =>
            IsScript(t) /\ t.file = s.file /\ t.m_Category = EC_SYSTEM
    BY DEF IsScript
  <2>2. DOMAIN ss = Handles(p)
    BY <1>2 DEF HandlesHaveScripts
  <2>3. \A h \in Handles(p) : ss[h] = [Inited(p)[h] EXCEPT !.m_Category = EC_SYSTEM]
    BY <1>2 DEF HandlesHaveScripts
  <2> HIDE DEF ss
  <2>4. \A h \in Handles(p) : /\ IsScript(Inited(p)[h])
                              /\ Inited(p)[h].file = scripts[p][h].file
    BY InitedKeepsScripts
  <2> QED
    BY <2>1, <2>2, <2>3, <2>4
<1> HIDE DEF ss
<1>4. /\ handles'[p] = handles[p] /\ scripts'[p] = ss /\ phase'[p] = "user"
      /\ left'[p] = UserFiles /\ skipped'[p] = skipped[p] /\ Handles(p)' = Handles(p)
    BY <1>1 DEF CInv, Handles
<1>5. /\ Seen(p) = SystemFiles \ skipped[p] /\ Seen(p)' = SystemFiles \ skipped[p]
      /\ skipped[p] \subseteq SystemFiles
    BY <1>1, <1>2, <1>4, StoreAssumption DEF Seen, UserFiles, SeenAreRegistered
<1>6. HandlesHaveScripts(p)'
    BY <1>1, <1>2, <1>3, <1>4 DEF HandlesHaveScripts
<1>7. SeenAreRegistered(p)'
    BY <1>1, <1>2, <1>3, <1>4, <1>5 DEF SeenAreRegistered, UserFiles
<1>8. SystemComesFirst(p)'
    BY <1>1, <1>2, <1>3, <1>4, <1>5 DEF SystemComesFirst, SeenAreRegistered
<1>9. UserFiles \in SUBSET Files
    BY DEF UserFiles
<1> QED
    BY <1>1, <1>2, <1>6, <1>7, <1>8, <1>9, OneProcessSteps

\* The scan ends when no user script is left.
LEMMA LoadedStep ==
    ASSUME CInv, NEW p \in Processes, Loaded(p) PROVE CInv'
<1>1. /\ phase[p] = "user" /\ left[p] = {}
      /\ phase' = [phase EXCEPT ![p] = "running"]
      /\ left' = [left EXCEPT ![p] = left[p]]
      /\ skipped' = [skipped EXCEPT ![p] = skipped[p]]
      /\ handles' = [handles EXCEPT ![p] = handles[p]]
      /\ scripts' = [scripts EXCEPT ![p] = scripts[p]]
      /\ guidOf' = guidOf
    BY DEF Loaded, disk, catalog, CInv
<1>2. HandlesHaveScripts(p) /\ SeenAreRegistered(p) /\ SystemComesFirst(p)
    BY DEF CInv
<1>3. /\ handles'[p] = handles[p] /\ scripts'[p] = scripts[p] /\ phase'[p] = "running"
      /\ Handles(p)' = Handles(p)
    BY <1>1 DEF CInv, Handles
<1>4. /\ Seen(p) = Files \ skipped[p] /\ Seen(p)' = Files \ skipped[p]
      /\ left'[p] = {} /\ skipped'[p] = skipped[p]
    BY <1>1, <1>3 DEF Seen, CInv
<1>5. HandlesHaveScripts(p)'
    BY <1>1, <1>2, <1>3 DEF HandlesHaveScripts
<1>6. SeenAreRegistered(p)'
    BY <1>1, <1>2, <1>3, <1>4 DEF SeenAreRegistered
<1>7. SystemComesFirst(p)'
    BY <1>1, <1>2, <1>3, <1>4 DEF SystemComesFirst
<1>8. left[p] \in SUBSET Files /\ skipped[p] \in SUBSET Files /\ handles[p] \in Seq(Guids)
    BY DEF CInv
<1> QED
    BY <1>1, <1>5, <1>6, <1>7, <1>8, OneProcessSteps

\* A process that is stuck, or saves its settings, loads no more.
LEMMA StopsLoading ==
    ASSUME CInv, NEW p \in Processes, NEW ph \in {"stuck", "closing"},
           NEW l \in SUBSET left[p],
           phase' = [phase EXCEPT ![p] = ph], left' = [left EXCEPT ![p] = l],
           UNCHANGED <<guidOf, skipped, handles, scripts>>
    PROVE  CInv'
<1>1. /\ handles' = [handles EXCEPT ![p] = handles[p]]
      /\ scripts' = [scripts EXCEPT ![p] = scripts[p]]
      /\ skipped' = [skipped EXCEPT ![p] = skipped[p]]
    BY DEF CInv
<1>2. /\ HandlesHaveScripts(p) /\ SeenAreRegistered(p) /\ handles[p] \in Seq(Guids)
      /\ l \in SUBSET Files /\ skipped[p] \in SUBSET Files
    BY DEF CInv
<1>3. /\ handles'[p] = handles[p] /\ scripts'[p] = scripts[p] /\ phase'[p] = ph
      /\ Handles(p)' = Handles(p) /\ left'[p] = l /\ skipped'[p] = skipped[p]
    BY DEF CInv, Handles
<1>4. HandlesHaveScripts(p)'
    BY <1>2, <1>3 DEF HandlesHaveScripts
<1>5. SeenAreRegistered(p)' /\ SystemComesFirst(p)'
    BY <1>2, <1>3 DEF SeenAreRegistered, SystemComesFirst
<1> QED
    BY <1>1, <1>2, <1>4, <1>5, OneProcessSteps

\* A process that ends forgets its catalog.
LEMMA ForgetStep ==
    ASSUME CInv, NEW p \in Processes, Forget(p), UNCHANGED guidOf PROVE CInv'
<1>1. /\ Handles(p)' = {} /\ DOMAIN scripts'[p] = {} /\ phase'[p] = "down"
      /\ handles'[p] = <<>> /\ left'[p] = {} /\ skipped'[p] = {}
    BY DEF Forget, CInv, Handles
<1>2. HandlesHaveScripts(p)' /\ SeenAreRegistered(p)' /\ SystemComesFirst(p)'
    BY <1>1 DEF HandlesHaveScripts, SeenAreRegistered, SystemComesFirst
<1>3. <<>> \in Seq(Guids)
    BY EmptySeq
<1> QED
    BY <1>2, <1>3, OneProcessSteps DEF Forget

\* The steps of the values leave the catalog alone.
LEMMA CatalogUnchanged ==
    CInv /\ UNCHANGED <<guidOf, phase, left, skipped, handles, scripts>> => CInv'
<1> SUFFICES ASSUME CInv, UNCHANGED <<guidOf, phase, left, skipped, handles, scripts>> PROVE CInv'
    OBVIOUS
<1>1. \A p \in Processes : Handles(p)' = Handles(p) /\ Seen(p)' = Seen(p)
    BY DEF Handles, Seen
<1>2. \A p \in Processes :
          HandlesHaveScripts(p)' /\ SeenAreRegistered(p)' /\ SystemComesFirst(p)'
    BY <1>1 DEF CInv, HandlesHaveScripts, SeenAreRegistered, SystemComesFirst
<1> QED
    BY <1>2 DEF CInv

\* Every step keeps the invariant of the catalog.
LEMMA NextCInv == CInv /\ [Next]_vars => CInv'
<1> SUFFICES ASSUME CInv, [Next]_vars PROVE CInv'
    OBVIOUS
<1>1. CASE UNCHANGED vars
    BY <1>1, CatalogUnchanged DEF vars, disk, catalog
<1>2. ASSUME NEW p \in Processes,
             \/ SetInsert(p) \/ SetFails(p)
             \/ \E g \in Guids, v \in Values : SetDelete(p, g, v)
      PROVE  CInv'
    BY <1>2, CatalogUnchanged DEF SetInsert, SetFails, SetDelete, disk, catalog
<1>3. ASSUME NEW p \in Processes, SaveInsert(p) \/ Crash(p) PROVE CInv'
    BY <1>3, ForgetStep DEF SaveInsert, Crash, disk
<1>4. ASSUME NEW p \in Processes, LoadFails(p) PROVE CInv'
  <2>1. /\ phase' = [phase EXCEPT ![p] = "stuck"] /\ left' = [left EXCEPT ![p] = {}]
        /\ UNCHANGED <<guidOf, skipped, handles, scripts>>
    BY <1>4 DEF LoadFails, disk
  <2> QED
    BY <2>1, StopsLoading
<1>5. ASSUME NEW p \in Processes, SaveDelete(p) PROVE CInv'
  <2>1. /\ phase' = [phase EXCEPT ![p] = "closing"] /\ left' = [left EXCEPT ![p] = left[p]]
        /\ UNCHANGED <<guidOf, skipped, handles, scripts>>
    BY <1>5 DEF SaveDelete, catalog, CInv
  <2> QED
    BY <2>1, StopsLoading
<1> QED
    BY <1>1, <1>2, <1>3, <1>4, <1>5, StartStep, ProcessFileStep, SkipFileStep,
       MarkSystemScriptsStep, LoadedStep DEF Next

\* The inductive invariant of the catalog.
THEOREM CatalogInvariance == Spec => []CInv
    BY InitCInv, NextCInv, PTL DEF Spec

\* The scripts of a running process are those of the files it could read, in whatever
\* order they were found, and a system script is not replaced by a user script.
THEOREM CatalogIsDisk == Spec => []CatalogMatchesDisk
<1>1. CInv => CatalogMatchesDisk
  <2> SUFFICES ASSUME CInv, NEW p \in Processes, phase[p] = "running"
               PROVE  /\ Registered(p) = {guidOf[f] : f \in Files \ skipped[p]}
                      /\ \A h \in DOMAIN scripts[p] :
                            /\ guidOf[scripts[p][h].file] = handles[p][h]
                            /\ scripts[p][h].m_Category = EC_SYSTEM
                                   <=> scripts[p][h].file \in SystemFiles
                            /\ (\E f \in SystemFiles \ skipped[p] : guidOf[f] = handles[p][h]) =>
                                   scripts[p][h].file \in SystemFiles
      BY DEF CatalogMatchesDisk
  <2>1. HandlesHaveScripts(p) /\ SeenAreRegistered(p) /\ SystemComesFirst(p)
      BY DEF CInv
  <2>2. Registered(p) = {guidOf[f] : f \in Files \ skipped[p]}
      BY <2>1 DEF HandlesHaveScripts, SeenAreRegistered, Registered, Seen
  <2> QED
      BY <2>1, <2>2 DEF HandlesHaveScripts, SystemComesFirst
<1> QED
    BY <1>1, CatalogInvariance, PTL
----------------------------------------------------------------------------
\* The types of what is left, which are kept because the handles are distinct: at most
\* one script of a process has a GUID.

SettingsTyped ==
    /\ DisabledScripts \in [Guids -> Nat]
    /\ m_Inited \in [Processes -> BOOLEAN]
    /\ \A p \in Processes : scripts[p] \in [DOMAIN scripts[p] -> Script]
    /\ sets \in Nat

\* The disabled sites of the scripts S of a table.
DisablesOf(ss, S) == MapThenSumSet(LAMBDA h : ss[h].m_Disables, S)

\* The disabled sites of no script.
LEMMA SumOfNone ==
    ASSUME NEW ss
    PROVE  DisablesOf(ss, {}) = 0
BY DEF DisablesOf, MapThenSumSet, MapThenFoldSet

\* The disabled sites of one script.  The function that the sum is defined with exists.
LEMMA SumOfOne ==
    ASSUME NEW ss, NEW x, ss[x].m_Disables \in Nat
    PROVE  DisablesOf(ss, {x}) = ss[x].m_Disables
<1> DEFINE pick(s) == CHOOSE y \in s : TRUE
           sum(it) == [s \in SUBSET {x} |->
                          IF s = {} THEN 0 ELSE ss[pick(s)].m_Disables + it[s \ {pick(s)}]]
           total == CHOOSE it : it = sum(it)
           one == [s \in SUBSET {x} |-> IF s = {} THEN 0 ELSE ss[x].m_Disables]
<1>1. SUBSET {x} = {{}, {x}} /\ pick({x}) = x
    OBVIOUS
<1>2. ASSUME NEW it
      PROVE  sum(it) = [s \in SUBSET {x} |-> IF s = {} THEN 0 ELSE ss[x].m_Disables + it[{}]]
  <2> SUFFICES ASSUME NEW s \in SUBSET {x}, s # {}
               PROVE  ss[pick(s)].m_Disables + it[s \ {pick(s)}] = ss[x].m_Disables + it[{}]
    OBVIOUS
  <2>1. pick(s) = x /\ s \ {pick(s)} = {}
    BY <1>1
  <2> HIDE DEF pick
  <2> QED
    BY <2>1
<1>3. one = sum(one)
  <2>1. one[{}] = 0
    BY <1>1
  <2>2. one = [s \in SUBSET {x} |-> IF s = {} THEN 0 ELSE ss[x].m_Disables + one[{}]]
    BY <2>1
  <2> HIDE DEF one, sum
  <2> QED
    BY <1>2, <2>2
<1>4. total = sum(total)
  <2> HIDE DEF sum, one
  <2> QED
    BY <1>3
<1>5. total[{x}] = ss[x].m_Disables
  <2> HIDE DEF total, sum
  <2>1. total = [s \in SUBSET {x} |-> IF s = {} THEN 0 ELSE ss[x].m_Disables + total[{}]]
    BY <1>2, <1>4
  <2>2. total[{}] = 0 /\ total[{x}] = ss[x].m_Disables + total[{}]
    BY <1>1, <2>1
  <2> QED
    BY <2>2
<1>6. DisablesOf(ss, {x}) = total[{x}]
    BY DEF DisablesOf, MapThenSumSet, MapThenFoldSet
<1> HIDE DEF total
<1> QED
    BY <1>5, <1>6

\* The user settings are those of the table.
LEMMA InitedTyped ==
    ASSUME CInv, SettingsTyped, NEW p \in Processes
    PROVE  Inited(p) \in [Handles(p) -> Script]
<1>1. /\ scripts[p] \in [Handles(p) -> Script] /\ DOMAIN scripts[p] = Handles(p)
      /\ \A h \in Handles(p) : RowsLeft(handles[p][h]) \in Nat
  <2>1. DOMAIN scripts[p] = Handles(p) /\ handles[p] \in Seq(Guids)
    BY DEF CInv, HandlesHaveScripts
  <2>2. \A h \in Handles(p) : handles[p][h] \in Guids
    BY <2>1, ElementOfSeq, LenProperties DEF Handles
  <2>3. ASSUME NEW g \in Guids PROVE RowsLeft(g) \in Nat
    <3>1. DisabledScripts[g] \in Nat
      BY DEF SettingsTyped
    <3>2. \/ RowsLeft(g) = DisabledScripts[g]
          \/ /\ RowsLeft(g) = DisabledScripts[g] - 1
             /\ DisabledScripts[g] > 0
      BY Zenon DEF RowsLeft
    <3> QED
      BY <3>1, <3>2
  <2> QED
    BY <2>1, <2>2, <2>3 DEF SettingsTyped
<1>2. /\ DOMAIN LoadUserSettings(p) = Handles(p)
      /\ LoadUserSettings(p) = [h \in Handles(p) |-> LoadUserSettings(p)[h]]
    BY <1>1, Zenon DEF LoadUserSettings
<1>3. ASSUME NEW h \in Handles(p)
      PROVE  LoadUserSettings(p)[h] \in Script
  <2>1. \/ LoadUserSettings(p)[h] =
               [scripts[p][h] EXCEPT !.m_Disables = RowsLeft(handles[p][h])]
        \/ LoadUserSettings(p)[h] =
               [scripts[p][h] EXCEPT !.m_Disables = scripts[p][h].m_Disables]
    BY <1>1, Zenon DEF LoadUserSettings
  <2>2. scripts[p][h] \in Script /\ RowsLeft(handles[p][h]) \in Nat
    BY <1>1
  <2> QED
    BY <2>1, <2>2 DEF Script
<1>4. LoadUserSettings(p) \in [Handles(p) -> Script]
    BY <1>2, <1>3, Zenon
<1> QED
    BY <1>1, <1>4 DEF Inited

\* A step that leaves the tables alone and gives one process other scripts.
LEMMA ScriptsTyped ==
    ASSUME CInv, SettingsTyped, NEW p \in Processes, NEW ss, NEW D,
           ss \in [D -> Script], scripts' = [scripts EXCEPT ![p] = ss],
           m_Inited' \in [Processes -> BOOLEAN],
           UNCHANGED <<DisabledScripts, sets>>
    PROVE  SettingsTyped'
<1>1. scripts'[p] = ss /\ \A q \in Processes : q # p => scripts'[q] = scripts[q]
    BY DEF CInv
<1>2. ASSUME NEW q \in Processes PROVE scripts'[q] \in [DOMAIN scripts'[q] -> Script]
    BY <1>1 DEF SettingsTyped
<1> QED
    BY <1>2 DEF SettingsTyped

\* The script of a file is new, and the others keep their types.
LEMMA ProcessFileTyped ==
    ASSUME CInv, SettingsTyped, NEW p \in Processes, NEW f \in Files, ProcessFile(p, f)
    PROVE  SettingsTyped'
<1> DEFINE new == [file |-> f, m_Category |-> EC_USER, m_Disables |-> 0]
<1> DEFINE known == WithHandle(p, guidOf[f])
           found == CHOOSE h \in DOMAIN known : known[h] = guidOf[f]
<1>1. PICK handle :
          scripts' = [scripts EXCEPT ![p] =
              IF handle \in DOMAIN scripts[p] THEN Inited(p)
              ELSE [h \in DOMAIN scripts[p] \cup {handle} |->
                       IF h # handle THEN Inited(p)[h] ELSE new]]
  <2>1. scripts' = [scripts EXCEPT ![p] =
              IF found \in DOMAIN scripts[p] THEN Inited(p)
              ELSE [h \in DOMAIN scripts[p] \cup {found} |->
                       IF h # found THEN Inited(p)[h] ELSE new]]
    BY DEF ProcessFile, AddScript, disk, CInv
  <2> HIDE DEF found
  <2> QED
    BY <2>1
<1>2. /\ DOMAIN scripts[p] = Handles(p) /\ new \in Script
      /\ Inited(p) \in [Handles(p) -> Script]
    BY InitedTyped DEF CInv, HandlesHaveScripts, Script
<1>3. PICK ss : ss = IF handle \in DOMAIN scripts[p] THEN Inited(p)
                     ELSE [h \in DOMAIN scripts[p] \cup {handle} |->
                              IF h # handle THEN Inited(p)[h] ELSE new]
    OBVIOUS
<1>4. PICK D : ss \in [D -> Script]
  <2>1. CASE handle \in Handles(p)
    BY <1>2, <1>3, <2>1
  <2>2. CASE handle \notin Handles(p)
    <3>1. ss \in [Handles(p) \cup {handle} -> Script]
      BY <1>2, <1>3, <2>2
    <3> QED
      BY <3>1
  <2> QED
    BY <2>1, <2>2
<1>5. scripts' = [scripts EXCEPT ![p] = ss]
    BY <1>1, <1>3, Zenon
<1>6. m_Inited' \in [Processes -> BOOLEAN] /\ UNCHANGED <<DisabledScripts, sets>>
    BY DEF ProcessFile, disk, SettingsTyped
<1> QED
    BY <1>4, <1>5, <1>6, ScriptsTyped

\* The scripts that are marked are system scripts.
LEMMA MarkTyped ==
    ASSUME CInv, SettingsTyped, NEW p \in Processes, MarkSystemScripts(p)
    PROVE  SettingsTyped'
<1> DEFINE ss == [h \in DOMAIN scripts[p] |-> [Inited(p)[h] EXCEPT !.m_Category = EC_SYSTEM]]
<1>1. DOMAIN scripts[p] = Handles(p) /\ Inited(p) \in [Handles(p) -> Script]
    BY InitedTyped DEF CInv, HandlesHaveScripts
<1>2. \A s \in Script : [s EXCEPT !.m_Category = EC_SYSTEM] \in Script
    BY DEF Script
<1>3. ss \in [Handles(p) -> Script]
    BY <1>1, <1>2
<1>4. /\ scripts' = [scripts EXCEPT ![p] = ss]
      /\ m_Inited' \in [Processes -> BOOLEAN] /\ UNCHANGED <<DisabledScripts, sets>>
    BY DEF MarkSystemScripts, disk, SettingsTyped
<1> QED
    BY <1>3, <1>4, ScriptsTyped

\* The process has no scripts any more.
LEMMA ForgetTyped ==
    ASSUME CInv, SettingsTyped, NEW p \in Processes, Forget(p), sets' = sets,
           DisabledScripts' \in [Guids -> Nat]
    PROVE  SettingsTyped'
<1>1. /\ scripts'[p] = <<>> /\ \A q \in Processes : q # p => scripts'[q] = scripts[q]
      /\ m_Inited' \in [Processes -> BOOLEAN]
    BY DEF Forget, CInv, SettingsTyped
<1>2. <<>> \in [DOMAIN <<>> -> Script]
  <2>1. DOMAIN <<>> = {} /\ <<>> = [h \in {} |-> 0]
    OBVIOUS
  <2> QED
    BY <2>1
<1>3. ASSUME NEW q \in Processes PROVE scripts'[q] \in [DOMAIN scripts'[q] -> Script]
    BY <1>1, <1>2 DEF SettingsTyped
<1> QED
    BY <1>1, <1>3 DEF SettingsTyped

\* The rows of a script in the table of disabled sites are those of one handle.
LEMMA SaveTyped ==
    ASSUME CInv, SettingsTyped, NEW p \in Processes, SaveInsert(p)
    PROVE  SettingsTyped'
<1> DEFINE Of(g) == {h \in DOMAIN scripts[p] : handles[p][h] = g}
           Rows(g) == DisablesOf(scripts[p], Of(g))
<1>1. ASSUME NEW g \in Guids PROVE Rows(g) \in Nat
  <2>1. CASE Of(g) = {}
    <3>1. Rows(g) = 0
      BY <2>1, SumOfNone
    <3> QED
      BY <3>1
  <2>2. CASE Of(g) # {}
    <3>1. PICK x : x \in Of(g)
      BY <2>2
    <3>2. Of(g) = {x}
      BY <3>1 DEF CInv, HandlesHaveScripts
    <3>3. scripts[p][x].m_Disables \in Nat
      BY <3>1 DEF SettingsTyped, Script
    <3>4. Rows(g) = scripts[p][x].m_Disables
      BY <3>2, <3>3, SumOfOne
    <3> QED
      BY <3>3, <3>4
  <2> QED
    BY <2>1, <2>2
<1>2. DisabledScripts' = [g \in Guids |-> DisabledScripts[g] + 2 * Rows(g)]
    BY Zenon DEF SaveInsert, DisablesOf
<1> HIDE DEF Rows
<1>3. DisabledScripts' \in [Guids -> Nat]
    BY <1>1, <1>2 DEF SettingsTyped
<1>4. Forget(p) /\ sets' = sets
    BY DEF SaveInsert
<1> QED
    BY <1>3, <1>4, ForgetTyped

\* Every step keeps the types.
LEMMA SettingsKept == CInv /\ SettingsTyped /\ [Next]_vars => SettingsTyped'
<1> SUFFICES ASSUME CInv, SettingsTyped, [Next]_vars PROVE SettingsTyped'
    OBVIOUS
<1>1. ASSUME UNCHANGED <<DisabledScripts, m_Inited, scripts>>, sets' \in Nat
      PROVE  SettingsTyped'
    BY <1>1 DEF SettingsTyped
<1>2. CASE UNCHANGED vars
    BY <1>1, <1>2 DEF vars, disk, catalog, SettingsTyped
<1>3. ASSUME NEW p \in Processes,
             \/ Start(p) \/ Loaded(p) \/ LoadFails(p) \/ SetInsert(p) \/ SetFails(p)
             \/ \E f \in Files : SkipFile(p, f)
      PROVE  SettingsTyped'
    BY <1>1, <1>3
       DEF Start, SkipFile, Loaded, LoadFails, SetInsert, SetFails, disk, catalog,
           SettingsTyped
<1>4. ASSUME NEW p \in Processes, NEW g \in Guids, NEW v \in Values, SetDelete(p, g, v)
      PROVE  SettingsTyped'
  <2>1. /\ UNCHANGED <<DisabledScripts, m_Inited, scripts>>
        /\ sets' = sets + 1
    BY <1>4 DEF SetDelete, catalog
  <2>2. sets' \in Nat
    BY <2>1, StoreAssumption DEF SettingsTyped
  <2> QED
    BY <1>1, <2>1, <2>2
<1>5. ASSUME NEW p \in Processes, SaveDelete(p) PROVE SettingsTyped'
    BY <1>5 DEF SaveDelete, catalog, SettingsTyped
<1>6. ASSUME NEW p \in Processes, Crash(p) PROVE SettingsTyped'
    BY <1>6, ForgetTyped DEF Crash, disk, SettingsTyped
<1> QED
    BY <1>2, <1>3, <1>4, <1>5, <1>6, ProcessFileTyped, MarkTyped, SaveTyped DEF Next

\* The state has the types that the code gives it: a handle that has a script is one that
\* the handle manager gave out, and a row is of a process and has a value.
THEOREM TypeCorrect == Spec => []TypeOK
<1>1. Init => SettingsTyped
  <2> SUFFICES ASSUME Init PROVE SettingsTyped
    OBVIOUS
  <2>1. <<>> \in [DOMAIN <<>> -> Script]
    <3>1. DOMAIN <<>> = {} /\ <<>> = [h \in {} |-> 0]
      OBVIOUS
    <3> QED
      BY <3>1
  <2>2. \A p \in Processes : scripts[p] = <<>>
    BY DEF Init
  <2>3. DisabledScripts \in [Guids -> Nat] /\ m_Inited \in [Processes -> BOOLEAN]
    BY DEF Init
  <2>4. sets \in Nat
    BY StoreAssumption DEF Init
  <2> QED
    BY <2>1, <2>2, <2>3, <2>4 DEF SettingsTyped
<1>2. CInv /\ VInv /\ SettingsTyped => TypeOK
    BY DEF CInv, HandlesHaveScripts, VInv, ValuesTypeOK, SettingsTyped, TypeOK
<1> QED
    BY <1>1, <1>2, SettingsKept, CatalogInvariance, ValuesInvariance, PTL DEF Spec
=============================================================================
