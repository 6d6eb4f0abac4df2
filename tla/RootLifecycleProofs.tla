------------------------ MODULE RootLifecycleProofs ------------------------
(***************************************************************************)
(* The safety of the root and of its UI thread, for any set of objects,    *)
(* any number of roots and any number of turns that RunUIThread waits.     *)
(***************************************************************************)
EXTENDS RootLifecycle, FiniteSetTheorems, TLAPS

\* The reference count is the number of the objects, at every moment.
ObjectsCounted ==
    IsFiniteSet(objects) /\ giRootInitRefcount = Cardinality(objects)

\* Whoever is inside gRootCS waits there for the first object or after the last one;
\* the root is there with the objects, and while somebody waits.
RootMatchesPhase ==
    /\ inRoot = NoObject <=> phase = "none"
    /\ inRoot # NoObject => objects = {}
    /\ alive = IF objects = {} /\ inRoot = NoObject THEN {} ELSE {gpUpgradrRoot}

\* The pointer was last set to the root made last.
PointsToNewest == \A r \in Roots : uiThread[r] # "none" <=> r <= gpUpgradrRoot

\* Nothing is left in a root that is yet to be made.
UnmadeIsFresh ==
    \A r \in Roots : uiThread[r] = "none" => ~m_Inited[r] /\ ~m_Ready[r] /\ r \notin quit

\* The flags of a manager follow its UI thread.
FlagsFollowThread ==
    \A r \in Roots :
        /\ m_Ready[r] => uiThread[r] \in {"loop", "cleanup"}
        /\ uiThread[r] \in {"window", "loop"} => m_MessageWindow[r]

\* A UI thread is told to quit only by the object that joins it.
AliveUntilJoined ==
    \A r \in alive : phase # "joins" =>
        r \notin quit /\ uiThread[r] \in {"started", "window", "loop"}

IInv ==
    /\ TypeOK
    /\ ObjectsCounted
    /\ RootMatchesPhase
    /\ PointsToNewest
    /\ UnmadeIsFresh
    /\ FlagsFollowThread
    /\ AliveUntilJoined
    /\ InitedMeansServed
    /\ ManagerOutlivesThread

\* The types of what is no flag of a root.
LEMMA NumbersAreTyped ==
    IInv => /\ giRootInitRefcount \in Nat
            /\ gpUpgradrRoot \in 0 .. MaxRoots
            /\ iCounter \in 0 .. MaxPolls
            /\ sitesLeft \in 0 .. MaxSites
            /\ objects \subseteq Objects
            /\ inRoot \in Objects \cup {NoObject}
BY Zenon DEF IInv, TypeOK

\* The invariant holds at first.
LEMMA InitIInv == Init => IInv
<1> SUFFICES ASSUME Init PROVE IInv
    OBVIOUS
<1>1. ObjectsCounted
    BY FS_EmptySet DEF Init, ObjectsCounted
<1> QED
    BY <1>1, BoundsAssumption
       DEF Init, IInv, TypeOK, RootMatchesPhase, PointsToNewest, UnmadeIsFresh, Roots,
           FlagsFollowThread, AliveUntilJoined, InitedMeansServed, ManagerOutlivesThread,
           Runs, Phases, Places

\* The number of the root made last is the number of the roots made.
LEMMA MadeRootsAreCounted == IInv => MadeRoots = gpUpgradrRoot
<1> SUFFICES ASSUME IInv PROVE MadeRoots = gpUpgradrRoot
    OBVIOUS
<1>1. gpUpgradrRoot \in 0 .. MaxRoots
    BY DEF IInv, TypeOK
<1>2. {r \in Roots : uiThread[r] # "none"} = 1 .. gpUpgradrRoot
    BY <1>1, BoundsAssumption DEF IInv, PointsToNewest, Roots
<1>3. Cardinality(1 .. gpUpgradrRoot) = gpUpgradrRoot
  <2>1. gpUpgradrRoot \in Nat /\ 1 \in Int /\ gpUpgradrRoot \in Int
    BY <1>1, BoundsAssumption
  <2>2. Cardinality(1 .. gpUpgradrRoot) =
            IF 1 > gpUpgradrRoot THEN 0 ELSE gpUpgradrRoot - 1 + 1
    BY <2>1, FS_Interval
  <2> QED
    BY <2>1, <2>2
<1> QED
    BY <1>2, <1>3, Zenon DEF MadeRoots

\* No object is counted when there is none.
LEMMA NoObjectNoCount == IInv => (giRootInitRefcount = 0 <=> objects = {})
    BY FS_EmptySet DEF IInv, ObjectsCounted

\* An object that takes the root is counted.
LEMMA ObjectComes ==
    ASSUME IInv, NEW o, o \notin objects, objects' = objects \cup {o},
           giRootInitRefcount' = giRootInitRefcount + 1
    PROVE  ObjectsCounted'
    BY FS_AddElement DEF IInv, ObjectsCounted

\* An object that gives the root up is counted no more.
LEMMA ObjectGoes ==
    ASSUME IInv, NEW o \in objects, objects' = objects \ {o},
           giRootInitRefcount' = giRootInitRefcount - 1
    PROVE  ObjectsCounted'
    BY FS_RemoveElement DEF IInv, ObjectsCounted

\* The last object is the only one.
LEMMA LastObject ==
    ASSUME IInv, NEW o \in objects, giRootInitRefcount = 1
    PROVE  objects \ {o} = {}
<1>1. IsFiniteSet(objects) /\ Cardinality(objects) = 1
    BY DEF IInv, ObjectsCounted
<1>2. IsFiniteSet(objects \ {o}) /\ Cardinality(objects \ {o}) = Cardinality(objects) - 1
    BY <1>1, FS_RemoveElement
<1>3. Cardinality(objects \ {o}) = 0
    BY <1>1, <1>2
<1> QED
    BY <1>2, <1>3, FS_EmptySet

\* The others are still there when one goes that is not the last.
LEMMA NotLastObject ==
    ASSUME IInv, NEW o \in objects, giRootInitRefcount > 1
    PROVE  objects \ {o} # {}
<1>1. IsFiniteSet(objects) /\ Cardinality(objects) > 1 /\ Cardinality(objects) \in Nat
    BY DEF IInv, ObjectsCounted, TypeOK
<1>2. Cardinality(objects \ {o}) = Cardinality(objects) - 1
    BY <1>1, FS_RemoveElement
<1>3. Cardinality(objects \ {o}) # 0
    BY <1>1, <1>2
<1> QED
    BY <1>3, FS_EmptySet

\* The first object makes a root that nothing is known of yet.
LEMMA InitFirstStep ==
    ASSUME IInv, NEW o \in Objects, InitFirst(o) PROVE IInv'
<1> DEFINE new == gpUpgradrRoot + 1
<1>1. /\ new \in Roots /\ gpUpgradrRoot' = new /\ uiThread[new] = "none"
      /\ alive = {} /\ alive' = {new} /\ objects = {}
      /\ inRoot = NoObject /\ inRoot' = o /\ phase = "none" /\ phase' = "waits for ready"
      /\ uiThread' = [uiThread EXCEPT ![new] = "started"]
      /\ m_UIThread' = [m_UIThread EXCEPT ![new] = TRUE]
      /\ UNCHANGED <<giRootInitRefcount, objects, sitesLeft, m_Inited, m_Ready,
                     m_MessageWindow, quit, gUIThreadHWND>>
  <2>1. MadeRoots = gpUpgradrRoot /\ objects = {}
    BY MadeRootsAreCounted, NoObjectNoCount DEF InitFirst
  <2>2. inRoot = NoObject /\ phase = "none" /\ alive = {}
    BY <2>1 DEF IInv, RootMatchesPhase, InitFirst
  <2>3. new \in Roots /\ uiThread[new] = "none"
    <3>1. gpUpgradrRoot \in 0 .. MaxRoots /\ gpUpgradrRoot < MaxRoots
      BY <2>1 DEF IInv, TypeOK, InitFirst
    <3>2. new \in Roots /\ ~(new <= gpUpgradrRoot)
      BY <3>1, BoundsAssumption DEF Roots
    <3> QED
      BY <3>2 DEF IInv, PointsToNewest
  <2> QED
    BY <2>1, <2>2, <2>3 DEF InitFirst
<1>2. gpUpgradrRoot \in Nat /\ new > gpUpgradrRoot /\ \A r \in Roots : r \in Nat
    BY BoundsAssumption DEF IInv, TypeOK, Roots
<1>3. /\ uiThread'[new] = "started"
      /\ \A r \in Roots : r # new => uiThread'[r] = uiThread[r]
      /\ \A r \in Roots : r <= new <=> r <= gpUpgradrRoot \/ r = new
  <2>1. \A r \in Roots : r <= new <=> r <= gpUpgradrRoot \/ r = new
    BY <1>2
  <2> QED
    BY <1>1, <2>1 DEF IInv, TypeOK
<1>4. ~m_Inited[new] /\ ~m_Ready[new] /\ new \notin quit
    BY <1>1 DEF IInv, UnmadeIsFresh
<1> HIDE DEF new
<1>5. ObjectsCounted'
    BY <1>1 DEF IInv, ObjectsCounted
<1>6. TypeOK'
  <2>1. m_UIThread' \in [Roots -> BOOLEAN] /\ uiThread' \in [Roots -> Places]
    BY <1>1 DEF IInv, TypeOK, Places
  <2>2. gpUpgradrRoot' \in 0 .. MaxRoots
    <3>1. gpUpgradrRoot' \in 1 .. MaxRoots
      BY <1>1, Zenon DEF Roots
    <3> QED
      BY <3>1, BoundsAssumption
  <2>3. iCounter' \in 0 .. MaxPolls
    <3>1. iCounter' = 0
      BY Zenon DEF InitFirst
    <3> QED
      BY <3>1, BoundsAssumption
  <2> QED
    BY <1>1, <2>1, <2>2, <2>3, Zenon DEF IInv, TypeOK, Phases
<1>7. RootMatchesPhase'
    BY <1>1, ObjectsAssumption DEF RootMatchesPhase
<1>8. PointsToNewest' /\ UnmadeIsFresh'
    BY <1>1, <1>3 DEF IInv, PointsToNewest, UnmadeIsFresh
<1>9. FlagsFollowThread'
    BY <1>1, <1>3, <1>4 DEF IInv, FlagsFollowThread
<1>10. AliveUntilJoined' /\ InitedMeansServed'
    BY <1>1, <1>3, <1>4 DEF AliveUntilJoined, InitedMeansServed
<1>11. ManagerOutlivesThread'
    BY <1>1, <1>3, <1>4 DEF IInv, ManagerOutlivesThread, Runs
<1> QED
    BY <1>5, <1>6, <1>7, <1>8, <1>9, <1>10, <1>11 DEF IInv

\* Another object finds the root.
LEMMA InitMoreStep ==
    ASSUME IInv, NEW o \in Objects, InitMore(o) PROVE IInv'
<1>1. objects # {}
    BY NoObjectNoCount DEF InitMore
<1>2. ObjectsCounted'
    BY ObjectComes DEF InitMore
<1>3. TypeOK'
    BY DEF InitMore, wait, manager, thread, IInv, TypeOK
<1>4. RootMatchesPhase'
    BY <1>1
       DEF InitMore, wait, manager, thread, IInv, RootMatchesPhase
<1>5. /\ PointsToNewest' /\ UnmadeIsFresh' /\ FlagsFollowThread' /\ AliveUntilJoined'
      /\ InitedMeansServed' /\ ManagerOutlivesThread'
    BY <1>1
       DEF InitMore, wait, manager, thread, IInv, RootMatchesPhase,
           PointsToNewest, UnmadeIsFresh, FlagsFollowThread, AliveUntilJoined,
           InitedMeansServed, ManagerOutlivesThread, Runs
<1> QED
    BY <1>2, <1>3, <1>4, <1>5 DEF IInv

\* A thread that is ready is in its loop, as nobody has told it to quit.
LEMMA SeesReadyStep ==
    ASSUME IInv, SeesReady PROVE IInv'
<1> DEFINE g == gpUpgradrRoot
<1>1. /\ inRoot # NoObject /\ objects = {} /\ alive = {g} /\ g \in Roots /\ inRoot \in Objects
      /\ phase # "joins" /\ m_Ready[g]
      /\ m_Inited' = [m_Inited EXCEPT ![g] = TRUE]
      /\ objects' = {inRoot} /\ inRoot' = NoObject /\ phase' = "none"
      /\ giRootInitRefcount' = giRootInitRefcount + 1
      /\ UNCHANGED <<gpUpgradrRoot, alive, iCounter, sitesLeft, m_UIThread, m_Ready,
                     m_MessageWindow, uiThread, quit, gUIThreadHWND>>
    BY DEF SeesReady, LeaveInitRoot, thread, IInv, TypeOK, RootMatchesPhase
<1>2. m_Inited'[g] /\ \A r \in Roots : r # g => m_Inited'[r] = m_Inited[r]
    BY <1>1 DEF IInv, TypeOK
<1>3. uiThread[g] = "loop" /\ m_MessageWindow[g]
    BY <1>1 DEF IInv, FlagsFollowThread, AliveUntilJoined
<1>4. ObjectsCounted'
    BY ObjectComes DEF SeesReady, LeaveInitRoot, IInv, RootMatchesPhase
<1>5. TypeOK'
  <2>1. m_Inited' \in [Roots -> BOOLEAN]
    BY <1>1 DEF IInv, TypeOK
  <2>2. /\ objects' \subseteq Objects /\ inRoot' \in Objects \cup {NoObject}
        /\ phase' \in Phases /\ giRootInitRefcount' \in Nat
    <3>1. /\ giRootInitRefcount' = giRootInitRefcount + 1 /\ phase' = "none"
          /\ inRoot' = NoObject /\ objects' = objects \cup {inRoot} /\ inRoot # NoObject
      BY Zenon DEF SeesReady, LeaveInitRoot, IInv, RootMatchesPhase
    <3> QED
      BY <3>1, NumbersAreTyped DEF Phases
  <2> QED
    BY <1>1, <2>1, <2>2, Zenon DEF IInv, TypeOK
<1>6. RootMatchesPhase'
    BY <1>1 DEF RootMatchesPhase
<1>7. PointsToNewest' /\ FlagsFollowThread' /\ AliveUntilJoined'
    BY <1>1 DEF IInv, PointsToNewest, FlagsFollowThread, AliveUntilJoined
<1>8. UnmadeIsFresh' /\ InitedMeansServed' /\ ManagerOutlivesThread'
    BY <1>1, <1>2, <1>3
       DEF IInv, UnmadeIsFresh, InitedMeansServed, ManagerOutlivesThread, Runs
<1> QED
    BY <1>4, <1>5, <1>6, <1>7, <1>8 DEF IInv

\* The object waits on.
LEMMA PollsStep ==
    ASSUME IInv, Polls PROVE IInv'
<1>1. ObjectsCounted'
    BY DEF Polls, root, IInv, ObjectsCounted
<1>2. TypeOK'
  <2>1. iCounter' \in 0 .. MaxPolls
    <3>1. iCounter < MaxPolls /\ iCounter' = iCounter + 1
      BY Zenon DEF Polls
    <3> QED
      BY <3>1, NumbersAreTyped, BoundsAssumption
  <2> QED
    BY <2>1, Zenon DEF Polls, root, manager, thread, IInv, TypeOK
<1>3. RootMatchesPhase'
    BY DEF Polls, root, manager, thread, IInv, RootMatchesPhase
<1>4. /\ PointsToNewest' /\ UnmadeIsFresh' /\ FlagsFollowThread' /\ AliveUntilJoined'
      /\ InitedMeansServed' /\ ManagerOutlivesThread'
    BY DEF Polls, root, manager, thread, IInv, RootMatchesPhase,
           PointsToNewest, UnmadeIsFresh, FlagsFollowThread, AliveUntilJoined,
           InitedMeansServed, ManagerOutlivesThread, Runs
<1> QED
    BY <1>1, <1>2, <1>3, <1>4 DEF IInv

\* The manager of a late thread stays as it is, not inited.
LEMMA TimesOutStep ==
    ASSUME IInv, TimesOut PROVE IInv'
<1>1. ObjectsCounted'
    BY ObjectComes DEF TimesOut, LeaveInitRoot, IInv, RootMatchesPhase
<1>2. TypeOK'
  <2>1. objects' \subseteq Objects /\ phase' \in Phases /\ giRootInitRefcount' \in Nat
    <3>1. /\ giRootInitRefcount' = giRootInitRefcount + 1 /\ phase' = "none"
          /\ inRoot' = NoObject /\ objects' = objects \cup {inRoot} /\ inRoot # NoObject
      BY Zenon DEF TimesOut, LeaveInitRoot, IInv, RootMatchesPhase
    <3> QED
      BY <3>1, NumbersAreTyped DEF Phases
  <2> QED
    BY <2>1, Zenon DEF TimesOut, LeaveInitRoot, manager, thread, IInv, TypeOK
<1>3. RootMatchesPhase'
    BY DEF TimesOut, LeaveInitRoot, manager, thread, IInv, RootMatchesPhase
<1>4. /\ PointsToNewest' /\ UnmadeIsFresh' /\ FlagsFollowThread' /\ AliveUntilJoined'
      /\ InitedMeansServed' /\ ManagerOutlivesThread'
    BY DEF TimesOut, LeaveInitRoot, manager, thread, IInv, RootMatchesPhase,
           PointsToNewest, UnmadeIsFresh, FlagsFollowThread, AliveUntilJoined,
           InitedMeansServed, ManagerOutlivesThread, Runs
<1> QED
    BY <1>1, <1>2, <1>3, <1>4 DEF IInv

\* The root stays for the objects that are left.
LEMMA DoneMoreStep ==
    ASSUME IInv, NEW o \in Objects, DoneMore(o) PROVE IInv'
<1>1. objects \ {o} # {}
    BY NotLastObject DEF DoneMore, Leaves
<1>2. ObjectsCounted'
    BY ObjectGoes DEF DoneMore, Leaves
<1>3. TypeOK'
    BY DEF DoneMore, Leaves, wait, manager, thread, IInv, TypeOK
<1>4. RootMatchesPhase'
    BY <1>1
       DEF DoneMore, Leaves, wait, manager, thread, IInv, RootMatchesPhase
<1>5. /\ PointsToNewest' /\ UnmadeIsFresh' /\ FlagsFollowThread' /\ AliveUntilJoined'
      /\ InitedMeansServed' /\ ManagerOutlivesThread'
    BY <1>1
       DEF DoneMore, Leaves, wait, manager, thread, IInv, RootMatchesPhase,
           PointsToNewest, UnmadeIsFresh, FlagsFollowThread, AliveUntilJoined,
           InitedMeansServed, ManagerOutlivesThread, Runs
<1> QED
    BY <1>2, <1>3, <1>4, <1>5 DEF IInv

\* The last object begins with the sites; the root and its thread are still there.
LEMMA DoneLastStep ==
    ASSUME IInv, NEW o \in Objects, DoneLast(o) PROVE IInv'
<1>1. objects \ {o} = {}
    BY LastObject DEF DoneLast, Leaves
<1>2. ObjectsCounted'
  <2>1. /\ o \in objects /\ objects' = objects \ {o}
        /\ giRootInitRefcount = 1 /\ giRootInitRefcount' = 0
    BY Zenon DEF DoneLast, Leaves
  <2>2. giRootInitRefcount' = giRootInitRefcount - 1
    BY <2>1
  <2> QED
    BY <2>1, <2>2, ObjectGoes
<1>3. TypeOK'
    BY DEF DoneLast, Leaves, manager, thread, IInv, TypeOK, Phases
<1>4. RootMatchesPhase'
    BY <1>1, ObjectsAssumption
       DEF DoneLast, Leaves, manager, thread, IInv, RootMatchesPhase
<1>5. /\ PointsToNewest' /\ UnmadeIsFresh' /\ FlagsFollowThread' /\ AliveUntilJoined'
      /\ InitedMeansServed' /\ ManagerOutlivesThread'
    BY <1>1, ObjectsAssumption
       DEF DoneLast, Leaves, manager, thread, IInv, RootMatchesPhase,
           PointsToNewest, UnmadeIsFresh, FlagsFollowThread, AliveUntilJoined,
           InitedMeansServed, ManagerOutlivesThread, Runs
<1> QED
    BY <1>2, <1>3, <1>4, <1>5 DEF IInv

\* A message to no window touches the sites only.
LEMMA SendsToNoWindowStep ==
    ASSUME IInv, SendsToNoWindow PROVE IInv'
<1>1. ObjectsCounted'
    BY DEF SendsToNoWindow, root, IInv, ObjectsCounted
<1>2. sitesLeft' \in 0 .. MaxSites
  <2>1. sitesLeft > 0 /\ sitesLeft' = sitesLeft - 1
    BY Zenon DEF SendsToNoWindow
  <2> QED
    BY <2>1, NumbersAreTyped, BoundsAssumption
<1>3. TypeOK'
    BY <1>2, Zenon DEF SendsToNoWindow, root, manager, thread, IInv, TypeOK
<1>4. RootMatchesPhase'
    BY DEF SendsToNoWindow, root, manager, thread, IInv, RootMatchesPhase
<1>5. /\ PointsToNewest' /\ UnmadeIsFresh' /\ FlagsFollowThread' /\ AliveUntilJoined'
      /\ InitedMeansServed' /\ ManagerOutlivesThread'
    BY DEF SendsToNoWindow, root, manager, thread, IInv, RootMatchesPhase,
           PointsToNewest, UnmadeIsFresh, FlagsFollowThread, AliveUntilJoined,
           InitedMeansServed, ManagerOutlivesThread, Runs
<1> QED
    BY <1>1, <1>3, <1>4, <1>5 DEF IInv

\* The UI thread is told to quit by the object that is about to join it.
LEMMA SitesCleanedStep ==
    ASSUME IInv, SitesCleaned PROVE IInv'
<1>1. ObjectsCounted'
    BY DEF SitesCleaned, root, IInv, ObjectsCounted
<1>2. inRoot # NoObject /\ gpUpgradrRoot \in Roots
    BY DEF SitesCleaned, IInv, TypeOK, RootMatchesPhase
<1>3. TypeOK'
  <2>1. phase' \in Phases /\ quit' \subseteq Roots
    BY <1>2 DEF SitesCleaned, IInv, TypeOK, Phases
  <2> QED
    BY <2>1, Zenon DEF SitesCleaned, root, manager, IInv, TypeOK
<1>4. RootMatchesPhase'
    BY <1>2 DEF SitesCleaned, root, manager, IInv, RootMatchesPhase
<1>5. /\ PointsToNewest' /\ UnmadeIsFresh' /\ FlagsFollowThread' /\ AliveUntilJoined'
      /\ InitedMeansServed' /\ ManagerOutlivesThread'
    BY <1>2
       DEF SitesCleaned, root, manager, IInv, RootMatchesPhase,
           PointsToNewest, UnmadeIsFresh, FlagsFollowThread, AliveUntilJoined,
           InitedMeansServed, ManagerOutlivesThread, Runs
<1> QED
    BY <1>1, <1>3, <1>4, <1>5 DEF IInv

\* A root is deleted under its thread only if its manager is not inited.
LEMMA DoneUninitedStep ==
    ASSUME IInv, DoneUninited PROVE IInv'
<1>1. objects = {} /\ alive = {gpUpgradrRoot} /\ alive' = {}
    BY DEF DoneUninited, IInv, RootMatchesPhase
<1>2. ObjectsCounted'
    BY DEF DoneUninited, IInv, ObjectsCounted
<1>3. TypeOK'
    BY DEF DoneUninited, manager, thread, IInv, TypeOK, Phases
<1>4. RootMatchesPhase'
    BY <1>1 DEF DoneUninited, manager, thread, IInv, RootMatchesPhase
<1>5. /\ PointsToNewest' /\ UnmadeIsFresh' /\ FlagsFollowThread' /\ AliveUntilJoined'
      /\ InitedMeansServed' /\ ManagerOutlivesThread'
    BY <1>1
       DEF DoneUninited, manager, thread, IInv, RootMatchesPhase,
           PointsToNewest, UnmadeIsFresh, FlagsFollowThread, AliveUntilJoined,
           InitedMeansServed, ManagerOutlivesThread, Runs
<1> QED
    BY <1>2, <1>3, <1>4, <1>5 DEF IInv

\* Either way the thread is gone when the root is deleted.
LEMMA KilledStep ==
    ASSUME IInv, Joined \/ JoinTimesOut PROVE IInv'
<1> DEFINE g == gpUpgradrRoot
<1>1. /\ g \in Roots /\ alive = {g} /\ objects = {}
      /\ m_UIThread' = [m_UIThread EXCEPT ![g] = FALSE]
      /\ m_Ready' = [m_Ready EXCEPT ![g] = FALSE]
      /\ alive' = {} /\ inRoot' = NoObject /\ phase' = "none"
      /\ UNCHANGED <<giRootInitRefcount, gpUpgradrRoot, objects, iCounter, sitesLeft, m_Inited,
                     m_MessageWindow, quit, gUIThreadHWND>>
    BY DEF Joined, JoinTimesOut, Killed, IInv, TypeOK, RootMatchesPhase
<1>2. /\ uiThread' \in [Roots -> Places] /\ uiThread'[g] = "gone" /\ uiThread[g] # "none"
      /\ \A r \in Roots : r # g => uiThread'[r] = uiThread[r]
  <2>1. uiThread[g] # "none"
    BY <1>1, BoundsAssumption DEF IInv, PointsToNewest, Roots
  <2> QED
    BY <1>1, <2>1 DEF Joined, JoinTimesOut, IInv, TypeOK, Places
<1>3. ~m_Ready'[g] /\ \A r \in Roots : r # g => m_Ready'[r] = m_Ready[r]
    BY <1>1 DEF IInv, TypeOK
<1>4. ObjectsCounted'
    BY <1>1 DEF IInv, ObjectsCounted
<1>5. TypeOK'
  <2>1. m_UIThread' \in [Roots -> BOOLEAN] /\ m_Ready' \in [Roots -> BOOLEAN]
    BY <1>1 DEF IInv, TypeOK
  <2> QED
    BY <1>1, <1>2, <2>1 DEF IInv, TypeOK, Phases
<1>6. RootMatchesPhase'
    BY <1>1 DEF RootMatchesPhase
<1>7. AliveUntilJoined' /\ InitedMeansServed'
    BY <1>1 DEF AliveUntilJoined, InitedMeansServed
<1>8. PointsToNewest' /\ UnmadeIsFresh' /\ FlagsFollowThread' /\ ManagerOutlivesThread'
    BY <1>1, <1>2, <1>3
       DEF IInv, PointsToNewest, UnmadeIsFresh, FlagsFollowThread, ManagerOutlivesThread,
           Runs
<1> QED
    BY <1>4, <1>5, <1>6, <1>7, <1>8 DEF IInv

\* The steps of a UI thread on its own.
ThreadMoves(r) ==
    \/ CreateMessageWindow(r) \/ SetReadyState(r) \/ QuitLoop(r)
    \/ ResetReadyState(r) \/ DestroyMessageWindow(r)

\* What they do to the rest: nothing, but it may take WM_QUIT.
LEMMA UIThreadMoves ==
    ASSUME IInv, NEW q \in Roots, ThreadMoves(q)
    PROVE  /\ UNCHANGED <<root, wait, manager>>
           /\ quit' \subseteq quit
           /\ gUIThreadHWND' \in 0 .. MaxRoots
           /\ Runs(q) /\ uiThread'[q] # "none"
           /\ \A r \in Roots : r # q => /\ uiThread'[r] = uiThread[r]
                                        /\ m_Ready'[r] = m_Ready[r]
                                        /\ m_MessageWindow'[r] = m_MessageWindow[r]
           /\ uiThread' \in [Roots -> Places]
           /\ m_Ready' \in [Roots -> BOOLEAN] /\ m_MessageWindow' \in [Roots -> BOOLEAN]
<1>1. q \in 0 .. MaxRoots /\ 0 \in 0 .. MaxRoots
    BY BoundsAssumption DEF Roots
<1> QED
    BY <1>1 DEF ThreadMoves, CreateMessageWindow, SetReadyState, QuitLoop, ResetReadyState,
           DestroyMessageWindow, Moves, IInv, TypeOK, Places, Runs

\* A UI thread that nobody has told to quit comes as far as its loop.
LEMMA UIThreadStays ==
    ASSUME IInv, NEW q \in alive, ThreadMoves(q), phase # "joins"
    PROVE  /\ uiThread[q] # "loop" /\ uiThread'[q] \in {"window", "loop"}
BY DEF ThreadMoves, CreateMessageWindow, SetReadyState, QuitLoop, ResetReadyState,
       DestroyMessageWindow, Moves, IInv, TypeOK, AliveUntilJoined

\* The thread sets and resets its flags where they have to be.
LEMMA UIThreadSetsFlags ==
    ASSUME IInv, NEW q \in Roots, ThreadMoves(q)
    PROVE  /\ m_Ready'[q] => uiThread'[q] \in {"loop", "cleanup"}
           /\ uiThread'[q] \in {"window", "loop"} => m_MessageWindow'[q]
<1>1. /\ m_Ready[q] => uiThread[q] \in {"loop", "cleanup"}
      /\ uiThread[q] \in {"window", "loop"} => m_MessageWindow[q]
    BY DEF IInv, FlagsFollowThread
<1> QED
    BY <1>1 DEF ThreadMoves, CreateMessageWindow, SetReadyState, QuitLoop, ResetReadyState,
           DestroyMessageWindow, Moves, IInv, TypeOK

\* A step of a UI thread, however late, keeps the invariant.
LEMMA ThreadStep ==
    ASSUME IInv, NEW q \in Roots, ThreadMoves(q) PROVE IInv'
<1>1. /\ UNCHANGED <<giRootInitRefcount, gpUpgradrRoot, alive, objects, inRoot, phase,
                     iCounter, sitesLeft, m_Inited, m_UIThread>>
      /\ quit' \subseteq quit
      /\ gUIThreadHWND' \in 0 .. MaxRoots
      /\ Runs(q) /\ uiThread[q] # "none" /\ uiThread'[q] # "none"
      /\ \A r \in Roots : r # q => /\ uiThread'[r] = uiThread[r]
                                   /\ m_Ready'[r] = m_Ready[r]
                                   /\ m_MessageWindow'[r] = m_MessageWindow[r]
      /\ uiThread' \in [Roots -> Places]
      /\ m_Ready' \in [Roots -> BOOLEAN] /\ m_MessageWindow' \in [Roots -> BOOLEAN]
    BY UIThreadMoves DEF root, wait, manager, Runs
<1>2. ObjectsCounted'
    BY <1>1 DEF IInv, ObjectsCounted
<1>3. TypeOK'
    BY <1>1 DEF IInv, TypeOK
<1>4. RootMatchesPhase'
    BY <1>1 DEF IInv, RootMatchesPhase
<1>5. PointsToNewest' /\ UnmadeIsFresh' /\ ManagerOutlivesThread'
    BY <1>1 DEF IInv, PointsToNewest, UnmadeIsFresh, ManagerOutlivesThread, Runs
<1>6. FlagsFollowThread'
    BY <1>1, UIThreadSetsFlags DEF IInv, FlagsFollowThread
<1>7. alive \subseteq Roots
    BY DEF IInv, TypeOK
<1>8. AliveUntilJoined' /\ InitedMeansServed'
    BY <1>1, <1>7, UIThreadStays DEF IInv, AliveUntilJoined, InitedMeansServed
<1> QED
    BY <1>2, <1>3, <1>4, <1>5, <1>6, <1>8 DEF IInv

\* A reply of the UI thread, with an error or without.
Replies(r) == DoneScriptSite(r) \/ DoneScriptSiteFails(r)

\* A reply of a UI thread keeps the invariant.
LEMMA ReplyStep ==
    ASSUME IInv, NEW q \in Roots, Replies(q) PROVE IInv'
<1>1. /\ phase = "cleans sites" /\ phase' \in {"cleans sites", "failed"}
      /\ UNCHANGED <<root, iCounter, manager, thread>>
    BY DEF Replies, Answers, DoneScriptSite, DoneScriptSiteFails
<1>2. sitesLeft' \in 0 .. MaxSites
  <2>1. \/ sitesLeft > 0 /\ sitesLeft' = sitesLeft - 1
        \/ sitesLeft' = sitesLeft
    BY Zenon DEF Replies, Answers, DoneScriptSite, DoneScriptSiteFails
  <2> QED
    BY <2>1, NumbersAreTyped, BoundsAssumption
<1>3. ObjectsCounted'
    BY <1>1 DEF root, IInv, ObjectsCounted
<1>4. TypeOK'
    BY <1>1, <1>2 DEF root, manager, thread, IInv, TypeOK, Phases
<1>5. RootMatchesPhase'
    BY <1>1 DEF root, manager, thread, IInv, RootMatchesPhase
<1>6. /\ PointsToNewest' /\ UnmadeIsFresh' /\ FlagsFollowThread' /\ AliveUntilJoined'
      /\ InitedMeansServed' /\ ManagerOutlivesThread'
    BY <1>1
       DEF root, manager, thread, IInv, PointsToNewest, UnmadeIsFresh, FlagsFollowThread,
           AliveUntilJoined, InitedMeansServed, ManagerOutlivesThread, Runs
<1> QED
    BY <1>3, <1>4, <1>5, <1>6 DEF IInv

\* What a UI thread does is one or the other.
LEMMA UIStep ==
    ASSUME IInv, NEW q \in Roots, UIThreadStep(q) PROVE IInv'
<1>1. ThreadMoves(q) \/ Replies(q)
    BY DEF UIThreadStep, ThreadMoves, Replies
<1> QED
    BY <1>1, ThreadStep, ReplyStep

\* So does no step at all.
LEMMA NothingMoves == IInv /\ UNCHANGED vars => IInv'
BY DEF vars, root, wait, manager, thread, IInv, TypeOK, ObjectsCounted, RootMatchesPhase,
       PointsToNewest, UnmadeIsFresh, FlagsFollowThread, AliveUntilJoined,
           InitedMeansServed,
       ManagerOutlivesThread, Runs

\* Every step keeps the invariant.
LEMMA NextIInv == IInv /\ [Next]_vars => IInv'
<1> SUFFICES ASSUME IInv, [Next]_vars PROVE IInv'
    OBVIOUS
<1>1. ASSUME NEW o \in Objects, ObjectStep(o) PROVE IInv'
    BY <1>1, InitFirstStep, InitMoreStep, DoneMoreStep, DoneLastStep DEF ObjectStep
<1>2. CASE RootStep
    BY <1>2, SeesReadyStep, PollsStep, TimesOutStep, SendsToNoWindowStep, SitesCleanedStep,
       DoneUninitedStep, KilledStep DEF RootStep
<1> QED
    BY <1>1, <1>2, UIStep, NothingMoves DEF Next

\* The inductive invariant.
THEOREM Invariance == Spec => []IInv
    BY InitIInv, NextIInv, PTL DEF Spec

\* Types.
THEOREM TypeCorrect == Spec => []TypeOK
<1>1. IInv => TypeOK
    BY DEF IInv
<1> QED
    BY <1>1, Invariance, PTL

\* Objects that come and go on any number of threads always find a root behind
\* gpUpgradrRoot (GetRoot, Module.cpp:107).
THEOREM RootIsThere == Spec => []RootLivesWithObjects
<1>1. IInv => RootLivesWithObjects
    BY DEF IInv, ObjectsCounted, RootMatchesPhase, RootLivesWithObjects
<1> QED
    BY <1>1, Invariance, PTL

\* An inited manager has a UI thread in its message loop.
THEOREM InitedAreServed == Spec => []InitedMeansServed
<1>1. IInv => InitedMeansServed
    BY DEF IInv
<1> QED
    BY <1>1, Invariance, PTL

\* A UI thread that was ready in time is gone when its manager is.
THEOREM ThreadGoesFirst == Spec => []ManagerOutlivesThread
<1>1. IInv => ManagerOutlivesThread
    BY DEF IInv
<1> QED
    BY <1>1, Invariance, PTL

----------------------------------------------------------------------------
\* What OnlySitesHoldRoot takes besides fairness.

\* The steps until the object inside gRootCS leaves it, at most, replies included.
Remaining ==
    CASE phase = "waits for ready" -> MaxPolls - iCounter + 1
      [] phase = "cleans sites" -> sitesLeft + 2
      [] phase = "joins" -> 1
      [] OTHER -> 0

RemainingFits == Remaining \in Nat /\ (Remaining = 0 <=> phase \in {"none", "failed"})

\* Whoever waits inside has steps left, whoever does not has none.
LEMMA RemainingIsNat == IInv => RemainingFits
<1> SUFFICES ASSUME IInv PROVE RemainingFits
    OBVIOUS
<1>1. /\ phase \in Phases
      /\ iCounter \in Nat /\ MaxPolls \in Nat /\ iCounter <= MaxPolls
      /\ sitesLeft \in Nat
    BY BoundsAssumption, NumbersAreTyped DEF IInv, TypeOK
<1>2. /\ phase \in {"none", "failed"} => Remaining = 0
      /\ phase = "joins" => Remaining = 1
      /\ phase = "cleans sites" => Remaining = sitesLeft + 2
      /\ phase = "waits for ready" => Remaining = MaxPolls - iCounter + 1
    BY DEF Remaining
<1> HIDE DEF Remaining
<1>3. CASE phase \in {"none", "failed"}
    BY <1>2, <1>3, 0 \in Nat, Zenon DEF RemainingFits
<1>4. CASE phase = "joins"
    BY <1>2, <1>4 DEF RemainingFits
<1>5. CASE phase = "waits for ready"
  <2>1. MaxPolls - iCounter + 1 \in Nat /\ MaxPolls - iCounter + 1 # 0
    BY <1>1
  <2>2. Remaining \in Nat /\ Remaining # 0
    BY <1>2, <1>5, <2>1, Zenon
  <2> QED
    BY <1>5, <2>2 DEF RemainingFits
<1>6. CASE phase = "cleans sites"
  <2>1. sitesLeft + 2 \in Nat /\ sitesLeft + 2 # 0
    BY <1>1
  <2>2. Remaining \in Nat /\ Remaining # 0
    BY <1>2, <1>6, <2>1, Zenon
  <2> QED
    BY <1>6, <2>2 DEF RemainingFits
<1> QED
    BY <1>1, <1>3, <1>4, <1>5, <1>6 DEF Phases

\* The guards of RootStep: one of its disjuncts can be taken.
RootCanStep ==
    \/ phase = "waits for ready" /\ (iCounter < MaxPolls \/ iCounter = MaxPolls)
    \/ phase = "cleans sites" /\ (sitesLeft = 0 \/ (sitesLeft > 0 /\ NoWindow))
    \/ phase = "joins"

\* The object inside gRootCS can always go on, but for one wait: that for the reply of a
\* UI thread that has a window (ScriptDebugger.cpp:57).
THEOREM OnlyRepliesAreAwaited ==
    Spec => [](inRoot # NoObject => RootCanStep \/ AwaitsReply \/ phase = "failed")
<1>1. ASSUME IInv, inRoot # NoObject PROVE RootCanStep \/ AwaitsReply \/ phase = "failed"
  <2>1. phase \in {"waits for ready", "cleans sites", "joins", "failed"}
    BY <1>1 DEF IInv, TypeOK, RootMatchesPhase, Phases
  <2>2. iCounter < MaxPolls \/ iCounter = MaxPolls
    BY <1>1, NumbersAreTyped, BoundsAssumption
  <2>3. sitesLeft = 0 \/ sitesLeft > 0
    BY <1>1, NumbersAreTyped, BoundsAssumption
  <2> HIDE DEF NoWindow
  <2> QED
    BY <2>1, <2>2, <2>3, Zenon DEF RootCanStep, AwaitsReply
<1> QED
    BY <1>1, Invariance, PTL

\* A step that is neither the object's own nor a reply leaves the wait as it is.
LEMMA OthersLeaveWait ==
    ASSUME [Next]_vars, inRoot # NoObject, ~RootStep, \A r \in Roots : ~Replies(r)
    PROVE  UNCHANGED <<inRoot, wait>>
<1>1. CASE UNCHANGED vars
    BY <1>1 DEF vars, root
<1>2. ASSUME NEW o \in Objects, ObjectStep(o) PROVE FALSE
    BY <1>2 DEF ObjectStep, InitFirst, InitMore, DoneMore, DoneLast, Leaves
<1>3. ASSUME NEW r \in Roots, UIThreadStep(r) PROVE UNCHANGED <<inRoot, wait>>
  <2>1. ThreadMoves(r)
    BY <1>3 DEF UIThreadStep, ThreadMoves, Replies
  <2> QED
    BY <2>1 DEF ThreadMoves, CreateMessageWindow, SetReadyState, QuitLoop, ResetReadyState,
           DestroyMessageWindow, root
<1> QED
    BY <1>1, <1>2, <1>3 DEF Next

\* Each step of the object inside gRootCS, and each reply it gets, takes it nearer to the
\* end of its waits, and nothing that others do takes it farther away: it leaves gRootCS
\* after Remaining of them, for any number of polls, sites, objects and roots.  That the
\* replies come is not said: a UI thread that does not reply holds gRootCS for ever
\* (WindowManager.cpp:136, 158, ScriptDebugger.cpp:57).
THEOREM WaitsRunOut ==
    Spec => [][inRoot # NoObject =>
                  LET goesOn == RootStep \/ \E r \in Roots : Replies(r) IN
                  /\ Remaining \in Nat /\ Remaining' \in Nat
                  /\ goesOn => Remaining' < Remaining
                  /\ ~goesOn => inRoot' = inRoot /\ Remaining' = Remaining]_vars
<1>1. ASSUME IInv, [Next]_vars, inRoot # NoObject
      PROVE  LET goesOn == RootStep \/ \E r \in Roots : Replies(r) IN
             /\ Remaining \in Nat /\ Remaining' \in Nat
             /\ goesOn => Remaining' < Remaining
             /\ ~goesOn => inRoot' = inRoot /\ Remaining' = Remaining
  <2>1. Remaining \in Nat /\ (Remaining = 0 <=> phase \in {"none", "failed"})
    BY <1>1, RemainingIsNat DEF RemainingFits
  <2>2. Remaining' \in Nat /\ (Remaining' = 0 <=> phase' \in {"none", "failed"})
    <3>1. IInv'
      BY <1>1, NextIInv
    <3>2. RemainingFits'
      BY <3>1, RemainingIsNat, PTL
    <3> QED
      BY <3>2 DEF RemainingFits
  <2>3. iCounter \in Int /\ MaxPolls \in Int /\ sitesLeft \in Int
    BY <1>1, NumbersAreTyped, BoundsAssumption
  <2>4. ASSUME Polls PROVE Remaining' < Remaining
    <3>1. Remaining = MaxPolls - iCounter + 1 /\ Remaining' = MaxPolls - (iCounter + 1) + 1
      BY <2>4 DEF Polls, Remaining
    <3>2. MaxPolls - (iCounter + 1) + 1 < MaxPolls - iCounter + 1
      BY <2>3
    <3> QED
      BY <3>1, <3>2, Zenon
  <2>5. ASSUME phase = "cleans sites", phase' = phase, sitesLeft' = sitesLeft - 1
        PROVE  Remaining' < Remaining
    <3>1. Remaining = sitesLeft + 2 /\ Remaining' = sitesLeft - 1 + 2
      BY <2>5 DEF Remaining
    <3>2. sitesLeft - 1 + 2 < sitesLeft + 2
      BY <2>3
    <3> QED
      BY <3>1, <3>2, Zenon
  <2>6. ASSUME SitesCleaned PROVE Remaining' < Remaining
    <3>1. Remaining = 0 + 2 /\ Remaining' = 1
      BY <2>6 DEF SitesCleaned, Remaining
    <3> QED
      BY <3>1
  <2>7. ASSUME phase \notin {"none", "failed"}, phase' \in {"none", "failed"}
        PROVE  Remaining' < Remaining
    BY <2>1, <2>2, <2>7
  <2>8. ASSUME RootStep PROVE Remaining' < Remaining
    <3>1. CASE SeesReady \/ TimesOut \/ DoneUninited \/ Joined \/ JoinTimesOut
      BY <2>7, <3>1 DEF SeesReady, TimesOut, LeaveInitRoot, DoneUninited, Joined,
                        JoinTimesOut, Killed
    <3>2. CASE SendsToNoWindow
      BY <2>5, <3>2 DEF SendsToNoWindow
    <3> QED
      BY <2>4, <2>6, <2>8, <3>1, <3>2 DEF RootStep
  <2>9. ASSUME NEW r \in Roots, Replies(r) PROVE Remaining' < Remaining
    <3>1. CASE DoneScriptSite(r)
      BY <2>5, <3>1 DEF DoneScriptSite, Answers
    <3>2. CASE DoneScriptSiteFails(r)
      BY <2>7, <3>2 DEF DoneScriptSiteFails, Answers
    <3> QED
      BY <2>9, <3>1, <3>2 DEF Replies
  <2>10. ASSUME ~RootStep, \A r \in Roots : ~Replies(r)
         PROVE  inRoot' = inRoot /\ Remaining' = Remaining
    BY <1>1, <2>10, OthersLeaveWait DEF wait, Remaining
  <2> QED
    BY <2>1, <2>2, <2>8, <2>9, <2>10
<1> QED
    BY <1>1, Invariance, PTL DEF Spec
=============================================================================
