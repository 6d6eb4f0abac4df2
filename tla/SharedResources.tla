-------------------------- MODULE SharedResources --------------------------
(***************************************************************************)
(* The lock manager of the add-on (CUpgradrRootImpl, Module.cpp): one      *)
(* recursive lock per shared manager, taken by CResourceLock guards, given *)
(* up for a while by CResourceUnlock guards.                               *)
(*                                                                         *)
(* Every entry point of the manager runs inside m_MainCS, so a pass        *)
(* through it is one step; the hibernation loop of Acquire leaves m_MainCS *)
(* while it sleeps, so every turn of that loop is a step of its own, and   *)
(* so is every turn of the loop of AcquireMany.                            *)
(*                                                                         *)
(* The check of Acquire against requests out of order (Module.cpp:219-231) *)
(* never fires: max starts as -1, a signed enum value, which no id is      *)
(* below.  So it guards nothing here either.                               *)
(***************************************************************************)
EXTENDS Naturals, FiniteSets

CONSTANTS
    Threads,    \* browser threads (one per tab) and the UI thread
    NoThread,   \* no owner
    SR_LAST,    \* number of resource ids
    MaxDepth,   \* bound: live CResourceLock guards of a thread on a resource
    MaxNested,  \* bound: locks that are nested at a time, of all threads
    MaxStarve   \* bound: m_StarveMap saturates here, in units of 100 ms

ASSUME ThreadsAssumption == NoThread \notin Threads
ASSUME BoundsAssumption ==
    /\ SR_LAST \in Nat
    /\ MaxDepth \in Nat \ {0}
    /\ MaxNested \in Nat
    /\ MaxStarve \in Nat

Resources == 0 .. SR_LAST - 1

VARIABLES
    m_Ownership,  \* resource -> owning thread and how often it entered
    m_Resources,  \* thread -> resources it owns
    m_CS,         \* resource -> thread inside its critical section
    m_StarveMap,  \* thread -> how long it has been hibernating, in 100 ms
    signalled,    \* threads with an APC of Release queued
    call,         \* thread -> the Acquire call it is in
    depth,        \* thread, resource -> live CResourceLock guards
    saved         \* thread, resource -> m_Count of a live CResourceUnlock

manager == <<m_Ownership, m_Resources, m_CS, m_StarveMap, signalled>>
clients == <<call, depth, saved>>
vars == <<manager, clients>>

Unowned == [thread |-> NoThread, count |-> 0]
NotStarving == MaxStarve + 1

\* A call of AcquireMany, or of Acquire (left = 1): the resource it is for, the
\* Acquire calls left to make, whether the current one hibernates.
Calls == [rid : Resources, left : 1 .. MaxDepth, asleep : BOOLEAN]
NoCall == [rid |-> SR_LAST, left |-> 0, asleep |-> FALSE]

Idle(t) == call[t] = NoCall
IsFree(r) == m_Ownership[r] = Unowned
Owns(t, r) == m_Ownership[r].thread = t
WaitsFor(t, r) == call[t].rid = r /\ call[t].asleep

\* Acquire calls of t for r that have not returned yet.
Outstanding(t, r) == IF call[t].rid = r THEN call[t].left ELSE 0

Init ==
    /\ m_Ownership = [r \in Resources |-> Unowned]
    /\ m_Resources = [t \in Threads |-> {}]
    /\ m_CS = [r \in Resources |-> NoThread]
    /\ m_StarveMap = [t \in Threads |-> NotStarving]
    /\ signalled = {}
    /\ call = [t \in Threads |-> NoCall]
    /\ depth = [t \in Threads |-> [r \in Resources |-> 0]]
    /\ saved = [t \in Threads |-> [r \in Resources |-> 0]]

----------------------------------------------------------------------------
\* The guards of the callers.

\* The locks that a thread has more than one guard of.
NestedLocks == {lock \in Threads \X Resources : depth[lock[1]][lock[2]] > 1}

\* CResourceLock constructor: the guard exists, its Acquire is still to run.
Lock(t, r) ==
    /\ Idle(t)
    /\ depth[t][r] < MaxDepth
    /\ depth[t][r] > 0 => Cardinality(NestedLocks) < MaxNested
    /\ depth' = [depth EXCEPT ![t][r] = @ + 1]
    /\ call' = [call EXCEPT ![t] = [rid |-> r, left |-> 1, asleep |-> FALSE]]
    /\ UNCHANGED <<manager, saved>>

\* Mutant: the destructor acquires once, whatever m_Count says.
Relock_Once(t, r) ==
    /\ Idle(t)
    /\ saved[t][r] > 0
    /\ depth[t][r] = saved[t][r]
    /\ call' = [call EXCEPT ![t] = [rid |-> r, left |-> 1, asleep |-> FALSE]]
    /\ saved' = [saved EXCEPT ![t][r] = 0]
    /\ UNCHANGED <<manager, depth>>

\* CResourceUnlock destructor: AcquireMany of what the constructor released.
\* Guards made since then are gone: scopes nest.
Relock(t, r) ==
    /\ Idle(t)
    /\ saved[t][r] > 0
    /\ depth[t][r] = saved[t][r]
    /\ call' = [call EXCEPT ![t] =
                  [rid |-> r, left |-> saved[t][r], asleep |-> FALSE]]
    /\ saved' = [saved EXCEPT ![t][r] = 0]
    /\ UNCHANGED <<manager, depth>>

----------------------------------------------------------------------------
\* Acquire.

\* Mutant: the loop of AcquireMany runs once too often.
AcquireReturns_OneMore(t) ==
    call' = [call EXCEPT ![t] =
               IF @.left = 0 THEN NoCall
               ELSE [rid |-> @.rid, left |-> @.left - 1, asleep |-> FALSE]]

\* The current Acquire of t returns: the next turn of AcquireMany, or done.
AcquireReturns(t) ==
    call' = [call EXCEPT ![t] =
               IF @.left = 1 THEN NoCall
               ELSE [rid |-> @.rid, left |-> @.left - 1, asleep |-> FALSE]]

\* t owns r and has entered it n times.
SetCount(t, r, n) ==
    m_Ownership' = [m_Ownership EXCEPT ![r] = [thread |-> t, count |-> n]]

\* Mutant: the resource is not entered in m_Resources.
BecomeOwner_Unregistered(t, r) ==
    /\ SetCount(t, r, 1)
    /\ m_CS' = [m_CS EXCEPT ![r] = t]
    /\ UNCHANGED m_Resources

\* "register as an owner" and enter the critical section, which must proceed.
BecomeOwner(t, r) ==
    /\ SetCount(t, r, 1)
    /\ m_Resources' = [m_Resources EXCEPT ![t] = @ \cup {r}]
    /\ m_CS' = [m_CS EXCEPT ![r] = t]

AcquireFree(t) ==
    \E r \in Resources :
        /\ call[t].rid = r /\ ~call[t].asleep
        /\ IsFree(r)
        /\ BecomeOwner(t, r)
        /\ AcquireReturns(t)
        /\ UNCHANGED <<m_StarveMap, signalled, depth, saved>>

\* Mutant: an owner that enters again is not counted.
AcquireOwned_Uncounted(t) ==
    \E r \in Resources :
        /\ call[t].rid = r /\ ~call[t].asleep
        /\ Owns(t, r)
        /\ AcquireReturns(t)
        /\ UNCHANGED <<manager, depth, saved>>

AcquireOwned(t) ==
    \E r \in Resources :
        /\ call[t].rid = r /\ ~call[t].asleep
        /\ Owns(t, r)
        /\ SetCount(t, r, m_Ownership[r].count + 1)
        /\ AcquireReturns(t)
        /\ UNCHANGED <<m_Resources, m_CS, m_StarveMap, signalled, depth, saved>>

Hibernate(t) ==
    \E r \in Resources :
        /\ call[t].rid = r /\ ~call[t].asleep
        /\ ~IsFree(r) /\ ~Owns(t, r)
        /\ m_StarveMap' = [m_StarveMap EXCEPT ![t] = 0]
        /\ call' = [call EXCEPT ![t] = [rid |-> r, left |-> @.left, asleep |-> TRUE]]
        /\ UNCHANGED <<m_Ownership, m_Resources, m_CS, signalled, depth, saved>>

\* Mutant: a thread that wakes up does not look again whether r is free.
WakeAndOwn_Unchecked(t) ==
    \E r \in Resources :
        /\ WaitsFor(t, r)
        /\ signalled' = signalled \ {t}
        /\ m_StarveMap' = [m_StarveMap EXCEPT ![t] = NotStarving]
        /\ BecomeOwner(t, r)
        /\ AcquireReturns(t)
        /\ UNCHANGED <<depth, saved>>

\* Mutant: the sleep has no time limit, only a signal ends it.
WakeAndOwn_WhenSignalled(t) ==
    \E r \in Resources :
        /\ WaitsFor(t, r)
        /\ IsFree(r)
        /\ t \in signalled
        /\ signalled' = signalled \ {t}
        /\ m_StarveMap' = [m_StarveMap EXCEPT ![t] = NotStarving]
        /\ BecomeOwner(t, r)
        /\ AcquireReturns(t)
        /\ UNCHANGED <<depth, saved>>

\* SleepEx(100, TRUE) ends, after 100 ms or by an APC, and the resource is free.
WakeAndOwn(t) ==
    \E r \in Resources :
        /\ WaitsFor(t, r)
        /\ IsFree(r)
        /\ signalled' = signalled \ {t}
        /\ m_StarveMap' = [m_StarveMap EXCEPT ![t] = NotStarving]
        /\ BecomeOwner(t, r)
        /\ AcquireReturns(t)
        /\ UNCHANGED <<depth, saved>>

\* ... or it is still owned, and the thread goes back to sleep.
WakeAndStarve(t) ==
    \E r \in Resources :
        /\ WaitsFor(t, r)
        /\ ~IsFree(r)
        /\ signalled' = signalled \ {t}
        /\ m_StarveMap' = [m_StarveMap EXCEPT
                             ![t] = IF @ < MaxStarve THEN @ + 1 ELSE @]
        /\ UNCHANGED <<m_Ownership, m_Resources, m_CS, call, depth, saved>>

----------------------------------------------------------------------------
\* Release, ReleaseAll.

Starving == {t \in Threads : m_StarveMap[t] # NotStarving}

\* The starving threads none starves longer than, whatever they wait for.
MostStarving ==
    {t \in Starving : \A u \in Starving : m_StarveMap[u] <= m_StarveMap[t]}

SignalMostStarving ==
    IF Starving = {} THEN UNCHANGED signalled
    ELSE \E t \in MostStarving : signalled' = signalled \cup {t}

\* Mutant: the critical section is not left.
GiveUp_StaysInside(t, r) ==
    /\ m_Ownership' = [m_Ownership EXCEPT ![r] = Unowned]
    /\ m_Resources' = [m_Resources EXCEPT ![t] = @ \ {r}]
    /\ UNCHANGED m_CS

\* Mutant: the resource stays in m_Resources.
GiveUp_StaysRegistered(t, r) ==
    /\ m_Ownership' = [m_Ownership EXCEPT ![r] = Unowned]
    /\ m_CS' = [m_CS EXCEPT ![r] = NoThread]
    /\ UNCHANGED m_Resources

\* The last Release, or ReleaseAll: t no longer owns r and leaves its section.
GiveUp(t, r) ==
    /\ m_Ownership' = [m_Ownership EXCEPT ![r] = Unowned]
    /\ m_Resources' = [m_Resources EXCEPT ![t] = @ \ {r}]
    /\ m_CS' = [m_CS EXCEPT ![r] = NoThread]

\* CResourceLock destructor of a guard made since the last CResourceUnlock.
CanRelease(t, r) ==
    /\ Idle(t)
    /\ depth[t][r] > saved[t][r]

ReleaseNested(t, r) ==
    /\ CanRelease(t, r)
    /\ m_Ownership[r].count > 1
    /\ SetCount(t, r, m_Ownership[r].count - 1)
    /\ depth' = [depth EXCEPT ![t][r] = @ - 1]
    /\ UNCHANGED <<m_Resources, m_CS, m_StarveMap, signalled, call, saved>>

ReleaseLast(t, r) ==
    /\ CanRelease(t, r)
    /\ m_Ownership[r].count = 1
    /\ GiveUp(t, r)
    /\ SignalMostStarving
    /\ depth' = [depth EXCEPT ![t][r] = @ - 1]
    /\ UNCHANGED <<m_StarveMap, call, saved>>

\* CResourceUnlock constructor, in a method called through a lock on r (the early
\* return of ReleaseAll, r owned by nobody, changes nothing).  Nobody is
\* signalled.  No thread has two live CResourceUnlocks of a resource.
ReleaseAll(t, r) ==
    /\ CanRelease(t, r)
    /\ saved[t][r] = 0
    /\ saved' = [saved EXCEPT ![t][r] = m_Ownership[r].count]
    /\ GiveUp(t, r)
    /\ UNCHANGED <<m_StarveMap, signalled, call, depth>>

----------------------------------------------------------------------------
Wake(t) == WakeAndOwn(t) \/ WakeAndStarve(t)

AcquireStep(t) == AcquireFree(t) \/ AcquireOwned(t) \/ Hibernate(t) \/ Wake(t)

ClientStep(t) ==
    \E r \in Resources :
        \/ Lock(t, r)
        \/ Relock(t, r)
        \/ ReleaseNested(t, r)
        \/ ReleaseLast(t, r)
        \/ ReleaseAll(t, r)

Next == \E t \in Threads : AcquireStep(t) \/ ClientStep(t)

\* A thread inside Acquire runs on, and SleepEx ends by itself: threads are
\* scheduled.  What a caller does with its guards is its own affair.
Fairness == \A t \in Threads : WF_vars(AcquireStep(t))

Spec == Init /\ [][Next]_vars /\ Fairness

----------------------------------------------------------------------------
TypeOK ==
    /\ m_Ownership \in
          [Resources -> [thread : Threads \cup {NoThread}, count : 0 .. MaxDepth]]
    /\ m_Resources \in [Threads -> SUBSET Resources]
    /\ m_CS \in [Resources -> Threads \cup {NoThread}]
    /\ m_StarveMap \in [Threads -> 0 .. NotStarving]
    /\ signalled \in SUBSET Threads
    /\ call \in [Threads -> Calls \cup {NoCall}]
    /\ depth \in [Threads -> [Resources -> 0 .. MaxDepth]]
    /\ saved \in [Threads -> [Resources -> 0 .. MaxDepth]]

\* The number of entries the manager counts for a thread is exactly the number
\* of that thread's guards that are in force: those it made, less those a live
\* CResourceUnlock suspended, less those whose Acquire has not returned.  So a
\* manager is used by one thread at a time, however guards, unlocks and
\* hibernations of several threads interleave (m_Ownership, Module.cpp:27).
OwnershipMatchesGuards ==
    \A t \in Threads, r \in Resources :
        (IF Owns(t, r) THEN m_Ownership[r].count ELSE 0) + saved[t][r]
            + Outstanding(t, r) = depth[t][r]

\* The critical section of a resource is occupied by exactly the owner, so the
\* Enter of Acquire, made while m_MainCS is held, never blocks and takes the
\* whole manager with it ("it must proceed !!!", Module.cpp:266, 320).
SectionMatchesOwnership ==
    \A r \in Resources : m_CS[r] = m_Ownership[r].thread

\* m_Resources is the inverse of m_Ownership: the order check of Acquire looks
\* at the one, the decision to hibernate at the other.
ResourcesMatchOwnership ==
    \A t \in Threads, r \in Resources : r \in m_Resources[t] <=> Owns(t, r)

\* A set of threads that wait for each other's resources, so that none of them
\* will run again.
CircularWait(S) ==
    /\ S # {}
    /\ \A t \in S : \E r \in Resources, u \in S : WaitsFor(t, r) /\ Owns(u, r)

\* What the rule of Module.cpp:29 asks of the waiting threads: each requests a
\* resource above all the m_Resources it owns.
WaitsInOrder ==
    \A t \in Threads, r \in Resources :
        WaitsFor(t, r) => \A q \in m_Resources[t] : q < r

\* Why the rule is there: as long as the waiting threads obey it, no threads
\* wait for each other in a circle, whatever they lock, unlock and relock.
OrderPreventsDeadlock ==
    WaitsInOrder => \A S \in SUBSET Threads : ~CircularWait(S)

\* A resource never passes from one thread to another without being free in
\* between, and no thread wakes up as an owner of more than it asked for: a
\* step changes the ownership of at most one resource.
HandedOverWhenFree ==
    [][\A r \in Resources :
          m_Ownership'[r].thread # m_Ownership[r].thread =>
              /\ m_Ownership[r].thread = NoThread \/ m_Ownership'[r].thread = NoThread
              /\ \A q \in Resources \ {r} : m_Ownership'[q] = m_Ownership[q]]_vars

\* What the callers see of the manager: how deep each thread holds a resource,
\* asks for it, and gave it up.
HeldDepth(t, r) == IF Owns(t, r) THEN depth[t][r] - saved[t][r] ELSE 0
AskedDepth(t, r) == IF Owns(t, r) THEN 0 ELSE Outstanding(t, r)
Held == [t \in Threads |-> [r \in Resources |-> HeldDepth(t, r)]]
Asked == [t \in Threads |-> [r \in Resources |-> AskedDepth(t, r)]]

Locks == INSTANCE RecursiveLocks WITH held <- Held, asked <- Asked, suspended <- saved

\* The manager implements recursive locks that can be given up and taken back:
\* a lock is granted when nobody holds it, and a CResourceUnlock gives back the
\* depth it took, though AcquireMany collects it one Acquire at a time.
ImplementsRecursiveLocks == Locks!Spec

\* A free resource that a thread hibernates for is taken in the end, although
\* Release signals a thread that may be waiting for another resource, and
\* ReleaseAll signals none: no wake-up is ever lost for good.
FreeResourceIsTaken ==
    \A r \in Resources :
        (IsFree(r) /\ \E t \in Threads : WaitsFor(t, r)) ~> ~IsFree(r)

=============================================================================
