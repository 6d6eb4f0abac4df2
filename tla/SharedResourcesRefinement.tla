--------------------- MODULE SharedResourcesRefinement ---------------------
(***************************************************************************)
(* The proof that the lock manager implements RecursiveLocks.              *)
(***************************************************************************)
EXTENDS SharedResourcesProofs

----------------------------------------------------------------------------
\* What the callers see, in terms of the counters and of the calls under way.
ViewOf(t, r) ==
    /\ HeldDepth(t, r) = IF CountOf(t, r) > 0 THEN CountOf(t, r) + Outstanding(t, r)
                         ELSE 0
    /\ AskedDepth(t, r) = IF CountOf(t, r) > 0 THEN 0 ELSE Outstanding(t, r)
    /\ CountOf(t, r) \in Nat
    /\ Outstanding(t, r) \in Nat

Views == \A t \in Threads, r \in Resources : ViewOf(t, r)

LEMMA View == IInv => Views
  <1> SUFFICES ASSUME IInv, NEW t \in Threads, NEW r \in Resources
               PROVE  ViewOf(t, r)
    BY DEF Views
  <1>1. Owns(t, r) => m_Ownership[r].count > 0
    <2>1. m_Ownership[r].count \in 0 .. MaxDepth
      BY Bounded DEF IInv
    <2> QED
      BY <2>1, ThreadsAssumption, BoundsAssumption DEF IInv, CountedWhenOwned, Owns
  <1>2. Owns(t, r) <=> CountOf(t, r) > 0
    BY <1>1 DEF CountOf
  <1> QED
    BY <1>2, AgreeTerms DEF ViewOf, HeldDepth, AskedDepth, Agree

LEMMA ViewNext == IInv' => Views'
  BY View, PTL

\* The mapped variables change entry by entry.
LEMMA HeldSet ==
    ASSUME NEW t \in Threads, NEW r \in Resources, NEW n,
           \A u \in Threads, q \in Resources :
              HeldDepth(u, q)' = IF u = t /\ q = r THEN n ELSE HeldDepth(u, q)
    PROVE  Held' = [Held EXCEPT ![t][r] = n]
  BY DEF Held

LEMMA AskedSet ==
    ASSUME NEW t \in Threads, NEW r \in Resources, NEW n,
           \A u \in Threads, q \in Resources :
              AskedDepth(u, q)' = IF u = t /\ q = r THEN n ELSE AskedDepth(u, q)
    PROVE  Asked' = [Asked EXCEPT ![t][r] = n]
  BY DEF Asked

LEMMA HeldSame ==
    ASSUME \A u \in Threads, q \in Resources : HeldDepth(u, q)' = HeldDepth(u, q)
    PROVE  Held' = Held
  BY DEF Held

LEMMA AskedSame ==
    ASSUME \A u \in Threads, q \in Resources : AskedDepth(u, q)' = AskedDepth(u, q)
    PROVE  Asked' = Asked
  BY DEF Asked

LEMMA Entries ==
    ASSUME NEW t \in Threads, NEW r \in Resources
    PROVE  Held[t][r] = HeldDepth(t, r) /\ Asked[t][r] = AskedDepth(t, r)
  BY DEF Held, Asked

\* A step that changes no counter of ownership, and no call, changes nothing.
LEMMA ViewSame ==
    ASSUME IInv, IInv',
           \A u \in Threads, q \in Resources :
              CountOf(u, q)' = CountOf(u, q) /\ Outstanding(u, q)' = Outstanding(u, q)
    PROVE  Held' = Held /\ Asked' = Asked
  <1>1. \A u \in Threads, q \in Resources :
           HeldDepth(u, q)' = HeldDepth(u, q) /\ AskedDepth(u, q)' = AskedDepth(u, q)
    BY View, ViewNext DEF Views, ViewOf
  <1> QED
    BY <1>1, HeldSame, AskedSame

\* A new call of an idle thread, for n Acquires of r.
LEMMA CallOutstanding ==
    ASSUME IInv, NEW t \in Threads, NEW r \in Resources, NEW n \in 1 .. MaxDepth,
           Idle(t),
           call' = [call EXCEPT ![t] = [rid |-> r, left |-> n, asleep |-> FALSE]]
    PROVE  /\ Outstanding(t, r) = 0
           /\ \A u \in Threads, q \in Resources :
                 Outstanding(u, q)' = IF u = t /\ q = r THEN n ELSE Outstanding(u, q)
  <1> DEFINE c == [rid |-> r, left |-> n, asleep |-> FALSE]
  <1>1. c \in Calls
    BY DEF Calls
  <1>2. \A u \in Threads : call'[u] = IF u = t THEN c ELSE call[u]
    BY <1>1, CallSet DEF IInv
  <1>3. \A q \in Resources : Outstanding(t, q) = 0
    BY IdleOwesNothing
  <1> QED
    BY <1>2, <1>3 DEF Outstanding

LEMMA LockMaps ==
    ASSUME IInv, IInv', NEW t \in Threads, NEW r \in Resources, Lock(t, r)
    PROVE  Locks!Ask(t, r) \/ Locks!Reenter(t, r)
  <1>1. /\ Outstanding(t, r) = 0
        /\ \A u \in Threads, q \in Resources :
              Outstanding(u, q)' = IF u = t /\ q = r THEN 1 ELSE Outstanding(u, q)
    <2>1. 1 \in 1 .. MaxDepth
      BY BoundsAssumption
    <2>2. Idle(t) /\ call' = [call EXCEPT ![t] =
                               [rid |-> r, left |-> 1, asleep |-> FALSE]]
      BY DEF Lock
    <2> QED
      BY <2>1, <2>2, CallOutstanding
  <1>2. \A u \in Threads, q \in Resources : CountOf(u, q)' = CountOf(u, q)
    BY RecordsOfIInv, RecordsUnchanged DEF Lock, manager
  <1>3. saved' = saved
    BY DEF Lock
  <1>4. CASE CountOf(t, r) > 0
    <2>1. HeldDepth(t, r) > 0
      BY <1>1, <1>4, View DEF Views, ViewOf
    <2>2. \A u \in Threads, q \in Resources :
             /\ AskedDepth(u, q)' = AskedDepth(u, q)
             /\ HeldDepth(u, q)' = IF u = t /\ q = r THEN HeldDepth(t, r) + 1
                                   ELSE HeldDepth(u, q)
      BY <1>1, <1>2, <1>4, View, ViewNext DEF Views, ViewOf
    <2>3. Asked' = Asked /\ Held' = [Held EXCEPT ![t][r] = Held[t][r] + 1]
      BY <2>2, AskedSame, HeldSet, Entries
    <2> QED
      BY <1>3, <2>1, <2>3, Entries DEF Locks!Reenter
  <1>5. CASE ~(CountOf(t, r) > 0)
    <2>1. HeldDepth(t, r) = 0 /\ AskedDepth(t, r) = 0
      BY <1>1, <1>5, View DEF Views, ViewOf
    <2>2. \A u \in Threads, q \in Resources :
             /\ HeldDepth(u, q)' = HeldDepth(u, q)
             /\ AskedDepth(u, q)' = IF u = t /\ q = r THEN 1 ELSE AskedDepth(u, q)
      BY <1>1, <1>2, <1>5, View, ViewNext DEF Views, ViewOf
    <2>3. Held' = Held /\ Asked' = [Asked EXCEPT ![t][r] = 1]
      BY <2>2, HeldSame, AskedSet
    <2> QED
      BY <1>3, <2>1, <2>3, Entries DEF Locks!Ask
  <1> QED
    BY <1>4, <1>5

LEMMA RelockMaps ==
    ASSUME IInv, IInv', NEW t \in Threads, NEW r \in Resources, Relock(t, r)
    PROVE  Locks!Resume(t, r)
  <1> DEFINE n == saved[t][r]
  <1>1. n \in 1 .. MaxDepth
    BY AgreeTerms DEF Relock, Agree
  <1>2. /\ Outstanding(t, r) = 0
        /\ \A u \in Threads, q \in Resources :
              Outstanding(u, q)' = IF u = t /\ q = r THEN n ELSE Outstanding(u, q)
    BY <1>1, CallOutstanding DEF Relock
  <1>3. CountOf(t, r) = 0
    BY <1>2, AgreeTerms DEF Relock, Agree
  <1>4. \A u \in Threads, q \in Resources : CountOf(u, q)' = CountOf(u, q)
    BY RecordsOfIInv, RecordsUnchanged DEF Relock, manager
  <1>5. HeldDepth(t, r) = 0 /\ AskedDepth(t, r) = 0
    BY <1>2, <1>3, View DEF Views, ViewOf
  <1>6. \A u \in Threads, q \in Resources :
           /\ HeldDepth(u, q)' = HeldDepth(u, q)
           /\ AskedDepth(u, q)' = IF u = t /\ q = r THEN n ELSE AskedDepth(u, q)
    BY <1>2, <1>3, <1>4, View, ViewNext DEF Views, ViewOf
  <1>7. Held' = Held /\ Asked' = [Asked EXCEPT ![t][r] = n]
    BY <1>6, HeldSame, AskedSet
  <1> QED
    BY <1>1, <1>5, <1>7, Entries DEF Locks!Resume, Relock

\* A free resource is granted to a thread: the counter starts at one, and the
\* Acquires still to come are those of the same AcquireMany.
LEMMA OwnMaps ==
    ASSUME IInv, IInv', NEW t \in Threads, NEW r \in Resources,
           call[t].rid = r, IsFree(r), BecomeOwner(t, r), AcquireReturns(t),
           saved' = saved
    PROVE  Locks!Grant(t, r)
  <1>1. /\ CountOf(t, r) = 0
        /\ \A u \in Threads, q \in Resources :
              CountOf(u, q)' = IF u = t /\ q = r THEN 1 ELSE CountOf(u, q)
    BY BecomeOwnerEffect
  <1>2. /\ Outstanding(t, r) > 0
        /\ \A u \in Threads, q \in Resources :
              Outstanding(u, q)' = IF u = t /\ q = r THEN Outstanding(u, q) - 1
                                   ELSE Outstanding(u, q)
    BY ReturnOwesOneLess DEF IInv
  <1>3. \A u \in Threads : CountOf(u, r) = 0
    BY DEF IsFree, CountOf, Unowned
  <1>4. /\ AskedDepth(t, r) = Outstanding(t, r)
        /\ \A u \in Threads : HeldDepth(u, r) = 0
    BY <1>3, View DEF Views, ViewOf
  <1>5. \A u \in Threads, q \in Resources :
           /\ HeldDepth(u, q)' = IF u = t /\ q = r THEN AskedDepth(t, r)
                                 ELSE HeldDepth(u, q)
           /\ AskedDepth(u, q)' = IF u = t /\ q = r THEN 0 ELSE AskedDepth(u, q)
    BY <1>1, <1>2, <1>4, View, ViewNext DEF Views, ViewOf
  <1>6. /\ Held' = [Held EXCEPT ![t][r] = Asked[t][r]]
        /\ Asked' = [Asked EXCEPT ![t][r] = 0]
    BY <1>5, HeldSet, AskedSet, Entries
  <1> QED
    BY <1>2, <1>4, <1>6, Entries DEF Locks!Grant

\* The later turns of AcquireMany show nothing to the callers.
LEMMA AcquireOwnedMaps ==
    ASSUME IInv, IInv', NEW t \in Threads, AcquireOwned(t)
    PROVE  Held' = Held /\ Asked' = Asked /\ saved' = saved
  <1>1. PICK r \in Resources :
             /\ call[t].rid = r /\ Owns(t, r) /\ AcquireReturns(t)
             /\ SetCount(t, r, m_Ownership[r].count + 1)
             /\ m_Resources' = m_Resources /\ m_CS' = m_CS /\ saved' = saved
    BY DEF AcquireOwned
  <1> DEFINE n == m_Ownership[r].count + 1
  <1>2. /\ Outstanding(t, r) > 0
        /\ \A u \in Threads, q \in Resources :
              Outstanding(u, q)' = IF u = t /\ q = r THEN Outstanding(u, q) - 1
                                   ELSE Outstanding(u, q)
    BY <1>1, ReturnOwesOneLess DEF IInv
  <1>3. CountOf(t, r) = m_Ownership[r].count
    BY <1>1 DEF CountOf
  <1>4. n \in 1 .. MaxDepth
    BY <1>2, <1>3, AgreeTerms DEF Agree
  <1>5. \A u \in Threads, q \in Resources :
           CountOf(u, q)' = IF u = t /\ q = r THEN n ELSE CountOf(u, q)
    BY <1>1, <1>4, CountEffect
  <1>6. CountOf(t, r) > 0
    <2>1. m_Ownership[r].count \in 0 .. MaxDepth
      BY Bounded DEF IInv
    <2> QED
      BY <1>1, <1>3, <2>1, ThreadsAssumption, BoundsAssumption
      DEF IInv, CountedWhenOwned, Owns
  <1>7. \A u \in Threads, q \in Resources :
           HeldDepth(u, q)' = HeldDepth(u, q) /\ AskedDepth(u, q)' = AskedDepth(u, q)
    BY <1>2, <1>3, <1>5, <1>6, View, ViewNext DEF Views, ViewOf
  <1> QED
    BY <1>1, <1>7, HeldSame, AskedSame

LEMMA SleepMaps ==
    ASSUME IInv, IInv', NEW t \in Threads, Hibernate(t) \/ WakeAndStarve(t)
    PROVE  Held' = Held /\ Asked' = Asked /\ saved' = saved
  <1>1. /\ UNCHANGED <<m_Ownership, m_Resources, m_CS>>
        /\ saved' = saved
    BY DEF Hibernate, WakeAndStarve
  <1>2. \A u \in Threads, q \in Resources : CountOf(u, q)' = CountOf(u, q)
    BY <1>1, RecordsOfIInv, RecordsUnchanged
  <1>3. \A u \in Threads, q \in Resources : Outstanding(u, q)' = Outstanding(u, q)
    <2>1. CASE WakeAndStarve(t)
      BY <2>1, OutstandingUnchanged DEF WakeAndStarve
    <2>2. CASE Hibernate(t)
      <3>1. PICK r \in Resources :
                /\ call[t].rid = r
                /\ call' = [call EXCEPT ![t] =
                               [rid |-> r, left |-> @.left, asleep |-> TRUE]]
        BY <2>2 DEF Hibernate
      <3>2. \A u \in Threads : call'[u] =
               IF u = t THEN [rid |-> r, left |-> call[t].left, asleep |-> TRUE]
               ELSE call[u]
        BY <3>1 DEF IInv, TypeOK
      <3> QED
        BY <3>1, <3>2 DEF Outstanding
    <2> QED
      BY <2>1, <2>2
  <1> QED
    BY <1>1, <1>2, <1>3, ViewSame

LEMMA ReleaseMaps ==
    ASSUME IInv, IInv', NEW t \in Threads, NEW r \in Resources,
           ReleaseNested(t, r) \/ ReleaseLast(t, r)
    PROVE  Locks!Leave(t, r)
  <1> DEFINE n == m_Ownership[r].count - 1
  <1>1. CanRelease(t, r) /\ saved' = saved /\ call' = call
    BY DEF ReleaseNested, ReleaseLast
  <1>2. Owns(t, r)
    BY <1>1, GuardMeansOwner
  <1>3. CountOf(t, r) = m_Ownership[r].count
    BY <1>2 DEF CountOf
  <1>4. Outstanding(t, r) = 0
    BY <1>1, IdleOwesNothing DEF CanRelease
  <1>5. \A u \in Threads, q \in Resources : Outstanding(u, q)' = Outstanding(u, q)
    BY <1>1, OutstandingUnchanged
  <1>6. /\ CountOf(t, r) > 0
        /\ \A u \in Threads, q \in Resources :
              CountOf(u, q)' = IF u = t /\ q = r THEN CountOf(t, r) - 1
                               ELSE CountOf(u, q)
    <2>1. CASE ReleaseNested(t, r)
      <3>1. n \in 1 .. MaxDepth
        BY <1>3, <2>1, AgreeTerms DEF ReleaseNested, Agree
      <3>2. SetCount(t, r, n) /\ m_Resources' = m_Resources /\ m_CS' = m_CS
        BY <2>1 DEF ReleaseNested
      <3>3. \A u \in Threads, q \in Resources :
               CountOf(u, q)' = IF u = t /\ q = r THEN n ELSE CountOf(u, q)
        BY <1>2, <3>1, <3>2, CountEffect
      <3>4. CountOf(t, r) > 0
        BY <1>3, <2>1, AgreeTerms DEF ReleaseNested
      <3> QED
        BY <1>3, <3>3, <3>4
    <2>2. CASE ReleaseLast(t, r)
      <3>1. CountOf(t, r) = 1
        BY <1>3, <2>2 DEF ReleaseLast
      <3>2. \A u \in Threads, q \in Resources :
               CountOf(u, q)' = IF u = t /\ q = r THEN 0 ELSE CountOf(u, q)
        BY <1>2, <2>2, GiveUpEffect DEF ReleaseLast
      <3> QED
        BY <3>1, <3>2
    <2> QED
      BY <2>1, <2>2
  <1>7. HeldDepth(t, r) = CountOf(t, r) /\ HeldDepth(t, r) > 0
    BY <1>4, <1>6, View DEF Views, ViewOf
  <1>8. \A u \in Threads, q \in Resources :
           /\ HeldDepth(u, q)' = IF u = t /\ q = r THEN HeldDepth(t, r) - 1
                                 ELSE HeldDepth(u, q)
           /\ AskedDepth(u, q)' = AskedDepth(u, q)
    BY <1>4, <1>5, <1>6, <1>7, View, ViewNext DEF Views, ViewOf
  <1>9. Held' = [Held EXCEPT ![t][r] = Held[t][r] - 1] /\ Asked' = Asked
    BY <1>8, HeldSet, AskedSame, Entries
  <1> QED
    BY <1>1, <1>7, <1>9, Entries DEF Locks!Leave

LEMMA ReleaseAllMaps ==
    ASSUME IInv, IInv', NEW t \in Threads, NEW r \in Resources, ReleaseAll(t, r)
    PROVE  Locks!Suspend(t, r)
  <1>1. CanRelease(t, r) /\ call' = call /\ saved[t][r] = 0
    BY DEF ReleaseAll
  <1>2. Owns(t, r)
    BY <1>1, GuardMeansOwner
  <1>3. CountOf(t, r) = m_Ownership[r].count
    BY <1>2 DEF CountOf
  <1>4. Outstanding(t, r) = 0
    BY <1>1, IdleOwesNothing DEF CanRelease
  <1>5. \A u \in Threads, q \in Resources : Outstanding(u, q)' = Outstanding(u, q)
    BY <1>1, OutstandingUnchanged
  <1>6. \A u \in Threads, q \in Resources :
           CountOf(u, q)' = IF u = t /\ q = r THEN 0 ELSE CountOf(u, q)
    BY <1>2, GiveUpEffect DEF ReleaseAll
  <1>7. CountOf(t, r) > 0
    BY <1>1, <1>4, AgreeTerms DEF Agree, CanRelease
  <1>8. HeldDepth(t, r) = CountOf(t, r) /\ HeldDepth(t, r) > 0
    BY <1>4, <1>7, View DEF Views, ViewOf
  <1>9. \A u \in Threads, q \in Resources :
           /\ HeldDepth(u, q)' = IF u = t /\ q = r THEN 0 ELSE HeldDepth(u, q)
           /\ AskedDepth(u, q)' = AskedDepth(u, q)
    BY <1>4, <1>5, <1>6, View, ViewNext DEF Views, ViewOf
  <1>10. Held' = [Held EXCEPT ![t][r] = 0] /\ Asked' = Asked
    BY <1>9, HeldSet, AskedSame
  <1>11. saved' = [saved EXCEPT ![t][r] = Held[t][r]]
    BY <1>3, <1>8, Entries DEF ReleaseAll
  <1> QED
    BY <1>1, <1>8, <1>10, <1>11, Entries DEF Locks!Suspend

LEMMA StutterMaps ==
    ASSUME UNCHANGED vars
    PROVE  Held' = Held /\ Asked' = Asked /\ saved' = saved
  BY DEF vars, manager, clients, Held, Asked, HeldDepth, AskedDepth, Owns, Outstanding

LEMMA InitMaps == Init => Locks!Init
  BY ThreadsAssumption, NoCallId
  DEF Init, Locks!Init, Locks!None, Held, Asked, HeldDepth, AskedDepth, Owns,
      Outstanding, Unowned, NoCall

LEMMA NextMaps == IInv /\ IInv' /\ [Next]_vars => [Locks!Next]_(Locks!vars)
  <1> SUFFICES ASSUME IInv, IInv', [Next]_vars
               PROVE  Locks!Next \/ (Held' = Held /\ Asked' = Asked /\ saved' = saved)
    BY DEF Locks!vars
  <1>1. CASE UNCHANGED vars
    BY <1>1, StutterMaps
  <1>2. ASSUME NEW t \in Threads, AcquireStep(t)
        PROVE  \/ \E r \in Resources : Locks!Grant(t, r)
               \/ Held' = Held /\ Asked' = Asked /\ saved' = saved
    <2>1. CASE AcquireFree(t)
      BY <2>1, OwnMaps DEF AcquireFree
    <2>2. CASE WakeAndOwn(t)
      BY <2>2, OwnMaps DEF WakeAndOwn, WaitsFor
    <2>3. CASE AcquireOwned(t)
      BY <2>3, AcquireOwnedMaps
    <2>4. CASE Hibernate(t) \/ WakeAndStarve(t)
      BY <2>4, SleepMaps
    <2> QED
      BY <1>2, <2>1, <2>2, <2>3, <2>4 DEF AcquireStep, Wake
  <1>3. ASSUME NEW t \in Threads, ClientStep(t)
        PROVE  \E r \in Resources :
                  \/ Locks!Ask(t, r) \/ Locks!Reenter(t, r) \/ Locks!Resume(t, r)
                  \/ Locks!Leave(t, r) \/ Locks!Suspend(t, r)
    BY <1>3, LockMaps, RelockMaps, ReleaseMaps, ReleaseAllMaps DEF ClientStep
  <1>4. CASE Next
    <2> PICK t \in Threads : AcquireStep(t) \/ ClientStep(t)
      BY <1>4 DEF Next
    <2>1. CASE AcquireStep(t)
      BY <1>2, <2>1 DEF Locks!Next
    <2>2. CASE ClientStep(t)
      BY <1>3, <2>2 DEF Locks!Next
    <2> QED
      BY <2>1, <2>2
  <1> QED
    BY <1>1, <1>4

\* The counters, the hibernation and the loop of AcquireMany add up to recursive
\* locks, each held by one thread at a time, that come back from a
\* CResourceUnlock as deep as they were.
THEOREM Refinement == Spec => ImplementsRecursiveLocks
  <1>1. Spec => Init /\ [][Next]_vars
    BY PTL DEF Spec
  <1> QED
    BY <1>1, Invariance, InitMaps, NextMaps, PTL
    DEF ImplementsRecursiveLocks, Locks!Spec
=============================================================================
