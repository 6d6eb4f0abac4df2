----------------------- MODULE SharedResourcesProofs -----------------------
(***************************************************************************)
(* Theorems about SharedResources, for every set of threads, number of     *)
(* resources and depth of nesting.                                         *)
(***************************************************************************)
EXTENDS SharedResources, WellFoundedInduction, TLAPS

\* There is an entry in m_Ownership exactly while its counter is above zero.
CountedWhenOwned ==
    \A r \in Resources :
        m_Ownership[r].thread = NoThread <=> m_Ownership[r].count = 0

\* The inductive invariant.
IInv ==
    /\ TypeOK
    /\ CountedWhenOwned
    /\ OwnershipMatchesGuards
    /\ SectionMatchesOwnership
    /\ ResourcesMatchOwnership

\* The agreement of the counter with the guards, for one thread and resource.
CountOf(t, r) == IF Owns(t, r) THEN m_Ownership[r].count ELSE 0
Agree(t, r) == CountOf(t, r) + saved[t][r] + Outstanding(t, r) = depth[t][r]

OwnershipType == [thread : Threads \cup {NoThread}, count : 0 .. MaxDepth]

----------------------------------------------------------------------------
\* No call is for the id SR_LAST, which NoCall uses.
LEMMA NoCallId == SR_LAST \notin Resources
  BY BoundsAssumption DEF Resources

\* The entries of depth, saved, call and m_Ownership are numbers of the bounds.
LEMMA Bounded ==
    ASSUME TypeOK, NEW t \in Threads, NEW r \in Resources
    PROVE  /\ depth[t][r] \in 0 .. MaxDepth
           /\ saved[t][r] \in 0 .. MaxDepth
           /\ Outstanding(t, r) \in 0 .. MaxDepth
           /\ m_Ownership[r] \in OwnershipType
           /\ m_Ownership[r].count \in 0 .. MaxDepth
           /\ CountOf(t, r) \in 0 .. MaxDepth
  <1>1. m_Ownership[r] \in OwnershipType
    BY DEF TypeOK, OwnershipType
  <1>2. m_Ownership[r].count \in 0 .. MaxDepth
    BY <1>1 DEF OwnershipType
  <1>3. call[t] \in Calls \cup {NoCall}
    BY DEF TypeOK
  <1>4. Outstanding(t, r) \in 0 .. MaxDepth
    BY <1>3, BoundsAssumption DEF Outstanding, Calls, NoCall
  <1>5. depth[t][r] \in 0 .. MaxDepth /\ saved[t][r] \in 0 .. MaxDepth
    BY DEF TypeOK
  <1>6. CountOf(t, r) \in 0 .. MaxDepth
    BY <1>2, BoundsAssumption DEF CountOf
  <1> QED
    BY <1>1, <1>2, <1>4, <1>5, <1>6

\* An idle thread has no Acquire outstanding.
LEMMA IdleOwesNothing ==
    ASSUME NEW t \in Threads, NEW r \in Resources, Idle(t)
    PROVE  Outstanding(t, r) = 0
  BY NoCallId DEF Idle, Outstanding, NoCall

\* A thread whose guards on r are in force owns r, and its entry counts them.
LEMMA GuardMeansOwner ==
    ASSUME IInv, NEW t \in Threads, NEW r \in Resources, CanRelease(t, r)
    PROVE  Owns(t, r) /\ m_Ownership[r].count = depth[t][r] - saved[t][r]
  <1>1. TypeOK /\ Agree(t, r)
    BY DEF IInv, OwnershipMatchesGuards, Agree, CountOf
  <1>2. Outstanding(t, r) = 0 /\ depth[t][r] > saved[t][r]
    BY IdleOwesNothing DEF CanRelease
  <1>3. CountOf(t, r) = depth[t][r] - saved[t][r]
    BY <1>1, <1>2, Bounded, BoundsAssumption DEF Agree
  <1>4. CountOf(t, r) # 0
    BY <1>1, <1>2, <1>3, Bounded, BoundsAssumption
  <1> QED
    BY <1>3, <1>4 DEF CountOf

----------------------------------------------------------------------------
\* What an assignment to one entry does, entry by entry.
LEMMA CallSet ==
    ASSUME TypeOK, NEW t \in Threads, NEW c \in Calls \cup {NoCall},
           call' = [call EXCEPT ![t] = c]
    PROVE  /\ call' \in [Threads -> Calls \cup {NoCall}]
           /\ \A u \in Threads : call'[u] = IF u = t THEN c ELSE call[u]
  BY DEF TypeOK

\* A change of one guard's depth.
LEMMA DepthSet ==
    ASSUME TypeOK, NEW t \in Threads, NEW r \in Resources,
           NEW n \in 0 .. MaxDepth, depth' = [depth EXCEPT ![t][r] = n]
    PROVE  /\ depth' \in [Threads -> [Resources -> 0 .. MaxDepth]]
           /\ \A u \in Threads, q \in Resources :
                 depth'[u][q] = IF u = t /\ q = r THEN n ELSE depth[u][q]
  BY DEF TypeOK

\* A change of one guard's saved count.
LEMMA SavedSet ==
    ASSUME TypeOK, NEW t \in Threads, NEW r \in Resources,
           NEW n \in 0 .. MaxDepth, saved' = [saved EXCEPT ![t][r] = n]
    PROVE  /\ saved' \in [Threads -> [Resources -> 0 .. MaxDepth]]
           /\ \A u \in Threads, q \in Resources :
                 saved'[u][q] = IF u = t /\ q = r THEN n ELSE saved[u][q]
  BY DEF TypeOK

\* A change of one resource's owner.
LEMMA OwnershipSet ==
    ASSUME TypeOK, NEW r \in Resources, NEW o \in OwnershipType,
           m_Ownership' = [m_Ownership EXCEPT ![r] = o]
    PROVE  /\ m_Ownership' \in [Resources -> OwnershipType]
           /\ \A q \in Resources :
                 m_Ownership'[q] = IF q = r THEN o ELSE m_Ownership[q]
  BY DEF TypeOK, OwnershipType

\* The Acquire that returns was one of the outstanding ones.
LEMMA ReturnOwesOneLess ==
    ASSUME TypeOK, NEW t \in Threads, NEW r \in Resources,
           call[t].rid = r, AcquireReturns(t)
    PROVE  /\ call' \in [Threads -> Calls \cup {NoCall}]
           /\ Outstanding(t, r) > 0
           /\ \A u \in Threads, q \in Resources :
                 Outstanding(u, q)' = IF u = t /\ q = r THEN Outstanding(u, q) - 1
                                      ELSE Outstanding(u, q)
  <1> DEFINE c == IF call[t].left = 1 THEN NoCall
                  ELSE [rid |-> call[t].rid, left |-> call[t].left - 1,
                        asleep |-> FALSE]
  <1>1. call[t] \in Calls
    BY NoCallId DEF TypeOK, NoCall
  <1>2. c \in Calls \cup {NoCall}
    <2>1. /\ call[t].rid \in Resources
          /\ call[t].left \in 1 .. MaxDepth
      BY <1>1 DEF Calls
    <2>2. CASE call[t].left = 1
      BY <2>2
    <2>3. CASE call[t].left # 1
      <3>1. call[t].left - 1 \in 1 .. MaxDepth
        BY <2>1, <2>3, BoundsAssumption
      <3> QED
        BY <2>1, <2>3, <3>1 DEF Calls
    <2> QED
      BY <2>2, <2>3
  <1>3. call' = [call EXCEPT ![t] = c]
    BY Zenon DEF AcquireReturns
  <1>4. /\ call' \in [Threads -> Calls \cup {NoCall}]
        /\ \A u \in Threads : call'[u] = IF u = t THEN c ELSE call[u]
    BY <1>2, <1>3, CallSet
  <1>5. ASSUME NEW q \in Resources
        PROVE  Outstanding(t, q)' = IF q = r THEN Outstanding(t, q) - 1
                                    ELSE Outstanding(t, q)
    <2>1. CASE call[t].left = 1
      BY <2>1, <1>1, <1>4, NoCallId DEF Outstanding, NoCall
    <2>2. CASE call[t].left # 1
      BY <2>2, <1>1, <1>4 DEF Outstanding, Calls
    <2> QED
      BY <2>1, <2>2
  <1>6. ASSUME NEW u \in Threads, NEW q \in Resources, u # t
        PROVE  Outstanding(u, q)' = Outstanding(u, q)
    BY <1>4, <1>6 DEF Outstanding
  <1>7. Outstanding(t, r) > 0
    BY <1>1, BoundsAssumption DEF Outstanding, Calls
  <1> QED
    BY <1>4, <1>5, <1>6, <1>7

----------------------------------------------------------------------------
\* What the three records of ownership agree on.
Records ==
    /\ m_Ownership \in [Resources -> OwnershipType]
    /\ m_Resources \in [Threads -> SUBSET Resources]
    /\ m_CS \in [Resources -> Threads \cup {NoThread}]
    /\ CountedWhenOwned
    /\ SectionMatchesOwnership
    /\ ResourcesMatchOwnership

\* The invariant contains what is said of the manager's maps.
LEMMA RecordsOfIInv == IInv => Records
  BY DEF IInv, Records, TypeOK, OwnershipType

\* A free resource gets an owner that entered it once; nothing else changes.
LEMMA BecomeOwnerEffect ==
    ASSUME IInv, NEW t \in Threads, NEW r \in Resources,
           IsFree(r), BecomeOwner(t, r)
    PROVE  /\ Records'
           /\ CountOf(t, r) = 0
           /\ \A u \in Threads, q \in Resources :
                 CountOf(u, q)' = IF u = t /\ q = r THEN 1 ELSE CountOf(u, q)
  <1> DEFINE o == [thread |-> t, count |-> 1]
  <1>1. TypeOK /\ Records
    BY RecordsOfIInv DEF IInv
  <1>2. o \in OwnershipType
    BY BoundsAssumption DEF OwnershipType
  <1>3. /\ m_Ownership' \in [Resources -> OwnershipType]
        /\ \A q \in Resources :
              m_Ownership'[q] = IF q = r THEN o ELSE m_Ownership[q]
    BY <1>1, <1>2, OwnershipSet DEF BecomeOwner, SetCount
  <1>4. /\ m_Ownership[r].thread = NoThread
        /\ m_Ownership[r].count = 0
    BY DEF IsFree, Unowned
  <1>5. \A q \in Resources : m_CS'[q] = IF q = r THEN t ELSE m_CS[q]
    BY <1>1 DEF BecomeOwner, TypeOK
  <1>6. m_CS' \in [Resources -> Threads \cup {NoThread}]
    BY <1>1 DEF BecomeOwner, TypeOK
  <1>7. /\ m_Resources' \in [Threads -> SUBSET Resources]
        /\ \A u \in Threads : m_Resources'[u] =
              IF u = t THEN m_Resources[u] \cup {r} ELSE m_Resources[u]
    BY <1>1 DEF BecomeOwner, TypeOK
  <1>8. CountedWhenOwned'
    BY <1>1, <1>3, ThreadsAssumption DEF Records, CountedWhenOwned
  <1>9. SectionMatchesOwnership'
    BY <1>1, <1>3, <1>5 DEF Records, SectionMatchesOwnership
  <1>10. ResourcesMatchOwnership'
    BY <1>1, <1>3, <1>4, <1>7, ThreadsAssumption
    DEF Records, ResourcesMatchOwnership, Owns
  <1>11. \A u \in Threads, q \in Resources :
            CountOf(u, q)' = IF u = t /\ q = r THEN 1 ELSE CountOf(u, q)
    BY <1>3, <1>4, ThreadsAssumption DEF CountOf, Owns
  <1>12. CountOf(t, r) = 0
    BY <1>4 DEF CountOf
  <1> QED
    BY <1>3, <1>6, <1>7, <1>8, <1>9, <1>10, <1>11, <1>12 DEF Records

\* An owned resource becomes free; nothing else changes.
LEMMA GiveUpEffect ==
    ASSUME IInv, NEW t \in Threads, NEW r \in Resources,
           Owns(t, r), GiveUp(t, r)
    PROVE  /\ Records'
           /\ \A u \in Threads, q \in Resources :
                 CountOf(u, q)' = IF u = t /\ q = r THEN 0 ELSE CountOf(u, q)
  <1>1. TypeOK /\ Records
    BY RecordsOfIInv DEF IInv
  <1>2. Unowned \in OwnershipType
    BY BoundsAssumption DEF OwnershipType, Unowned
  <1>3. /\ m_Ownership' \in [Resources -> OwnershipType]
        /\ \A q \in Resources :
              m_Ownership'[q] = IF q = r THEN Unowned ELSE m_Ownership[q]
    BY <1>1, <1>2, OwnershipSet DEF GiveUp
  <1>4. Unowned.thread = NoThread /\ Unowned.count = 0
    BY DEF Unowned
  <1>5. \A q \in Resources : m_CS'[q] = IF q = r THEN NoThread ELSE m_CS[q]
    BY <1>1 DEF GiveUp, TypeOK
  <1>6. m_CS' \in [Resources -> Threads \cup {NoThread}]
    BY <1>1 DEF GiveUp, TypeOK
  <1>7. /\ m_Resources' \in [Threads -> SUBSET Resources]
        /\ \A u \in Threads : m_Resources'[u] =
              IF u = t THEN m_Resources[u] \ {r} ELSE m_Resources[u]
    BY <1>1 DEF GiveUp, TypeOK
  <1>8. CountedWhenOwned'
    BY <1>1, <1>3, <1>4 DEF Records, CountedWhenOwned
  <1>9. SectionMatchesOwnership'
    BY <1>1, <1>3, <1>4, <1>5 DEF Records, SectionMatchesOwnership
  <1>10. ResourcesMatchOwnership'
    BY <1>1, <1>3, <1>4, <1>7, ThreadsAssumption
    DEF Records, ResourcesMatchOwnership, Owns
  <1>11. \A u \in Threads, q \in Resources :
            CountOf(u, q)' = IF u = t /\ q = r THEN 0 ELSE CountOf(u, q)
    BY <1>3, <1>4, ThreadsAssumption DEF CountOf, Owns
  <1> QED
    BY <1>3, <1>6, <1>7, <1>8, <1>9, <1>10, <1>11 DEF Records

\* The counter of an owned resource changes, and stays above zero.
LEMMA CountEffect ==
    ASSUME IInv, NEW t \in Threads, NEW r \in Resources, Owns(t, r),
           NEW n \in 1 .. MaxDepth, SetCount(t, r, n),
           m_Resources' = m_Resources, m_CS' = m_CS
    PROVE  /\ Records'
           /\ \A u \in Threads, q \in Resources :
                 CountOf(u, q)' = IF u = t /\ q = r THEN n ELSE CountOf(u, q)
  <1> DEFINE o == [thread |-> t, count |-> n]
  <1>1. TypeOK /\ Records
    BY RecordsOfIInv DEF IInv
  <1>2. o \in OwnershipType
    BY BoundsAssumption DEF OwnershipType
  <1>3. /\ m_Ownership' \in [Resources -> OwnershipType]
        /\ \A q \in Resources :
              m_Ownership'[q] = IF q = r THEN o ELSE m_Ownership[q]
    BY <1>1, <1>2, OwnershipSet DEF SetCount
  <1>4. m_Ownership[r].thread = t
    BY DEF Owns
  <1>5. CountedWhenOwned'
    BY <1>1, <1>3, ThreadsAssumption DEF Records, CountedWhenOwned
  <1>6. SectionMatchesOwnership' /\ ResourcesMatchOwnership'
    BY <1>1, <1>3, <1>4
    DEF Records, SectionMatchesOwnership, ResourcesMatchOwnership, Owns
  <1>7. \A u \in Threads, q \in Resources :
            CountOf(u, q)' = IF u = t /\ q = r THEN n ELSE CountOf(u, q)
    BY <1>3, <1>4 DEF CountOf, Owns
  <1> QED
    BY <1>1, <1>3, <1>5, <1>6, <1>7 DEF Records

----------------------------------------------------------------------------
\* The types of the variables the records of ownership leave out.
RestTypeOK ==
    /\ m_StarveMap \in [Threads -> 0 .. NotStarving]
    /\ signalled \in SUBSET Threads
    /\ call \in [Threads -> Calls \cup {NoCall}]
    /\ depth \in [Threads -> [Resources -> 0 .. MaxDepth]]
    /\ saved \in [Threads -> [Resources -> 0 .. MaxDepth]]

\* The invariant, taken apart into the maps, the other types and the agreement of counts
\* and guards.
LEMMA Parts ==
    IInv <=> Records /\ RestTypeOK /\ \A u \in Threads, q \in Resources : Agree(u, q)
  BY DEF IInv, Records, RestTypeOK, TypeOK, OwnershipType,
         OwnershipMatchesGuards, Agree, CountOf

\* The parts of the next state put together.
LEMMA PartsNext ==
    ASSUME Records', RestTypeOK', \A u \in Threads, q \in Resources : Agree(u, q)'
    PROVE  IInv'
  BY DEF IInv, Records, RestTypeOK, TypeOK, OwnershipType,
         OwnershipMatchesGuards, Agree, CountOf

\* The records, when a step leaves the three of them alone.
LEMMA RecordsUnchanged ==
    ASSUME Records, UNCHANGED <<m_Ownership, m_Resources, m_CS>>
    PROVE  /\ Records'
           /\ \A u \in Threads, q \in Resources : CountOf(u, q)' = CountOf(u, q)
  BY DEF Records, CountedWhenOwned, SectionMatchesOwnership,
         ResourcesMatchOwnership, CountOf, Owns

\* A step without a call leaves the entries asked for alone.
LEMMA OutstandingUnchanged ==
    ASSUME UNCHANGED call
    PROVE  \A u \in Threads, q \in Resources : Outstanding(u, q)' = Outstanding(u, q)
  BY DEF Outstanding

\* The arithmetic of the agreement takes place in the integers.
LEMMA AgreeTerms ==
    ASSUME IInv, NEW u \in Threads, NEW q \in Resources
    PROVE  /\ Agree(u, q)
           /\ CountOf(u, q) \in Nat /\ Outstanding(u, q) \in Nat
           /\ saved[u][q] \in Nat /\ depth[u][q] \in Nat
           /\ MaxDepth \in Nat /\ depth[u][q] <= MaxDepth
  <1>1. TypeOK
    BY DEF IInv
  <1>2. MaxDepth \in Nat
    BY BoundsAssumption
  <1>3. /\ CountOf(u, q) \in 0 .. MaxDepth /\ Outstanding(u, q) \in 0 .. MaxDepth
        /\ saved[u][q] \in 0 .. MaxDepth /\ depth[u][q] \in 0 .. MaxDepth
    BY <1>1, Bounded
  <1> QED
    BY <1>2, <1>3, Parts

\* A guard is made, and its Acquire is called.
LEMMA LockIInv ==
    ASSUME IInv, NEW t \in Threads, NEW r \in Resources, Lock(t, r)
    PROVE  IInv'
  <1> DEFINE c == [rid |-> r, left |-> 1, asleep |-> FALSE]
             n == depth[t][r] + 1
  <1>1. TypeOK /\ Records /\ RestTypeOK
    BY Parts DEF IInv
  <1>2. c \in Calls
    BY BoundsAssumption DEF Calls
  <1>3. n \in 0 .. MaxDepth
    BY AgreeTerms DEF Lock
  <1>4. /\ call' \in [Threads -> Calls \cup {NoCall}]
        /\ \A u \in Threads : call'[u] = IF u = t THEN c ELSE call[u]
    BY <1>1, <1>2, CallSet DEF Lock
  <1>5. /\ depth' \in [Threads -> [Resources -> 0 .. MaxDepth]]
        /\ \A u \in Threads, q \in Resources :
              depth'[u][q] = IF u = t /\ q = r THEN n ELSE depth[u][q]
    BY <1>1, <1>3, DepthSet DEF Lock
  <1>6. /\ Records'
        /\ \A u \in Threads, q \in Resources : CountOf(u, q)' = CountOf(u, q)
    BY <1>1, RecordsUnchanged DEF Lock, manager
  <1>7. \A u \in Threads, q \in Resources :
           Outstanding(u, q)' = IF u = t /\ q = r THEN Outstanding(u, q) + 1
                                ELSE Outstanding(u, q)
    BY <1>4, IdleOwesNothing DEF Lock, Outstanding
  <1>8. ASSUME NEW u \in Threads, NEW q \in Resources
        PROVE  Agree(u, q)'
    <2>1. saved' = saved
      BY DEF Lock
    <2>2. CASE u = t /\ q = r
      <3>1. /\ Outstanding(t, r)' = Outstanding(t, r) + 1
            /\ depth'[t][r] = depth[t][r] + 1
            /\ CountOf(t, r)' = CountOf(t, r)
        BY <1>5, <1>6, <1>7
      <3> QED
        BY <2>1, <2>2, <3>1, AgreeTerms DEF Agree
    <2>3. CASE ~(u = t /\ q = r)
      <3>1. /\ Outstanding(u, q)' = Outstanding(u, q)
            /\ depth'[u][q] = depth[u][q]
            /\ CountOf(u, q)' = CountOf(u, q)
        BY <1>5, <1>6, <1>7, <2>3
      <3> QED
        BY <2>1, <3>1, AgreeTerms DEF Agree
    <2> QED
      BY <2>2, <2>3
  <1>9. RestTypeOK'
    BY <1>1, <1>4, <1>5 DEF RestTypeOK, Lock, manager
  <1> QED
    BY <1>6, <1>8, <1>9, PartsNext

\* An unlock ends, and its AcquireMany is called.
LEMMA RelockIInv ==
    ASSUME IInv, NEW t \in Threads, NEW r \in Resources, Relock(t, r)
    PROVE  IInv'
  <1> DEFINE c == [rid |-> r, left |-> saved[t][r], asleep |-> FALSE]
  <1>1. TypeOK /\ Records /\ RestTypeOK
    BY Parts DEF IInv
  <1>2. c \in Calls
    BY <1>1, Bounded, BoundsAssumption DEF Calls, Relock
  <1>3. 0 \in 0 .. MaxDepth
    BY BoundsAssumption
  <1>4. /\ call' \in [Threads -> Calls \cup {NoCall}]
        /\ \A u \in Threads : call'[u] = IF u = t THEN c ELSE call[u]
    BY <1>1, <1>2, CallSet DEF Relock
  <1>5. /\ saved' \in [Threads -> [Resources -> 0 .. MaxDepth]]
        /\ \A u \in Threads, q \in Resources :
              saved'[u][q] = IF u = t /\ q = r THEN 0 ELSE saved[u][q]
    BY <1>1, <1>3, SavedSet DEF Relock
  <1>6. /\ Records'
        /\ \A u \in Threads, q \in Resources : CountOf(u, q)' = CountOf(u, q)
    BY <1>1, RecordsUnchanged DEF Relock, manager
  <1>7. \A u \in Threads, q \in Resources :
           /\ Outstanding(u, q)' = IF u = t /\ q = r THEN saved[t][r]
                                   ELSE Outstanding(u, q)
           /\ u = t => Outstanding(u, q) = 0
    BY <1>4, IdleOwesNothing DEF Relock, Outstanding
  <1>8. ASSUME NEW u \in Threads, NEW q \in Resources
        PROVE  Agree(u, q)'
    <2>1. depth' = depth
      BY DEF Relock
    <2>2. CASE u = t /\ q = r
      <3>1. Outstanding(t, r) = 0 /\ Outstanding(t, r)' = saved[t][r]
        BY <1>7
      <3>2. saved'[t][r] = 0 /\ CountOf(t, r)' = CountOf(t, r)
        BY <1>5, <1>6
      <3> QED
        BY <2>1, <2>2, <3>1, <3>2, AgreeTerms DEF Agree
    <2>3. CASE ~(u = t /\ q = r)
      <3>1. Outstanding(u, q)' = Outstanding(u, q)
        BY <1>7, <2>3
      <3>2. saved'[u][q] = saved[u][q] /\ CountOf(u, q)' = CountOf(u, q)
        BY <1>5, <1>6, <2>3
      <3> QED
        BY <2>1, <3>1, <3>2, AgreeTerms DEF Agree
    <2> QED
      BY <2>2, <2>3
  <1>9. RestTypeOK'
    BY <1>1, <1>4, <1>5 DEF RestTypeOK, Relock, manager
  <1> QED
    BY <1>6, <1>8, <1>9, PartsNext

\* Acquire gets a resource that is free.
LEMMA AcquireFreeIInv ==
    ASSUME IInv, NEW t \in Threads, AcquireFree(t)
    PROVE  IInv'
  <1> PICK r \in Resources :
             /\ call[t].rid = r /\ IsFree(r)
             /\ BecomeOwner(t, r) /\ AcquireReturns(t)
             /\ UNCHANGED <<m_StarveMap, signalled, depth, saved>>
    BY DEF AcquireFree
  <1>1. TypeOK /\ RestTypeOK
    BY Parts DEF IInv
  <1>2. /\ Records'
        /\ CountOf(t, r) = 0
        /\ \A u \in Threads, q \in Resources :
              CountOf(u, q)' = IF u = t /\ q = r THEN 1 ELSE CountOf(u, q)
    BY BecomeOwnerEffect
  <1>3. /\ call' \in [Threads -> Calls \cup {NoCall}]
        /\ Outstanding(t, r) > 0
        /\ \A u \in Threads, q \in Resources :
              Outstanding(u, q)' = IF u = t /\ q = r THEN Outstanding(u, q) - 1
                                   ELSE Outstanding(u, q)
    BY <1>1, ReturnOwesOneLess
  <1>4. ASSUME NEW u \in Threads, NEW q \in Resources
        PROVE  Agree(u, q)'
    BY <1>2, <1>3, AgreeTerms DEF Agree
  <1>5. RestTypeOK'
    BY <1>1, <1>3 DEF RestTypeOK
  <1> QED
    BY <1>2, <1>4, <1>5, PartsNext

\* Acquire of the owner counts one more.
LEMMA AcquireOwnedIInv ==
    ASSUME IInv, NEW t \in Threads, AcquireOwned(t)
    PROVE  IInv'
  <1> PICK r \in Resources :
             /\ call[t].rid = r /\ Owns(t, r)
             /\ SetCount(t, r, m_Ownership[r].count + 1)
             /\ AcquireReturns(t)
             /\ UNCHANGED <<m_Resources, m_CS, m_StarveMap, signalled, depth, saved>>
    BY DEF AcquireOwned
  <1> DEFINE n == m_Ownership[r].count + 1
  <1>1. TypeOK /\ RestTypeOK
    BY Parts DEF IInv
  <1>2. /\ call' \in [Threads -> Calls \cup {NoCall}]
        /\ Outstanding(t, r) > 0
        /\ \A u \in Threads, q \in Resources :
              Outstanding(u, q)' = IF u = t /\ q = r THEN Outstanding(u, q) - 1
                                   ELSE Outstanding(u, q)
    BY <1>1, ReturnOwesOneLess
  <1>3. CountOf(t, r) = m_Ownership[r].count
    BY DEF CountOf
  <1>4. n \in 1 .. MaxDepth
    BY <1>2, <1>3, AgreeTerms DEF Agree
  <1>5. m_Resources' = m_Resources /\ m_CS' = m_CS
    OBVIOUS
  <1>6. /\ Records'
        /\ \A u \in Threads, q \in Resources :
              CountOf(u, q)' = IF u = t /\ q = r THEN n ELSE CountOf(u, q)
    BY <1>4, <1>5, CountEffect
  <1>7. ASSUME NEW u \in Threads, NEW q \in Resources
        PROVE  Agree(u, q)'
    <2>1. CASE u = t /\ q = r
      <3>1. /\ CountOf(t, r)' = CountOf(t, r) + 1
            /\ Outstanding(t, r)' = Outstanding(t, r) - 1
        BY <1>2, <1>3, <1>6
      <3> QED
        BY <2>1, <3>1, AgreeTerms DEF Agree
    <2>2. CASE ~(u = t /\ q = r)
      <3>1. /\ CountOf(u, q)' = CountOf(u, q)
            /\ Outstanding(u, q)' = Outstanding(u, q)
        BY <1>2, <1>6, <2>2
      <3> QED
        BY <3>1, AgreeTerms DEF Agree
    <2> QED
      BY <2>1, <2>2
  <1>8. RestTypeOK'
    BY <1>1, <1>2 DEF RestTypeOK
  <1> QED
    BY <1>6, <1>7, <1>8, PartsNext

\* Acquire of a resource that another thread owns goes to sleep.
LEMMA HibernateIInv ==
    ASSUME IInv, NEW t \in Threads, Hibernate(t)
    PROVE  IInv'
  <1> PICK r \in Resources :
             /\ call[t].rid = r
             /\ m_StarveMap' = [m_StarveMap EXCEPT ![t] = 0]
             /\ call' = [call EXCEPT ![t] =
                            [rid |-> r, left |-> @.left, asleep |-> TRUE]]
             /\ UNCHANGED <<m_Ownership, m_Resources, m_CS, signalled, depth, saved>>
    BY DEF Hibernate
  <1> DEFINE c == [rid |-> r, left |-> call[t].left, asleep |-> TRUE]
  <1>1. TypeOK /\ Records /\ RestTypeOK
    BY Parts DEF IInv
  <1>2. call[t] \in Calls
    BY <1>1, NoCallId DEF TypeOK, NoCall
  <1>3. c \in Calls
    <2>1. call[t].left \in 1 .. MaxDepth
      BY <1>2 DEF Calls
    <2> QED
      BY <2>1 DEF Calls
  <1>4. call' = [call EXCEPT ![t] = c]
    BY Zenon
  <1>5. /\ call' \in [Threads -> Calls \cup {NoCall}]
        /\ \A u \in Threads : call'[u] = IF u = t THEN c ELSE call[u]
    BY <1>1, <1>3, <1>4, CallSet
  <1>6. \A u \in Threads, q \in Resources : Outstanding(u, q)' = Outstanding(u, q)
    BY <1>5 DEF Outstanding
  <1>7. /\ Records'
        /\ \A u \in Threads, q \in Resources : CountOf(u, q)' = CountOf(u, q)
    BY <1>1, RecordsUnchanged
  <1>8. ASSUME NEW u \in Threads, NEW q \in Resources
        PROVE  Agree(u, q)'
    BY <1>6, <1>7, AgreeTerms DEF Agree
  <1>9. m_StarveMap' \in [Threads -> 0 .. NotStarving]
    BY <1>1, BoundsAssumption DEF RestTypeOK, NotStarving
  <1>10. RestTypeOK'
    BY <1>1, <1>5, <1>9 DEF RestTypeOK
  <1> QED
    BY <1>7, <1>8, <1>10, PartsNext

\* A thread wakes up and gets the resource.
LEMMA WakeAndOwnIInv ==
    ASSUME IInv, NEW t \in Threads, WakeAndOwn(t)
    PROVE  IInv'
  <1> PICK r \in Resources :
             /\ call[t].rid = r /\ IsFree(r)
             /\ signalled' = signalled \ {t}
             /\ m_StarveMap' = [m_StarveMap EXCEPT ![t] = NotStarving]
             /\ BecomeOwner(t, r) /\ AcquireReturns(t)
             /\ UNCHANGED <<depth, saved>>
    BY DEF WakeAndOwn, WaitsFor
  <1>1. TypeOK /\ RestTypeOK
    BY Parts DEF IInv
  <1>2. /\ Records'
        /\ CountOf(t, r) = 0
        /\ \A u \in Threads, q \in Resources :
              CountOf(u, q)' = IF u = t /\ q = r THEN 1 ELSE CountOf(u, q)
    BY BecomeOwnerEffect
  <1>3. /\ call' \in [Threads -> Calls \cup {NoCall}]
        /\ Outstanding(t, r) > 0
        /\ \A u \in Threads, q \in Resources :
              Outstanding(u, q)' = IF u = t /\ q = r THEN Outstanding(u, q) - 1
                                   ELSE Outstanding(u, q)
    BY <1>1, ReturnOwesOneLess
  <1>4. ASSUME NEW u \in Threads, NEW q \in Resources
        PROVE  Agree(u, q)'
    BY <1>2, <1>3, AgreeTerms DEF Agree
  <1>5. m_StarveMap' \in [Threads -> 0 .. NotStarving]
    BY <1>1, BoundsAssumption DEF RestTypeOK, NotStarving
  <1>6. RestTypeOK'
    BY <1>1, <1>3, <1>5 DEF RestTypeOK
  <1> QED
    BY <1>2, <1>4, <1>6, PartsNext

\* A thread wakes up in vain.
LEMMA WakeAndStarveIInv ==
    ASSUME IInv, NEW t \in Threads, WakeAndStarve(t)
    PROVE  IInv'
  <1> PICK r \in Resources :
             /\ signalled' = signalled \ {t}
             /\ m_StarveMap' = [m_StarveMap EXCEPT
                                  ![t] = IF @ < MaxStarve THEN @ + 1 ELSE @]
             /\ UNCHANGED <<m_Ownership, m_Resources, m_CS, call, depth, saved>>
    BY DEF WakeAndStarve
  <1>1. Records /\ RestTypeOK
    BY Parts
  <1>2. /\ Records'
        /\ \A u \in Threads, q \in Resources : CountOf(u, q)' = CountOf(u, q)
    BY <1>1, RecordsUnchanged
  <1>3. \A u \in Threads, q \in Resources : Outstanding(u, q)' = Outstanding(u, q)
    BY OutstandingUnchanged
  <1>4. ASSUME NEW u \in Threads, NEW q \in Resources
        PROVE  Agree(u, q)'
    BY <1>2, <1>3, AgreeTerms DEF Agree
  <1>5. m_StarveMap' \in [Threads -> 0 .. NotStarving]
    BY <1>1, BoundsAssumption DEF RestTypeOK, NotStarving
  <1>6. RestTypeOK'
    BY <1>1, <1>5 DEF RestTypeOK
  <1> QED
    BY <1>2, <1>4, <1>6, PartsNext

\* SignalMostStarving queues an APC to one of the threads, or to none.
LEMMA SignalType ==
    ASSUME TypeOK, SignalMostStarving
    PROVE  signalled' \in SUBSET Threads
  BY DEF TypeOK, SignalMostStarving, MostStarving, Starving

\* A guard less on r: the depth afterwards.
LEMMA OneGuardLess ==
    ASSUME IInv, NEW t \in Threads, NEW r \in Resources, CanRelease(t, r),
           depth' = [depth EXCEPT ![t][r] = @ - 1]
    PROVE  /\ depth' \in [Threads -> [Resources -> 0 .. MaxDepth]]
           /\ \A u \in Threads, q \in Resources :
                 depth'[u][q] = IF u = t /\ q = r THEN depth[t][r] - 1
                                ELSE depth[u][q]
  <1> DEFINE n == depth[t][r] - 1
  <1>1. TypeOK
    BY DEF IInv
  <1>2. n \in 0 .. MaxDepth
    BY AgreeTerms DEF CanRelease
  <1> QED
    BY <1>1, <1>2, DepthSet

\* Release of a nested guard.
LEMMA ReleaseNestedIInv ==
    ASSUME IInv, NEW t \in Threads, NEW r \in Resources, ReleaseNested(t, r)
    PROVE  IInv'
  <1> DEFINE n == m_Ownership[r].count - 1
  <1>1. TypeOK /\ RestTypeOK
    BY Parts DEF IInv
  <1>2. Owns(t, r)
    BY GuardMeansOwner DEF ReleaseNested
  <1>3. m_Ownership[r].count = CountOf(t, r)
    BY <1>2 DEF CountOf
  <1>4. n \in 1 .. MaxDepth
    BY <1>3, AgreeTerms DEF ReleaseNested, Agree
  <1>5. /\ m_Resources' = m_Resources /\ m_CS' = m_CS /\ call' = call
        /\ SetCount(t, r, n)
    BY DEF ReleaseNested
  <1>6. /\ Records'
        /\ \A u \in Threads, q \in Resources :
              CountOf(u, q)' = IF u = t /\ q = r THEN n ELSE CountOf(u, q)
    BY <1>2, <1>4, <1>5, CountEffect
  <1>7. /\ depth' \in [Threads -> [Resources -> 0 .. MaxDepth]]
        /\ \A u \in Threads, q \in Resources :
              depth'[u][q] = IF u = t /\ q = r THEN depth[t][r] - 1
                             ELSE depth[u][q]
    BY OneGuardLess DEF ReleaseNested
  <1>8. ASSUME NEW u \in Threads, NEW q \in Resources
        PROVE  Agree(u, q)'
    <2>1. saved' = saved /\ Outstanding(u, q)' = Outstanding(u, q)
      BY <1>5, OutstandingUnchanged DEF ReleaseNested
    <2>2. CASE u = t /\ q = r
      <3>1. CountOf(t, r)' = CountOf(t, r) - 1 /\ depth'[t][r] = depth[t][r] - 1
        BY <1>3, <1>6, <1>7
      <3> QED
        BY <2>1, <2>2, <3>1, AgreeTerms DEF Agree
    <2>3. CASE ~(u = t /\ q = r)
      <3>1. CountOf(u, q)' = CountOf(u, q) /\ depth'[u][q] = depth[u][q]
        BY <1>6, <1>7, <2>3
      <3> QED
        BY <2>1, <3>1, AgreeTerms DEF Agree
    <2> QED
      BY <2>2, <2>3
  <1>9. RestTypeOK'
    BY <1>1, <1>7 DEF RestTypeOK, ReleaseNested
  <1> QED
    BY <1>6, <1>8, <1>9, PartsNext

\* Release of the last guard gives the resource up and signals a waiting thread.
LEMMA ReleaseLastIInv ==
    ASSUME IInv, NEW t \in Threads, NEW r \in Resources, ReleaseLast(t, r)
    PROVE  IInv'
  <1>1. TypeOK /\ RestTypeOK
    BY Parts DEF IInv
  <1>2. Owns(t, r)
    BY GuardMeansOwner DEF ReleaseLast
  <1>3. CountOf(t, r) = 1
    BY <1>2 DEF CountOf, ReleaseLast
  <1>4. /\ Records'
        /\ \A u \in Threads, q \in Resources :
              CountOf(u, q)' = IF u = t /\ q = r THEN 0 ELSE CountOf(u, q)
    BY <1>2, GiveUpEffect DEF ReleaseLast
  <1>5. /\ depth' \in [Threads -> [Resources -> 0 .. MaxDepth]]
        /\ \A u \in Threads, q \in Resources :
              depth'[u][q] = IF u = t /\ q = r THEN depth[t][r] - 1
                             ELSE depth[u][q]
    BY OneGuardLess DEF ReleaseLast
  <1>6. ASSUME NEW u \in Threads, NEW q \in Resources
        PROVE  Agree(u, q)'
    <2>1. saved' = saved /\ Outstanding(u, q)' = Outstanding(u, q)
      BY OutstandingUnchanged DEF ReleaseLast
    <2>2. CASE u = t /\ q = r
      <3>1. CountOf(t, r)' = 0 /\ depth'[t][r] = depth[t][r] - 1
        BY <1>4, <1>5
      <3> QED
        BY <1>3, <2>1, <2>2, <3>1, AgreeTerms DEF Agree
    <2>3. CASE ~(u = t /\ q = r)
      <3>1. CountOf(u, q)' = CountOf(u, q) /\ depth'[u][q] = depth[u][q]
        BY <1>4, <1>5, <2>3
      <3> QED
        BY <2>1, <3>1, AgreeTerms DEF Agree
    <2> QED
      BY <2>2, <2>3
  <1>7. signalled' \in SUBSET Threads
    BY <1>1, SignalType DEF ReleaseLast
  <1>8. RestTypeOK'
    BY <1>1, <1>5, <1>7 DEF RestTypeOK, ReleaseLast
  <1> QED
    BY <1>4, <1>6, <1>8, PartsNext

\* An unlock gives the resource up whatever the depth, and signals nobody.
LEMMA ReleaseAllIInv ==
    ASSUME IInv, NEW t \in Threads, NEW r \in Resources, ReleaseAll(t, r)
    PROVE  IInv'
  <1> DEFINE n == m_Ownership[r].count
  <1>1. TypeOK /\ RestTypeOK
    BY Parts DEF IInv
  <1>2. Owns(t, r)
    BY GuardMeansOwner DEF ReleaseAll
  <1>3. CountOf(t, r) = n
    BY <1>2 DEF CountOf
  <1>4. n \in 0 .. MaxDepth
    BY <1>1, Bounded
  <1>5. /\ Records'
        /\ \A u \in Threads, q \in Resources :
              CountOf(u, q)' = IF u = t /\ q = r THEN 0 ELSE CountOf(u, q)
    BY <1>2, GiveUpEffect DEF ReleaseAll
  <1>6. /\ saved' \in [Threads -> [Resources -> 0 .. MaxDepth]]
        /\ \A u \in Threads, q \in Resources :
              saved'[u][q] = IF u = t /\ q = r THEN n ELSE saved[u][q]
    <2>1. saved' = [saved EXCEPT ![t][r] = n]
      BY DEF ReleaseAll
    <2> HIDE DEF n
    <2> QED
      BY <1>1, <1>4, <2>1, SavedSet
  <1>7. ASSUME NEW u \in Threads, NEW q \in Resources
        PROVE  Agree(u, q)'
    <2>1. depth' = depth /\ Outstanding(u, q)' = Outstanding(u, q)
      BY OutstandingUnchanged DEF ReleaseAll
    <2>2. CASE u = t /\ q = r
      <3>1. CountOf(t, r)' = 0 /\ saved'[t][r] = n /\ saved[t][r] = 0
        BY <1>5, <1>6 DEF ReleaseAll
      <3> QED
        BY <1>3, <2>1, <2>2, <3>1, AgreeTerms DEF Agree
    <2>3. CASE ~(u = t /\ q = r)
      <3>1. CountOf(u, q)' = CountOf(u, q) /\ saved'[u][q] = saved[u][q]
        BY <1>5, <1>6, <2>3
      <3> QED
        BY <2>1, <3>1, AgreeTerms DEF Agree
    <2> QED
      BY <2>2, <2>3
  <1>8. RestTypeOK'
    BY <1>1, <1>6 DEF RestTypeOK, ReleaseAll
  <1> QED
    BY <1>5, <1>7, <1>8, PartsNext

\* A step outside of the manager.
LEMMA StutterIInv ==
    ASSUME IInv, UNCHANGED vars
    PROVE  IInv'
  BY DEF IInv, vars, manager, clients, TypeOK, CountedWhenOwned,
         OwnershipMatchesGuards, SectionMatchesOwnership,
         ResourcesMatchOwnership, Owns, Outstanding

\* The invariant holds at first.
LEMMA InitIInv == Init => IInv
  <1> SUFFICES ASSUME Init PROVE IInv
    OBVIOUS
  <1>1. TypeOK
    BY BoundsAssumption DEF Init, TypeOK, Unowned, NotStarving
  <1>2. CountedWhenOwned /\ SectionMatchesOwnership
    BY DEF Init, CountedWhenOwned, SectionMatchesOwnership, Unowned
  <1>3. ResourcesMatchOwnership
    BY ThreadsAssumption DEF Init, ResourcesMatchOwnership, Owns, Unowned
  <1>4. OwnershipMatchesGuards
    BY ThreadsAssumption, NoCallId
    DEF Init, OwnershipMatchesGuards, Owns, Unowned, Outstanding, NoCall
  <1> QED
    BY <1>1, <1>2, <1>3, <1>4 DEF IInv

\* Every step keeps the invariant.
LEMMA NextIInv == IInv /\ [Next]_vars => IInv'
  <1> SUFFICES ASSUME IInv, [Next]_vars PROVE IInv'
    OBVIOUS
  <1>1. CASE UNCHANGED vars
    BY <1>1, StutterIInv
  <1>2. ASSUME NEW t \in Threads, AcquireStep(t)
        PROVE  IInv'
    BY <1>2, AcquireFreeIInv, AcquireOwnedIInv, HibernateIInv,
       WakeAndOwnIInv, WakeAndStarveIInv DEF AcquireStep, Wake
  <1>3. ASSUME NEW t \in Threads, ClientStep(t)
        PROVE  IInv'
    BY <1>3, LockIInv, RelockIInv, ReleaseNestedIInv, ReleaseLastIInv,
       ReleaseAllIInv DEF ClientStep
  <1> QED
    BY <1>1, <1>2, <1>3 DEF Next

----------------------------------------------------------------------------
\* The type invariant, and with it everything the manager keeps in agreement:
\* Acquire, Release, ReleaseAll and AcquireMany preserve it in every
\* interleaving of any number of threads.
THEOREM Invariance == Spec => []IInv
  BY InitIInv, NextIInv, PTL DEF Spec

\* Every variable of the manager keeps its type.
THEOREM TypeCorrect == Spec => []TypeOK
  <1>1. IInv => TypeOK
    BY DEF IInv
  <1> QED
    BY <1>1, Invariance, PTL

\* The counters of m_Ownership are exactly the guards in force, so two threads
\* never use one manager at a time.
THEOREM CountersAreGuards == Spec => []OwnershipMatchesGuards
  <1>1. IInv => OwnershipMatchesGuards
    BY DEF IInv
  <1> QED
    BY <1>1, Invariance, PTL

\* The Enter of m_CS inside m_MainCS never blocks: the section is the owner's.
THEOREM EnterMustProceed == Spec => []SectionMatchesOwnership
  <1>1. IInv => SectionMatchesOwnership
    BY DEF IInv
  <1> QED
    BY <1>1, Invariance, PTL

\* m_Resources and m_Ownership never disagree.
THEOREM ResourcesAgree == Spec => []ResourcesMatchOwnership
  <1>1. IInv => ResourcesMatchOwnership
    BY DEF IInv
  <1> QED
    BY <1>1, Invariance, PTL

----------------------------------------------------------------------------
\* A nonempty set of numbers has a smallest one.
LEMMA Smallest ==
    ASSUME NEW T, T \subseteq Nat, T # {}
    PROVE  \E x \in T : \A y \in T : x <= y
  <1> DEFINE R == OpToRel(<, Nat)
  <1>1. IsWellFoundedOn(R, Nat)
    BY NatLessThanWellFounded
  <1>2. PICK x \in T : \A y \in T : ~(<<y, x>> \in R)
    <2> HIDE DEF R
    <2> QED
      BY <1>1, WFMin
  <1>3. ASSUME NEW y \in T
        PROVE  x <= y
    <2>1. x \in Nat /\ y \in Nat /\ ~(<<y, x>> \in R)
      BY <1>2
    <2>2. ~(y < x)
      BY <2>1 DEF OpToRel
    <2>3. x \in Nat /\ y \in Nat
      BY <2>1
    <2> HIDE DEF R
    <2> QED
      BY <2>2, <2>3
  <1> QED
    BY <1>3

\* A nonempty set of resources has one with the largest id.
LEMMA LargestResource ==
    ASSUME NEW W, W \subseteq Resources, W # {}
    PROVE  \E m \in W : \A r \in W : r <= m
  <1> DEFINE T == {SR_LAST - r : r \in W}
  <1>1. \A r \in W : r \in Nat /\ SR_LAST - r \in Nat
    BY BoundsAssumption DEF Resources
  <1>2. T \subseteq Nat /\ T # {}
    BY <1>1
  <1>3. PICK x \in T : \A y \in T : x <= y
    <2> HIDE DEF T
    <2> QED
      BY <1>2, Smallest
  <1>4. PICK m \in W : x = SR_LAST - m
    OBVIOUS
  <1>5. \A r \in W : SR_LAST - m <= SR_LAST - r
    BY <1>3, <1>4
  <1> QED
    BY <1>1, <1>5, BoundsAssumption

\* The argument for the rule of Module.cpp:29.  In a circle of waiting threads
\* look at one that waits for the largest id m: the thread that owns m is in the
\* circle too, so it waits for some r above what it owns, m among it.
LEMMA NoCircleAmongOrdered ==
    ASSUME IInv, NEW S, S \subseteq Threads, CircularWait(S),
           \A t \in S, r \in Resources : WaitsFor(t, r) => \A q \in m_Resources[t] : q < r
    PROVE  FALSE
  <1> DEFINE W == {r \in Resources : \E t \in S : WaitsFor(t, r)}
  <1>1. W # {}
    BY DEF CircularWait
  <1>2. PICK m \in W : \A r \in W : r <= m
    <2> HIDE DEF W
    <2>1. W \subseteq Resources
      BY DEF W
    <2> QED
      BY <1>1, <2>1, LargestResource
  <1>3. PICK t \in S : WaitsFor(t, m)
    OBVIOUS
  <1>4. PICK u \in S : Owns(u, m)
    <2>1. PICK r \in Resources, u \in S : WaitsFor(t, r) /\ Owns(u, r)
      BY <1>3 DEF CircularWait
    <2>2. r = m
      BY <1>3, <2>1 DEF WaitsFor
    <2> QED
      BY <2>1, <2>2
  <1>5. PICK r \in Resources : WaitsFor(u, r)
    BY DEF CircularWait
  <1>6. r \in W /\ r <= m
    BY <1>2, <1>5
  <1>7. m \in m_Resources[u]
    BY <1>4 DEF IInv, ResourcesMatchOwnership
  <1>8. m < r
    BY <1>5, <1>7
  <1> QED
    BY <1>6, <1>8, BoundsAssumption DEF Resources

\* The rule of ids leaves no circle.
LEMMA NoCircleInOrder == IInv => OrderPreventsDeadlock
  BY NoCircleAmongOrdered DEF OrderPreventsDeadlock, WaitsInOrder

\* While the waiting threads obey the rule of increasing ids, no set of threads
\* is deadlocked, whatever else they do.
THEOREM NoDeadlockInOrder == Spec => []OrderPreventsDeadlock
  BY Invariance, NoCircleInOrder, PTL

----------------------------------------------------------------------------
\* What one step may do to the owners.
HandOver ==
    \A r \in Resources :
        m_Ownership'[r].thread # m_Ownership[r].thread =>
            /\ m_Ownership[r].thread = NoThread \/ m_Ownership'[r].thread = NoThread
            /\ \A q \in Resources \ {r} : m_Ownership'[q] = m_Ownership[q]

\* An assignment to the entry of r, if r is free before or after it.
LEMMA OneHandOver ==
    ASSUME IInv, NEW r \in Resources, NEW o \in OwnershipType,
           m_Ownership' = [m_Ownership EXCEPT ![r] = o],
           \/ m_Ownership[r].thread = NoThread
           \/ o.thread = NoThread
           \/ o.thread = m_Ownership[r].thread
    PROVE  HandOver
  <1>1. \A q \in Resources :
           m_Ownership'[q] = IF q = r THEN o ELSE m_Ownership[q]
    BY OwnershipSet DEF IInv
  <1> QED
    BY <1>1 DEF HandOver

\* Steps that change no owner.
LEMMA SameOwners ==
    ASSUME UNCHANGED m_Ownership
    PROVE  HandOver
  BY DEF HandOver

\* Steps that change the count of the owner, or make one of a free resource.
LEMMA CountHandOver ==
    ASSUME IInv, NEW t \in Threads, NEW r \in Resources,
           IsFree(r) \/ Owns(t, r),
           NEW n \in 0 .. MaxDepth, SetCount(t, r, n)
    PROVE  HandOver
  <1> DEFINE o == [thread |-> t, count |-> n]
  <1>1. o \in OwnershipType
    BY DEF OwnershipType
  <1>2. m_Ownership' = [m_Ownership EXCEPT ![r] = o]
    BY DEF SetCount
  <1>3. m_Ownership[r].thread = NoThread \/ o.thread = m_Ownership[r].thread
    BY DEF IsFree, Unowned, Owns
  <1> HIDE DEF o
  <1> QED
    BY <1>1, <1>2, <1>3, OneHandOver

\* Steps that give the resource up.
LEMMA GiveUpHandOver ==
    ASSUME IInv, NEW t \in Threads, NEW r \in Resources, GiveUp(t, r)
    PROVE  HandOver
  <1>1. Unowned \in OwnershipType /\ Unowned.thread = NoThread
    BY BoundsAssumption DEF OwnershipType, Unowned
  <1> QED
    BY <1>1, OneHandOver DEF GiveUp

\* Every step hands one resource over at most.
LEMMA NextHandOver == IInv /\ [Next]_vars => [HandOver]_vars
  <1> SUFFICES ASSUME IInv, [Next]_vars PROVE HandOver
    OBVIOUS
  <1> USE DEF manager
  <1>1. CASE UNCHANGED vars
    BY <1>1, SameOwners DEF vars
  <1>2. ASSUME NEW t \in Threads, AcquireStep(t)
        PROVE  HandOver
    <2>1. CASE AcquireFree(t)
      <3>1. PICK r \in Resources : IsFree(r) /\ SetCount(t, r, 1)
        BY <2>1 DEF AcquireFree, BecomeOwner
      <3>2. 1 \in 0 .. MaxDepth
        BY BoundsAssumption
      <3> QED
        BY <3>1, <3>2, CountHandOver
    <2>2. CASE AcquireOwned(t)
      <3>1. PICK r \in Resources :
                /\ call[t].rid = r /\ Owns(t, r) /\ AcquireReturns(t)
                /\ SetCount(t, r, m_Ownership[r].count + 1)
        BY <2>2 DEF AcquireOwned
      <3>2. Outstanding(t, r) > 0
        BY <3>1, ReturnOwesOneLess DEF IInv
      <3>3. m_Ownership[r].count = CountOf(t, r)
        BY <3>1 DEF CountOf
      <3>4. m_Ownership[r].count + 1 \in 0 .. MaxDepth
        BY <3>2, <3>3, AgreeTerms DEF Agree
      <3> QED
        BY <3>1, <3>4, CountHandOver
    <2>3. CASE Hibernate(t)
      BY <2>3, SameOwners DEF Hibernate
    <2>4. CASE WakeAndOwn(t)
      <3>1. PICK r \in Resources : IsFree(r) /\ SetCount(t, r, 1)
        BY <2>4 DEF WakeAndOwn, BecomeOwner
      <3>2. 1 \in 0 .. MaxDepth
        BY BoundsAssumption
      <3> QED
        BY <3>1, <3>2, CountHandOver
    <2>5. CASE WakeAndStarve(t)
      BY <2>5, SameOwners DEF WakeAndStarve
    <2> QED
      BY <1>2, <2>1, <2>2, <2>3, <2>4, <2>5 DEF AcquireStep, Wake
  <1>3. ASSUME NEW t \in Threads, NEW r \in Resources,
               \/ Lock(t, r) \/ Relock(t, r) \/ ReleaseNested(t, r)
               \/ ReleaseLast(t, r) \/ ReleaseAll(t, r)
        PROVE  HandOver
    <2>1. CASE Lock(t, r)
      BY <2>1, SameOwners DEF Lock
    <2>2. CASE Relock(t, r)
      BY <2>2, SameOwners DEF Relock
    <2>3. CASE ReleaseNested(t, r)
      <3>1. Owns(t, r) /\ SetCount(t, r, m_Ownership[r].count - 1)
        BY <2>3, GuardMeansOwner DEF ReleaseNested
      <3>2. m_Ownership[r].count = CountOf(t, r)
        BY <3>1 DEF CountOf
      <3>3. m_Ownership[r].count - 1 \in 0 .. MaxDepth
        BY <2>3, <3>2, AgreeTerms DEF Agree, ReleaseNested
      <3> QED
        BY <3>1, <3>3, CountHandOver
    <2>4. CASE ReleaseLast(t, r)
      BY <2>4, GiveUpHandOver DEF ReleaseLast
    <2>5. CASE ReleaseAll(t, r)
      BY <2>5, GiveUpHandOver DEF ReleaseAll
    <2> QED
      BY <1>3, <2>1, <2>2, <2>3, <2>4, <2>5
  <1> QED
    BY <1>1, <1>2, <1>3 DEF Next, ClientStep

\* No step takes a resource from its owner for another thread, or changes the
\* owners of two resources.
THEOREM HandOverWhenFree == Spec => HandedOverWhenFree
  <1>1. IInv /\ [Next]_vars => [HandOver]_vars
    BY NextHandOver
  <1>2. Spec => [][HandOver]_vars
    BY <1>1, Invariance, PTL DEF Spec
  <1> QED
    BY <1>2 DEF HandedOverWhenFree, HandOver

----------------------------------------------------------------------------
\* What FreeResourceIsTaken takes besides fairness.

\* A step of a thread changes no call but its own.
LEMMA CallsOfOthers ==
    ASSUME IInv, NEW t \in Threads, NEW u \in Threads, u # t, AcquireStep(u) \/ ClientStep(u)
    PROVE  call'[t] = call[t]
  <1>1. \A c : call' = [call EXCEPT ![u] = c] => call'[t] = call[t]
    BY DEF IInv, TypeOK
  <1>2. AcquireReturns(u) => call'[t] = call[t]
    BY DEF AcquireReturns, IInv, TypeOK
  <1>3. CASE AcquireStep(u)
    <2>1. Hibernate(u) => call'[t] = call[t]
      BY DEF Hibernate, IInv, TypeOK
    <2> QED
      BY <1>2, <1>3, <2>1
         DEF AcquireStep, Wake, AcquireFree, AcquireOwned, WakeAndOwn, WakeAndStarve
  <1>4. CASE ClientStep(u)
    <2>1. PICK r \in Resources : \/ Lock(u, r) \/ Relock(u, r)
                                 \/ ReleaseNested(u, r) \/ ReleaseLast(u, r) \/ ReleaseAll(u, r)
      BY <1>4 DEF ClientStep
    <2> QED
      BY <1>1, <2>1 DEF Lock, Relock, ReleaseNested, ReleaseLast, ReleaseAll
  <1> QED
    BY <1>3, <1>4

\* A thread that hibernates for a free resource can only take it.
LEMMA WokenTakes ==
    ASSUME IInv, NEW t \in Threads, NEW r \in Resources, IsFree(r), WaitsFor(t, r),
           AcquireStep(t)
    PROVE  ~IsFree(r)'
  <1>1. \A q \in Resources : call[t].rid = q => q = r
    BY DEF WaitsFor
  <1>2. WakeAndOwn(t) /\ BecomeOwner(t, r)
    BY <1>1 DEF AcquireStep, Wake, AcquireFree, AcquireOwned, Hibernate, WakeAndOwn,
           WakeAndStarve, WaitsFor
  <1>3. m_Ownership'[r].count = 1
    BY <1>2 DEF BecomeOwner, SetCount, IInv, TypeOK
  <1> QED
    BY <1>3 DEF IsFree, Unowned

\* A free resource that a thread hibernates for stays free only while that thread sleeps
\* on: no step of anybody else makes it stop asking, and its own next step takes the
\* resource, signalled or not.  So whichever thread Release chose to signal, a step of
\* any of those that hibernate for the resource is enough (Module.cpp:304).
THEOREM WakeUpsAreNotLost ==
    Spec => [][\A t \in Threads, r \in Resources :
                  IsFree(r) /\ WaitsFor(t, r) /\ IsFree(r)' =>
                      WaitsFor(t, r)' /\ ~AcquireStep(t)]_vars
  <1>1. ASSUME IInv, [Next]_vars
        PROVE  [\A t \in Threads, r \in Resources :
                  IsFree(r) /\ WaitsFor(t, r) /\ IsFree(r)' =>
                      WaitsFor(t, r)' /\ ~AcquireStep(t)]_vars
    <2> SUFFICES ASSUME Next, NEW t \in Threads, NEW r \in Resources,
                        IsFree(r), WaitsFor(t, r), IsFree(r)'
                 PROVE  WaitsFor(t, r)' /\ ~AcquireStep(t)
      BY <1>1
    <2>1. ~AcquireStep(t)
      BY <1>1, WokenTakes
    <2>2. ~ClientStep(t)
      BY DEF ClientStep, Lock, Relock, ReleaseNested, ReleaseLast, ReleaseAll, CanRelease,
             Idle, NoCall, WaitsFor
    <2>3. call'[t] = call[t]
      BY <1>1, <2>1, <2>2, CallsOfOthers DEF Next
    <2> QED
      BY <2>1, <2>3 DEF WaitsFor
  <1> QED
    BY <1>1, Invariance, PTL DEF Spec
=============================================================================
