------------------------- MODULE LockClientsProofs -------------------------
(***************************************************************************)
(* The handlers use the lock manager as its own specification allows, so   *)
(* what is proved of the manager holds among them, however many tabs.      *)
(*                                                                         *)
(* What is proved of the handlers themselves rests on CInv: of each thread *)
(* it says that the steps left of its handler can be taken from where it   *)
(* is (Follows), what it owns while it waits (CallFits, MessageFits), and  *)
(* that what it found missing still is (DueFits).  "Can be taken" is not   *)
(* defined by recursion over the steps but by a set of states that is      *)
(* closed under them (Runs), so that what is true of a handler follows     *)
(* from what is true of its parts (Keeps, Safe).                           *)
(***************************************************************************)
EXTENDS LockClients, SharedResourcesRefinement, SequenceTheorems

\* A step that is one of the manager's own or leaves the manager alone.
LEMMA LocksUnchanged == UNCHANGED locks => [Next]_vars
BY DEF locks

\* A thread locks, unlocks, relocks, runs on inside Acquire, or is in m_CS.
LEMMA ThreadStepIsLockStep ==
    ASSUME NEW t \in Threads, ThreadStep(t) PROVE [Next]_vars
<1>1. CASE TakeStep(t)
    BY <1>1, Zenon DEF TakeStep, Next, ClientStep
<1>2. CASE DropStep(t)
    BY <1>2, Zenon DEF DropStep, Next, ClientStep
<1>3. CASE SuspendStep(t)
    BY <1>3, Zenon DEF SuspendStep, Next, ClientStep
<1>4. CASE ResumeStep(t)
    BY <1>4, Zenon DEF ResumeStep, Next, ClientStep
<1>5. CASE InsideAcquire(t)
    BY <1>5, Zenon DEF InsideAcquire, Next
<1>6. CASE EnterStep(t) \/ LeaveStep(t)
  <2>1. UNCHANGED locks
    BY <1>6 DEF EnterStep, LeaveStep
  <2> QED
    BY <2>1, LocksUnchanged
<1> QED
    BY <1>1, <1>2, <1>3, <1>4, <1>5, <1>6 DEF ThreadStep

\* What only a tab does, and what only the UI thread does, needs no lock.
LEMMA TabStepIsNoLockStep ==
    ASSUME NEW t \in Tabs, TabStep(t) PROVE UNCHANGED locks
BY DEF TabStep, OnSetSite, OnClearSite, OnEvent, Begin, LookupStep, RemoveStep,
       FindSiteStep, AddSiteStep, SendStep

\* What the UI thread does outside of the lock manager.
LEMMA UIStepIsNoLockStep ==
    Receive \/ InsertStep \/ Reply => UNCHANGED locks
BY DEF Receive, InsertStep, Reply

\* So every step of the clients is one of the manager's or a stutter.
LEMMA StepIsLockStep == [LNext]_allVars => [Next]_vars
<1> SUFFICES ASSUME [LNext]_allVars PROVE [Next]_vars
    OBVIOUS
<1>1. CASE UNCHANGED allVars
  <2>1. UNCHANGED locks
    BY <1>1 DEF allVars
  <2> QED
    BY <2>1, LocksUnchanged
<1>2. CASE \E t \in Threads : ThreadStep(t)
    BY <1>2, ThreadStepIsLockStep
<1>3. CASE \E t \in Tabs : TabStep(t)
    BY <1>3, TabStepIsNoLockStep, LocksUnchanged
<1>4. CASE Receive \/ InsertStep \/ Reply
    BY <1>4, UIStepIsNoLockStep, LocksUnchanged
<1> QED
    BY <1>1, <1>2, <1>3, <1>4 DEF LNext

\* The inductive invariant of the manager holds among its clients.
THEOREM ClientsKeepInvariant == LSpec => []IInv
<1>1. LInit => IInv
    BY InitIInv DEF LInit
<1>2. IInv /\ [LNext]_allVars => IInv'
    BY NextIInv, StepIsLockStep
<1> QED
    BY <1>1, <1>2, PTL DEF LSpec

\* Whatever the handlers of the tabs and of the UI thread do, at whatever point
\* they are interleaved: the manager's counters are their guards ...
THEOREM ClientsAreCounted == LSpec => []OwnershipMatchesGuards
<1>1. IInv => OwnershipMatchesGuards
    BY DEF IInv
<1> QED
    BY <1>1, ClientsKeepInvariant, PTL

\* ... the Enter of Acquire never blocks ("it must proceed !!!") ...
THEOREM ClientsEnterAtOnce == LSpec => []SectionMatchesOwnership
<1>1. IInv => SectionMatchesOwnership
    BY DEF IInv
<1> QED
    BY <1>1, ClientsKeepInvariant, PTL

\* ... those that wait in the order of Module.cpp:29 are not in a circle ...
THEOREM ClientsInOrderRun == LSpec => []OrderPreventsDeadlock
    BY ClientsKeepInvariant, NoCircleInOrder, PTL

\* ... and what the handlers see of the manager are recursive locks, each held by one
\* thread at a time, given up around a message and taken back as deep as they were.
THEOREM ClientsSeeRecursiveLocks == LSpec => ImplementsRecursiveLocks
<1>1. LInit => Init
    BY DEF LInit
<1>2. LSpec => Init /\ [][Next]_vars
    BY <1>1, StepIsLockStep, PTL DEF LSpec
<1> QED
    BY <1>2, ClientsKeepInvariant, InitMaps, NextMaps, PTL
    DEF ImplementsRecursiveLocks, Locks!Spec

----------------------------------------------------------------------------
\* A logic for the steps a thread has left.

\* All the steps there are.
LockSteps == [do : {"take", "drop", "suspend", "resume"}, rid : Resources]
PlainSteps == [do : {"enter", "leave", "remove", "find site", "add site"}]
FamilySteps == [do : {"lookup", "insert"}, family : Families]
SendSteps == [do : {"send"}, message : Messages]
Steps == LockSteps \cup PlainSteps \cup FamilySteps \cup SendSteps

\* What the steps left are about: how deep the thread has each resource, what it
\* gave up, how deep it is in m_CS, the message it handles (the UI thread), and
\* what it found missing and is about to make (see DueFits).
Summaries ==
    [thread : Threads, depth : [Resources -> Nat], saved : [Resources -> Nat],
     inside : Nat, serves : Messages \cup {NoMessage}, due : Messages \cup {NoMessage}]

Nothing == [r \in Resources |-> 0]
InForce(h) == {r \in Resources : h.depth[r] > h.saved[r]}

\* The resources of a tab that the handler of its message locks.
Needs(m) ==
    CASE m \in Families -> {SR_WINDOWMANAGER, SR_BROWSERMANAGER}
      [] m = "WMM_INITSCRIPTSITE" -> {SR_SCRIPTDEBUGGER}
      [] OTHER -> {}

\* What a tab may own while it waits for another resource, and what it may own
\* while it waits for m_CS or for a reply.
KeptWaiting == {SR_SCRIPTMANAGER, SR_SCRIPTINSTANCEMANAGER, SR_WINDOWMANAGER}
GivenUp == {SR_BROWSERMANAGER, SR_SCRIPTDEBUGGER}

\* A tab that may begin: no lock given up, outside of m_CS, nothing due.
Calm(h) ==
    /\ h \in Summaries
    /\ h.thread \in Tabs
    /\ h.saved = Nothing
    /\ h.inside = 0
    /\ h.due = NoMessage
CalmWith(h, held) == Calm(h) /\ InForce(h) = held

InOrder(held, r) == \A q \in held : q = r \/ (q < r /\ q \in KeptWaiting)

\* What a step does to the summary.
After(a, h) ==
    CASE a.do = "take" -> [h EXCEPT !.depth[a.rid] = @ + 1]
      [] a.do = "drop" -> [h EXCEPT !.depth[a.rid] = @ - 1]
      [] a.do = "suspend" -> [h EXCEPT !.saved[a.rid] = h.depth[a.rid]]
      [] a.do = "resume" -> [h EXCEPT !.saved[a.rid] = 0]
      [] a.do = "enter" -> [h EXCEPT !.inside = @ + 1]
      [] a.do \in {"leave", "lookup"} -> [h EXCEPT !.inside = @ - 1]
      [] a.do \in {"insert", "add site"} -> [h EXCEPT !.due = NoMessage]
      [] a.do = "send" /\ a.message \in Families -> [h EXCEPT !.due = NoMessage]
      [] OTHER -> h

\* When a tab may come to a step.
TabOk(a, h) ==
    CASE a.do = "take" -> Calm(h) /\ InOrder(InForce(h), a.rid)
      [] a.do = "drop" -> Calm(h) /\ a.rid \in InForce(h)
      [] a.do = "suspend" ->
            /\ h.inside = 0 /\ h.saved = Nothing /\ a.rid \in InForce(h)
            /\ a.rid = SR_SCRIPTMANAGER => h.due # "WMM_INITSCRIPTSITE"
      [] a.do = "resume" ->
            /\ h.inside = 0 /\ h.depth[a.rid] > 0
            /\ h.saved = [Nothing EXCEPT ![a.rid] = h.depth[a.rid]]
            /\ InOrder(InForce(h), a.rid)
            /\ a.rid = SR_SCRIPTMANAGER => h.due # "WMM_INITSCRIPTSITE"
      [] a.do = "enter" ->
            /\ h.inside = 0
            /\ SR_WINDOWMANAGER \in InForce(h) /\ InForce(h) \cap GivenUp = {}
      [] a.do = "leave" -> h.inside = 1
      [] a.do = "lookup" ->
            h.inside = 1 /\ CalmWith([h EXCEPT !.inside = 0], {SR_WINDOWMANAGER})
      [] a.do = "remove" -> h.due = NoMessage
      [] a.do = "find site" -> CalmWith(h, {SR_SCRIPTMANAGER, SR_SCRIPTDEBUGGER})
      [] a.do = "add site" -> h.due = "WMM_INITSCRIPTSITE"
      [] a.do = "send" ->
            /\ h.due = a.message /\ h.inside = 0
            /\ InForce(h) \cap (Needs(a.message) \cup GivenUp) = {}
      [] OTHER -> FALSE

\* When the UI thread may come to a step.
UIOk(a, h) ==
    CASE a.do = "take" ->
            a.rid \in Needs(h.serves) /\ (h.inside > 0 \/ a.rid = SR_SCRIPTDEBUGGER)
      [] a.do = "drop" -> a.rid \in InForce(h) /\ h.saved = Nothing
      [] a.do = "enter" -> h.inside <= 1
      [] a.do = "leave" -> h.inside >= 1
      [] a.do = "insert" -> h.due = a.family /\ h.serves = a.family
      [] OTHER -> FALSE

Ok(a, h) == IF h.thread = UIThread THEN UIOk(a, h) ELSE TabOk(a, h)

\* Everything is given back when a handler returns.
Resting(h) ==
    h.depth = Nothing /\ h.saved = Nothing /\ h.inside = 0 /\ h.due = NoMessage

\* A set of summaries and steps left that contains what follows of them.
Closed(R) ==
    \A p \in R :
        IF p[2] = <<>> THEN Resting(p[1])
        ELSE Ok(Head(p[2]), p[1]) /\ <<After(Head(p[2]), p[1]), Tail(p[2])>> \in R

\* A thread of summary h comes through all the steps s, and is at rest then.
Runs(h, s) == \E R : Closed(R) /\ <<h, s>> \in R

\* The steps p lead from h to g, whatever is left after them.
Keeps(p, h, g) == \A s \in Seq(Steps) : Runs(g, s) => Runs(h, p \o s)

----------------------------------------------------------------------------
\* A thread with no steps left comes through just when it is at rest.
LEMMA RunsRest ==
    ASSUME NEW h
    PROVE  Runs(h, <<>>) <=> Resting(h)
<1>1. ASSUME Runs(h, <<>>) PROVE Resting(h)
  <2>1. PICK R : Closed(R) /\ <<h, <<>>>> \in R
    BY <1>1 DEF Runs
  <2> QED
    BY <2>1 DEF Closed
<1>2. ASSUME Resting(h) PROVE Runs(h, <<>>)
  <2>1. Closed({<<h, <<>>>>})
    BY <1>2 DEF Closed
  <2> QED
    BY <2>1 DEF Runs
<1> QED
    BY <1>1, <1>2

\* The next step may be taken, and the rest can be taken from where it leads.
LEMMA RunsStep ==
    ASSUME NEW h, NEW s, s # <<>>, Runs(h, s)
    PROVE  Ok(Head(s), h) /\ Runs(After(Head(s), h), Tail(s))
<1>1. PICK R : Closed(R) /\ <<h, s>> \in R
    BY DEF Runs
<1>2. Ok(Head(s), h) /\ <<After(Head(s), h), Tail(s)>> \in R
    BY <1>1 DEF Closed
<1> QED
    BY <1>1, <1>2 DEF Runs

\* The first of the steps <<a>> \o s, and the others.
LEMMA FirstStep ==
    ASSUME NEW a \in Steps, NEW s \in Seq(Steps)
    PROVE  /\ <<a>> \o s \in Seq(Steps) /\ <<a>> \o s # <<>>
           /\ Head(<<a>> \o s) = a /\ Tail(<<a>> \o s) = s
<1> DEFINE t == <<a>> \o s
<1>1. <<a>> \in Seq(Steps) /\ Len(<<a>>) = 1 /\ <<a>>[1] = a
    OBVIOUS
<1>2. /\ t \in Seq(Steps) /\ Len(t) = 1 + Len(s)
      /\ \A i \in 1 .. 1 + Len(s) : t[i] = IF i <= 1 THEN <<a>>[i] ELSE s[i - 1]
    BY <1>1, ConcatProperties
<1>3. Len(s) \in Nat
    BY LenProperties
<1> HIDE DEF t
<1>4. t # <<>> /\ t[1] = a /\ Head(t) = t[1]
    BY <1>1, <1>2, <1>3, EmptySeq
<1>5. /\ Tail(t) \in Seq(Steps) /\ Len(Tail(t)) = Len(s)
      /\ \A i \in 1 .. Len(s) : Tail(t)[i] = t[i + 1]
    BY <1>2, <1>3, <1>4, HeadTailProperties
<1>6. \A i \in 1 .. Len(s) : Tail(t)[i] = s[i]
    BY <1>2, <1>3, <1>5
<1>7. Tail(t) = s
    BY <1>5, <1>6, SeqEqual
<1> QED
    BY <1>2, <1>4, <1>7 DEF t

\* A step that may be taken, put in front of steps that can be taken after it.
LEMMA RunsPush ==
    ASSUME NEW h, NEW a \in Steps, NEW s \in Seq(Steps),
           Ok(a, h), Runs(After(a, h), s)
    PROVE  Runs(h, <<a>> \o s)
<1>1. PICK R : Closed(R) /\ <<After(a, h), s>> \in R
    BY DEF Runs
<1> DEFINE p == <<h, <<a>> \o s>>
           Q == R \cup {p}
<1>2. /\ p[1] = h /\ p[2] # <<>> /\ Head(p[2]) = a /\ Tail(p[2]) = s
    BY FirstStep
<1>3. Closed(Q)
  <2> SUFFICES ASSUME NEW q \in Q
               PROVE  IF q[2] = <<>> THEN Resting(q[1])
                      ELSE /\ Ok(Head(q[2]), q[1])
                           /\ <<After(Head(q[2]), q[1]), Tail(q[2])>> \in Q
    BY DEF Closed
  <2>1. CASE q \in R
    BY <2>1, <1>1 DEF Closed
  <2>2. CASE q = p
    <3> HIDE DEF p
    <3> QED
      BY <2>2, <1>1, <1>2
  <2> QED
    BY <2>1, <2>2
<1>4. <<h, <<a>> \o s>> \in Q
    OBVIOUS
<1> HIDE DEF Q
<1> QED
    BY <1>3, <1>4 DEF Runs

----------------------------------------------------------------------------
\* No steps lead nowhere.
LEMMA KeepsNothing ==
    ASSUME NEW h
    PROVE  Keeps(<<>>, h, h)
BY ConcatEmptySeq DEF Keeps

\* One step leads where After says.
LEMMA KeepsOne ==
    ASSUME NEW h, NEW a \in Steps, Ok(a, h)
    PROVE  Keeps(<<a>>, h, After(a, h))
BY RunsPush DEF Keeps

\* Steps that lead from h to g, and on from g to k.
LEMMA KeepsThen ==
    ASSUME NEW h, NEW g, NEW k, NEW p \in Seq(Steps), NEW q \in Seq(Steps),
           Keeps(p, h, g), Keeps(q, g, k)
    PROVE  Keeps(p \o q, h, k)
<1> SUFFICES ASSUME NEW s \in Seq(Steps), Runs(k, s)
             PROVE  Runs(h, (p \o q) \o s)
    BY DEF Keeps
<1>1. q \o s \in Seq(Steps)
    BY ConcatProperties
<1>2. Runs(g, q \o s)
    BY DEF Keeps
<1>3. Runs(h, p \o (q \o s))
    BY <1>1, <1>2 DEF Keeps
<1>4. (p \o q) \o s = p \o (q \o s)
    BY ConcatAssociative
<1> QED
    BY <1>3, <1>4

\* Steps that lead to a thread at rest are all of its handler.
LEMMA KeepsToRest ==
    ASSUME NEW h, NEW g, NEW p \in Seq(Steps), Keeps(p, h, g), Resting(g)
    PROVE  Runs(h, p)
<1>1. <<>> \in Seq(Steps) /\ Runs(g, <<>>)
    BY RunsRest, EmptySeq
<1>2. Runs(h, p \o <<>>)
    BY <1>1 DEF Keeps
<1> QED
    BY <1>2, ConcatEmptySeq

----------------------------------------------------------------------------
\* The steps, by name.
LEMMA StepsAreSteps ==
    /\ \A r \in Resources :
          Take(r) \in Steps /\ Drop(r) \in Steps /\ Suspend(r) \in Steps /\ Resume(r) \in Steps
    /\ Enter \in Steps /\ Leave \in Steps
    /\ RemoveAll \in Steps /\ FindSite \in Steps /\ AddSite \in Steps
    /\ \A f \in Families : Lookup(f) \in Steps /\ Insert(f) \in Steps
    /\ \A m \in Messages : Send(m) \in Steps
<1>1. ASSUME NEW r \in Resources
      PROVE  /\ {Take(r), Drop(r), Suspend(r), Resume(r)} \subseteq LockSteps
    BY DEF LockSteps, Take, Drop, Suspend, Resume
<1>2. {Enter, Leave, RemoveAll, FindSite, AddSite} \subseteq PlainSteps
    BY DEF PlainSteps, Enter, Leave, RemoveAll, FindSite, AddSite
<1>3. ASSUME NEW f \in Families
      PROVE  {Lookup(f), Insert(f)} \subseteq FamilySteps
    BY DEF FamilySteps, Lookup, Insert
<1>4. ASSUME NEW m \in Messages
      PROVE  Send(m) \in SendSteps
    BY DEF SendSteps, Send
<1> QED
    BY <1>1, <1>2, <1>3, <1>4 DEF Steps

\* The ids the clients use are resources.
LEMMA ResourceIds ==
    /\ {SR_SCRIPTMANAGER, SR_SCRIPTINSTANCEMANAGER, SR_WINDOWMANAGER, SR_BROWSERMANAGER,
        SR_SCRIPTDEBUGGER, SR_LOGGER} \subseteq Resources
    /\ Resources \subseteq Nat
BY ResourceIdsAssumption, BoundsAssumption
   DEF SR_SCRIPTMANAGER, SR_SCRIPTINSTANCEMANAGER, SR_WINDOWMANAGER, SR_BROWSERMANAGER,
       SR_SCRIPTDEBUGGER, SR_LOGGER, Resources

\* What each step does to the summary, by name.
LEMMA AfterNamed ==
    ASSUME NEW h \in Summaries
    PROVE  /\ \A r \in Resources :
                 /\ After(Take(r), h) = [h EXCEPT !.depth[r] = @ + 1]
                 /\ After(Drop(r), h) = [h EXCEPT !.depth[r] = @ - 1]
                 /\ After(Suspend(r), h) = [h EXCEPT !.saved[r] = h.depth[r]]
                 /\ After(Resume(r), h) = [h EXCEPT !.saved[r] = 0]
           /\ After(Enter, h) = [h EXCEPT !.inside = @ + 1]
           /\ After(Leave, h) = [h EXCEPT !.inside = @ - 1]
           /\ After(RemoveAll, h) = h /\ After(FindSite, h) = h
           /\ After(AddSite, h) = [h EXCEPT !.due = NoMessage]
           /\ \A f \in Families :
                 /\ After(Lookup(f), h) = [h EXCEPT !.inside = @ - 1]
                 /\ After(Insert(f), h) = [h EXCEPT !.due = NoMessage]
                 /\ After(Send(f), h) = [h EXCEPT !.due = NoMessage]
           /\ After(Send("WMM_INITSCRIPTSITE"), h) = h
BY DEF After, Take, Drop, Suspend, Resume, Enter, Leave, RemoveAll, FindSite, AddSite,
       Lookup, Insert, Send, Families

\* A guard that is made and dropped leaves what was there.
LEMMA TakenAndDropped ==
    ASSUME NEW h \in Summaries, NEW r \in Resources
    PROVE  LET g == After(Take(r), h) IN
             /\ g \in Summaries
             /\ g.thread = h.thread /\ g.saved = h.saved /\ g.inside = h.inside
             /\ g.serves = h.serves /\ g.due = h.due
             /\ h.saved = Nothing => InForce(g) = InForce(h) \cup {r}
             /\ After(Drop(r), g) = h
<1> DEFINE d == [h.depth EXCEPT ![r] = @ + 1]
           g == [h EXCEPT !.depth = d]
<1>0. After(Take(r), h) = g
    BY AfterNamed
<1>1. /\ h.depth \in [Resources -> Nat] /\ h.saved \in [Resources -> Nat]
      /\ h.thread \in Threads /\ h.inside \in Nat
      /\ h.serves \in Messages \cup {NoMessage} /\ h.due \in Messages \cup {NoMessage}
    BY DEF Summaries
<1>2. /\ d \in [Resources -> Nat]
      /\ \A q \in Resources : d[q] = IF q = r THEN h.depth[q] + 1 ELSE h.depth[q]
      /\ [d EXCEPT ![r] = @ - 1] = h.depth
  <2>1. /\ d \in [Resources -> Nat]
        /\ \A q \in Resources : d[q] = IF q = r THEN h.depth[q] + 1 ELSE h.depth[q]
    BY <1>1
  <2>2. [d EXCEPT ![r] = @ - 1] \in [Resources -> Int]
    BY <2>1
  <2>3. \A q \in Resources : [d EXCEPT ![r] = @ - 1][q] = h.depth[q]
    BY <2>1, <1>1
  <2> QED
    BY <2>1, <2>2, <2>3, <1>1
<1> HIDE DEF d
<1>3. /\ g \in Summaries /\ g.depth = d
      /\ g.thread = h.thread /\ g.saved = h.saved /\ g.inside = h.inside
      /\ g.serves = h.serves /\ g.due = h.due
    BY <1>1, <1>2 DEF Summaries
<1>4. After(Drop(r), g) = h
  <2>1. After(Drop(r), g) = [g EXCEPT !.depth[r] = @ - 1]
    BY <1>3, AfterNamed
  <2>2. [g EXCEPT !.depth[r] = @ - 1] = [g EXCEPT !.depth = h.depth]
    BY <1>2
  <2>3. [g EXCEPT !.depth = h.depth] = h
    BY DEF Summaries
  <2> QED
    BY <2>1, <2>2, <2>3
<1> HIDE DEF g
<1>5. h.saved = Nothing => InForce(g) = InForce(h) \cup {r}
    BY <1>1, <1>2, <1>3 DEF InForce, Nothing
<1> QED
    BY <1>0, <1>3, <1>4, <1>5

\* A block under a CResourceLock leads back to where it began, if its body does.
LEMMA UnderKeeps ==
    ASSUME NEW h \in Summaries, NEW r \in Resources, NEW p \in Seq(Steps),
           h.saved = Nothing, Ok(Take(r), h),
           Keeps(p, After(Take(r), h), After(Take(r), h))
    PROVE  Keeps(Under(r, p), h, h)
<1> DEFINE g == After(Take(r), h)
<1>1. /\ g \in Summaries /\ g.thread = h.thread /\ g.saved = Nothing
      /\ g.inside = h.inside /\ g.due = h.due
      /\ r \in InForce(g) /\ After(Drop(r), g) = h
    BY TakenAndDropped
<1> HIDE DEF g
<1>2. Ok(Drop(r), g)
  <2>1. CASE h.thread = UIThread
    BY <2>1, <1>1 DEF Ok, UIOk, Drop
  <2>2. CASE h.thread # UIThread
    <3>1. Calm(h)
      BY <2>2 DEF Ok, TabOk, Take
    <3> QED
      BY <2>2, <3>1, <1>1 DEF Ok, TabOk, Drop, Calm
  <2> QED
    BY <2>1, <2>2
<1>3. Keeps(<<Take(r)>>, h, g) /\ Keeps(<<Drop(r)>>, g, h)
    BY <1>1, <1>2, KeepsOne, StepsAreSteps DEF g
<1>4. /\ <<Take(r)>> \in Seq(Steps) /\ <<Drop(r)>> \in Seq(Steps)
      /\ <<Take(r)>> \o p \in Seq(Steps)
    BY StepsAreSteps, ConcatProperties
<1>5. Keeps(p, g, g)
    BY DEF g
<1>6. Keeps(<<Take(r)>> \o p, h, g)
    BY <1>3, <1>4, <1>5, KeepsThen
<1>7. Keeps((<<Take(r)>> \o p) \o <<Drop(r)>>, h, h)
    BY <1>3, <1>4, <1>6, KeepsThen
<1> QED
    BY <1>7 DEF Under

\* Entering m_CS changes nothing but the depth in it, and leaving undoes it.
LEMMA EnteredAndLeft ==
    ASSUME NEW k \in Summaries
    PROVE  LET j == After(Enter, k) IN
             /\ j \in Summaries /\ j.inside = k.inside + 1 /\ j.thread = k.thread
             /\ j.depth = k.depth /\ j.saved = k.saved
             /\ j.serves = k.serves /\ j.due = k.due
             /\ [j EXCEPT !.inside = @ - 1] = k
<1> DEFINE j == [k EXCEPT !.inside = @ + 1]
<1>1. After(Enter, k) = j
    BY AfterNamed
<1>2. k.inside \in Nat
    BY DEF Summaries
<1>3. /\ j \in Summaries /\ j.inside = k.inside + 1 /\ j.thread = k.thread
      /\ j.depth = k.depth /\ j.saved = k.saved
      /\ j.serves = k.serves /\ j.due = k.due
    BY <1>2 DEF Summaries
<1>4. [j EXCEPT !.inside = @ - 1] = k
  <2>1. j.inside - 1 = k.inside
    BY <1>2, <1>3
  <2>2. [j EXCEPT !.inside = k.inside] = k
    BY DEF Summaries
  <2> QED
    BY <2>1, <2>2
<1> HIDE DEF j
<1> QED
    BY <1>1, <1>3, <1>4

\* A block under CSGUARD(m_CS) leads from h to k if its body leads from inside h
\* to inside k.
LEMMA SectionKeeps ==
    ASSUME NEW h \in Summaries, NEW k \in Summaries, NEW p \in Seq(Steps),
           Ok(Enter, h), k.inside = h.inside, k.thread = h.thread,
           Keeps(p, After(Enter, h), After(Enter, k))
    PROVE  Keeps(InSection(p), h, k)
<1> DEFINE g == After(Enter, h)
           j == After(Enter, k)
<1>1. /\ j.inside = k.inside + 1 /\ j.thread = k.thread /\ j \in Summaries
      /\ [j EXCEPT !.inside = @ - 1] = k
    BY EnteredAndLeft
<1>2. Ok(Leave, j)
  <2>1. CASE h.thread = UIThread
    BY <2>1, <1>1 DEF Ok, UIOk, Leave, Summaries
  <2>2. CASE h.thread # UIThread
    <3>1. h.inside = 0
      BY <2>2 DEF Ok, TabOk, Enter
    <3>2. j.inside = 1 /\ j.thread # UIThread
      BY <2>2, <3>1, <1>1
    <3> HIDE DEF j
    <3> QED
      BY <3>2 DEF Ok, TabOk, Leave
  <2> QED
    BY <2>1, <2>2
<1>3. After(Leave, j) = k
    BY <1>1, AfterNamed
<1> HIDE DEF g, j
<1>4. Keeps(<<Enter>>, h, g) /\ Keeps(<<Leave>>, j, k)
    BY <1>2, <1>3, KeepsOne, StepsAreSteps DEF g
<1>5. /\ <<Enter>> \in Seq(Steps) /\ <<Leave>> \in Seq(Steps)
      /\ <<Enter>> \o p \in Seq(Steps)
    BY StepsAreSteps, ConcatProperties
<1>6. Keeps(p, g, j)
    BY DEF g, j
<1>7. Keeps(<<Enter>> \o p, h, j)
    BY <1>4, <1>5, <1>6, KeepsThen
<1>8. Keeps((<<Enter>> \o p) \o <<Leave>>, h, k)
    BY <1>4, <1>5, <1>7, KeepsThen
<1> QED
    BY <1>8 DEF InSection

\* What is put around steps makes steps of them.
LEMMA WrappedSteps ==
    ASSUME NEW p \in Seq(Steps)
    PROVE  /\ InSection(p) \in Seq(Steps)
           /\ \A r \in Resources : Under(r, p) \in Seq(Steps) /\ OutsideOf(r, p) \in Seq(Steps)
<1>1. /\ <<Enter>> \in Seq(Steps) /\ <<Leave>> \in Seq(Steps)
      /\ \A r \in Resources :
            /\ <<Take(r)>> \in Seq(Steps) /\ <<Drop(r)>> \in Seq(Steps)
            /\ <<Suspend(r)>> \in Seq(Steps) /\ <<Resume(r)>> \in Seq(Steps)
    BY StepsAreSteps
<1>2. \A q \in Seq(Steps), s \in Seq(Steps) : q \o s \in Seq(Steps)
    BY ConcatProperties
<1>3. InSection(p) \in Seq(Steps)
    BY <1>1, <1>2 DEF InSection
<1>4. ASSUME NEW r \in Resources
      PROVE  Under(r, p) \in Seq(Steps) /\ OutsideOf(r, p) \in Seq(Steps)
    BY <1>1, <1>2 DEF Under, OutsideOf
<1> QED
    BY <1>3, <1>4

\* A CResourceUnlock that gives up r in h and takes it back in k.
LEMMA OutsideKeeps ==
    ASSUME NEW h \in Summaries, NEW k \in Summaries, NEW r \in Resources,
           NEW p \in Seq(Steps),
           Ok(Suspend(r), h), k.saved[r] = 0, Ok(Resume(r), After(Suspend(r), k)),
           Keeps(p, After(Suspend(r), h), After(Suspend(r), k))
    PROVE  Keeps(OutsideOf(r, p), h, k)
<1> DEFINE g == After(Suspend(r), h)
           j == After(Suspend(r), k)
<1>1. After(Resume(r), j) = k
  <2> DEFINE v == [k.saved EXCEPT ![r] = k.depth[r]]
  <2>1. /\ k.depth \in [Resources -> Nat] /\ k.saved \in [Resources -> Nat]
    BY DEF Summaries
  <2>2. v \in [Resources -> Nat] /\ [v EXCEPT ![r] = 0] = k.saved
    BY <2>1
  <2>3. j = [k EXCEPT !.saved = v]
    BY AfterNamed
  <2> HIDE DEF v
  <2>4. j \in Summaries /\ j.saved = v /\ [j EXCEPT !.saved = k.saved] = k
    BY <2>2, <2>3 DEF Summaries
  <2>5. After(Resume(r), j) = [j EXCEPT !.saved[r] = 0]
    BY <2>4, AfterNamed
  <2> HIDE DEF j
  <2> QED
    BY <2>2, <2>4, <2>5
<1> HIDE DEF g, j
<1>4. Keeps(<<Suspend(r)>>, h, g) /\ Keeps(<<Resume(r)>>, j, k)
    BY <1>1, KeepsOne, StepsAreSteps DEF g, j
<1>5. /\ <<Suspend(r)>> \in Seq(Steps) /\ <<Resume(r)>> \in Seq(Steps)
      /\ <<Suspend(r)>> \o p \in Seq(Steps)
    BY StepsAreSteps, ConcatProperties
<1>6. Keeps(p, g, j)
    BY DEF g, j
<1>7. Keeps(<<Suspend(r)>> \o p, h, j)
    BY <1>4, <1>5, <1>6, KeepsThen
<1>8. Keeps((<<Suspend(r)>> \o p) \o <<Resume(r)>>, h, k)
    BY <1>4, <1>5, <1>7, KeepsThen
<1> QED
    BY <1>8 DEF OutsideOf

----------------------------------------------------------------------------
\* What a tab may run while it owns held and nothing else: it gives back all it
\* takes.
Safe(p, held) ==
    p \in Seq(Steps) /\ \A h : CalmWith(h, held) => Keeps(p, h, h)

\* Nothing is safe whatever a tab owns.
LEMMA SafeNothing ==
    ASSUME NEW held
    PROVE  Safe(<<>>, held)
BY KeepsNothing, EmptySeq DEF Safe

\* Safe blocks one after the other.
LEMMA SafeThen ==
    ASSUME NEW held, NEW p, NEW q, Safe(p, held), Safe(q, held)
    PROVE  Safe(p \o q, held)
BY KeepsThen, ConcatProperties DEF Safe

\* A resource above all that is owned may be locked around what is safe with it.
LEMMA SafeUnder ==
    ASSUME NEW held, NEW r \in Resources, NEW p, InOrder(held, r), Safe(p, held \cup {r})
    PROVE  Safe(Under(r, p), held)
<1>1. p \in Seq(Steps) /\ Under(r, p) \in Seq(Steps)
    BY WrappedSteps DEF Safe
<1>2. ASSUME NEW h, CalmWith(h, held)
      PROVE  Keeps(Under(r, p), h, h)
  <2> DEFINE g == After(Take(r), h)
  <2>1. h \in Summaries /\ h.saved = Nothing /\ h.thread # UIThread
    BY <1>2 DEF CalmWith, Calm, Tabs
  <2>2. CalmWith(g, held \cup {r})
    BY <1>2, <2>1, TakenAndDropped DEF CalmWith, Calm
  <2>3. Keeps(p, g, g)
    BY <2>2 DEF Safe
  <2>4. Ok(Take(r), h)
    BY <1>2, <2>1 DEF Ok, TabOk, Take, CalmWith
  <2> HIDE DEF g
  <2> QED
    BY <1>1, <2>1, <2>3, <2>4, UnderKeeps DEF g
<1> QED
    BY <1>1, <1>2 DEF Safe

\* The blocks of the window manager that only enter m_CS, or remove the windows.
LEMMA SafeSection ==
    ASSUME NEW held, SR_WINDOWMANAGER \in held, held \cap GivenUp = {}
    PROVE  Safe(InSection(<<>>), held) /\ Safe(InSection(<<RemoveAll>>), held)
<1>1. <<>> \in Seq(Steps) /\ <<RemoveAll>> \in Seq(Steps)
    BY StepsAreSteps
<1>2. ASSUME NEW h, CalmWith(h, held)
      PROVE  Keeps(InSection(<<>>), h, h) /\ Keeps(InSection(<<RemoveAll>>), h, h)
  <2> DEFINE g == After(Enter, h)
  <2>1. h \in Summaries /\ h.inside = 0 /\ h.due = NoMessage /\ h.thread # UIThread
    BY <1>2 DEF CalmWith, Calm, Tabs
  <2>2. Ok(Enter, h)
    BY <1>2, <2>1 DEF Ok, TabOk, Enter, CalmWith
  <2>3. Keeps(<<>>, g, g)
    BY KeepsNothing
  <2>4. g \in Summaries /\ g.due = NoMessage /\ g.thread # UIThread
    BY <2>1, EnteredAndLeft
  <2> HIDE DEF g
  <2>5. Ok(RemoveAll, g) /\ After(RemoveAll, g) = g
    BY <2>4, AfterNamed DEF Ok, TabOk, RemoveAll
  <2>6. Keeps(<<RemoveAll>>, g, g)
    BY <2>5, KeepsOne, StepsAreSteps
  <2> QED
    BY <1>1, <2>1, <2>2, <2>3, <2>6, SectionKeeps DEF g
<1> QED
    BY <1>1, <1>2, WrappedSteps DEF Safe

\* Get*Window: without a window the steps after it change (CreateWindowKeeps).
LEMMA SafeGetWindow ==
    ASSUME NEW f \in Families
    PROVE  Safe(GetWindow(f), {SR_WINDOWMANAGER})
<1>1. GetWindow(f) \in Seq(Steps) /\ GetWindow(f) = <<Enter>> \o <<Lookup(f)>>
    BY StepsAreSteps DEF GetWindow
<1>2. ASSUME NEW h, CalmWith(h, {SR_WINDOWMANAGER})
      PROVE  Keeps(GetWindow(f), h, h)
  <2> DEFINE g == After(Enter, h)
  <2>1. h \in Summaries /\ h.inside = 0 /\ h.thread # UIThread
    BY <1>2 DEF CalmWith, Calm, Tabs
  <2>2. Ok(Enter, h)
    BY <1>2, <2>1 DEF Ok, TabOk, Enter, CalmWith, GivenUp, SR_WINDOWMANAGER,
                      SR_BROWSERMANAGER, SR_SCRIPTDEBUGGER
  <2>3. /\ g \in Summaries /\ g.thread # UIThread /\ g.inside = 1
        /\ [g EXCEPT !.inside = @ - 1] = h
    BY <2>1, EnteredAndLeft
  <2> HIDE DEF g
  <2>4. [g EXCEPT !.inside = 0] = h
    BY <2>3
  <2>5. Ok(Lookup(f), g) /\ After(Lookup(f), g) = h
    BY <1>2, <2>3, <2>4, AfterNamed DEF Ok, TabOk, Lookup
  <2>6. Keeps(<<Enter>>, h, g) /\ Keeps(<<Lookup(f)>>, g, h)
    BY <2>2, <2>5, KeepsOne, StepsAreSteps DEF g
  <2>7. <<Enter>> \in Seq(Steps) /\ <<Lookup(f)>> \in Seq(Steps)
    BY StepsAreSteps
  <2>8. Keeps(<<Enter>> \o <<Lookup(f)>>, h, h)
    BY <2>6, <2>7, KeepsThen
  <2> QED
    BY <1>1, <2>8
<1> QED
    BY <1>1, <1>2 DEF Safe

\* RegisterScriptInstance, with the debugger and the script manager locked.
LEMMA SafeFindSite == Safe(<<FindSite>>, {SR_SCRIPTMANAGER, SR_SCRIPTDEBUGGER})
<1>1. ASSUME NEW h, CalmWith(h, {SR_SCRIPTMANAGER, SR_SCRIPTDEBUGGER})
      PROVE  Keeps(<<FindSite>>, h, h)
  <2>1. h \in Summaries /\ h.thread # UIThread
    BY <1>1 DEF CalmWith, Calm, Tabs
  <2>2. Ok(FindSite, h) /\ After(FindSite, h) = h
    BY <1>1, <2>1, AfterNamed DEF Ok, TabOk, FindSite
  <2> QED
    BY <2>2, KeepsOne, StepsAreSteps
<1> QED
    BY <1>1, StepsAreSteps DEF Safe

----------------------------------------------------------------------------
\* The handlers of a tab: each takes its locks in order, enters m_CS with the
\* window manager locked, and returns with nothing left.
LEMMA SafeRefresh ==
    ASSUME NEW held, held \subseteq {SR_SCRIPTMANAGER}
    PROVE  Safe(RefreshDOMExplorer, held)
<1> DEFINE both == held \cup {SR_WINDOWMANAGER}
<1>1. /\ SR_WINDOWMANAGER \in both /\ both \cap GivenUp = {}
      /\ InOrder(held, SR_WINDOWMANAGER)
    BY DEF GivenUp, InOrder, KeptWaiting, SR_SCRIPTMANAGER, SR_WINDOWMANAGER,
           SR_BROWSERMANAGER, SR_SCRIPTDEBUGGER
<1>2. Safe(InSection(<<>>), both)
    BY <1>1, SafeSection
<1> QED
    BY <1>1, <1>2, SafeUnder, ResourceIds DEF RefreshDOMExplorer

\* A script may log with the script manager locked, or without.
LEMMA SafeLog ==
    ASSUME NEW held, held \subseteq {SR_SCRIPTMANAGER}
    PROVE  Safe(Log, held)
<1>1. /\ InOrder(held, SR_SCRIPTINSTANCEMANAGER)
      /\ InOrder(held, SR_SCRIPTMANAGER)
      /\ InOrder(held, SR_LOGGER)
    BY DEF InOrder, KeptWaiting, SR_SCRIPTMANAGER, SR_SCRIPTINSTANCEMANAGER, SR_LOGGER
<1>2. /\ Safe(Under(SR_SCRIPTINSTANCEMANAGER, <<>>), held)
      /\ Safe(Under(SR_SCRIPTMANAGER, <<>>), held)
      /\ Safe(Under(SR_LOGGER, <<>>), held)
    BY <1>1, SafeUnder, SafeNothing, ResourceIds
<1>3. Safe(Under(SR_WINDOWMANAGER, InSection(<<>>)), held)
    BY SafeRefresh DEF RefreshDOMExplorer
<1> QED
    BY <1>2, <1>3, SafeThen DEF Log

\* SetSite takes one lock.
LEMMA SafeSetSite == Safe(SetSite, {})
<1>1. InOrder({}, SR_BROWSERMANAGER)
    BY DEF InOrder
<1> QED
    BY <1>1, SafeUnder, SafeNothing, ResourceIds DEF SetSite

\* SetSite(NULL) locks the browser manager above the window manager.
LEMMA SafeClearSite == Safe(ClearSite, {})
<1> DEFINE held == {SR_WINDOWMANAGER}
<1>1. /\ held \cap GivenUp = {} /\ InOrder(held, SR_BROWSERMANAGER)
      /\ InOrder({}, SR_WINDOWMANAGER) /\ {} \cup {SR_WINDOWMANAGER} = held
    BY DEF GivenUp, InOrder, KeptWaiting, SR_WINDOWMANAGER, SR_BROWSERMANAGER,
           SR_SCRIPTDEBUGGER
<1>2. Safe(InSection(<<RemoveAll>>), held)
    BY <1>1, SafeSection
<1>3. Safe(Under(SR_BROWSERMANAGER, <<>>), held)
    BY <1>1, SafeUnder, SafeNothing, ResourceIds
<1>4. Safe(InSection(<<RemoveAll>>) \o Under(SR_BROWSERMANAGER, <<>>), held)
    BY <1>2, <1>3, SafeThen
<1> HIDE DEF held
<1> QED
    BY <1>1, <1>4, SafeUnder, ResourceIds DEF ClearSite

\* InitializeDefaultPanes, before it finds out which windows are missing.
LEMMA SafePanes == Safe(InitializeDefaultPanes, {})
<1> DEFINE held == {SR_WINDOWMANAGER}
<1>1. InOrder({}, SR_WINDOWMANAGER) /\ {} \cup {SR_WINDOWMANAGER} = held
    BY DEF InOrder
<1>2. /\ Safe(GetWindow("EWF_DOMEXPLORER"), held)
      /\ Safe(GetWindow("EWF_CONSOLE"), held)
      /\ Safe(GetWindow("EWF_GENERAL"), held)
    BY SafeGetWindow DEF Families
<1>3. Safe(GetWindow("EWF_DOMEXPLORER") \o GetWindow("EWF_CONSOLE")
              \o GetWindow("EWF_GENERAL"), held)
    BY <1>2, SafeThen
<1> HIDE DEF held
<1> QED
    BY <1>1, <1>3, SafeUnder, ResourceIds DEF InitializeDefaultPanes

\* The injection of scripts, whatever the script does that may be done there.
LEMMA SafeInject ==
    ASSUME NEW script, Safe(script, {SR_SCRIPTMANAGER})
    PROVE  Safe(InjectScripts(script), {})
<1> DEFINE held == {SR_SCRIPTMANAGER}
<1>1. /\ InOrder({}, SR_SCRIPTMANAGER) /\ {} \cup {SR_SCRIPTMANAGER} = held
      /\ InOrder(held, SR_SCRIPTDEBUGGER)
      /\ held \cup {SR_SCRIPTDEBUGGER} = {SR_SCRIPTMANAGER, SR_SCRIPTDEBUGGER}
    BY DEF InOrder, KeptWaiting, SR_SCRIPTMANAGER, SR_SCRIPTDEBUGGER
<1>2. Safe(Under(SR_SCRIPTDEBUGGER, <<>>), held)
    BY <1>1, SafeUnder, SafeNothing, ResourceIds
<1>3. Safe(Under(SR_SCRIPTDEBUGGER, <<FindSite>>), held)
    BY <1>1, SafeUnder, SafeFindSite, ResourceIds
<1>4. Safe(InjectScript(script), held)
    BY <1>2, <1>3, SafeThen DEF InjectScript
<1> HIDE DEF held
<1> QED
    BY <1>1, <1>4, SafeUnder, ResourceIds DEF InjectScripts

\* The removal of scripts takes its three locks in order.
LEMMA SafeRemoveScripts == Safe(RemoveScripts, {})
<1> DEFINE held == {SR_SCRIPTMANAGER}
           both == {SR_SCRIPTMANAGER, SR_SCRIPTINSTANCEMANAGER}
<1>1. /\ InOrder({}, SR_SCRIPTMANAGER) /\ {} \cup {SR_SCRIPTMANAGER} = held
      /\ InOrder(held, SR_SCRIPTDEBUGGER)
      /\ InOrder(held, SR_SCRIPTINSTANCEMANAGER)
      /\ held \cup {SR_SCRIPTINSTANCEMANAGER} = both
      /\ InOrder(both, SR_SCRIPTDEBUGGER)
    BY DEF InOrder, KeptWaiting, SR_SCRIPTMANAGER, SR_SCRIPTINSTANCEMANAGER,
           SR_SCRIPTDEBUGGER
<1>2. Safe(Under(SR_SCRIPTDEBUGGER, <<>>), held) /\ Safe(Under(SR_SCRIPTDEBUGGER, <<>>), both)
    BY <1>1, SafeUnder, SafeNothing, ResourceIds
<1>3. Safe(Under(SR_SCRIPTINSTANCEMANAGER, Under(SR_SCRIPTDEBUGGER, <<>>)), held)
    BY <1>1, <1>2, SafeUnder, ResourceIds
<1>4. Safe(Under(SR_SCRIPTINSTANCEMANAGER, Under(SR_SCRIPTDEBUGGER, <<>>))
              \o Under(SR_SCRIPTDEBUGGER, <<>>), held)
    BY <1>2, <1>3, SafeThen
<1> HIDE DEF held
<1> QED
    BY <1>1, <1>4, SafeUnder, ResourceIds DEF RemoveScripts

\* What IE and the pages call.
Handlers ==
    {SetSite, ClearSite, InitializeDefaultPanes, RefreshDOMExplorer, Log, RemoveScripts,
     InjectScripts(<<>>), InjectScripts(Log)}

\* A tab at rest comes through every handler it may begin.
LEMMA HandlersRun ==
    ASSUME NEW p \in Handlers, NEW h \in Summaries, h.thread \in Tabs, Resting(h)
    PROVE  p \in Seq(Steps) /\ Runs(h, p)
<1>1. Safe(InjectScripts(<<>>), {}) /\ Safe(InjectScripts(Log), {})
    BY SafeInject, SafeNothing, SafeLog
<1>2. Safe(p, {})
    BY <1>1, SafeSetSite, SafeClearSite, SafePanes, SafeRefresh, SafeLog, SafeRemoveScripts
       DEF Handlers
<1>3. CalmWith(h, {})
    BY DEF CalmWith, Calm, Resting, InForce, Nothing
<1> QED
    BY <1>2, <1>3, KeepsToRest DEF Safe

----------------------------------------------------------------------------
\* A lock that is given up is no longer in force.
LEMMA Suspended ==
    ASSUME NEW h \in Summaries, NEW r \in Resources, h.saved = Nothing, r \in InForce(h)
    PROVE  LET g == After(Suspend(r), h) IN
             /\ g \in Summaries
             /\ g.thread = h.thread /\ g.depth = h.depth /\ g.inside = h.inside
             /\ g.serves = h.serves /\ g.due = h.due
             /\ g.saved = [Nothing EXCEPT ![r] = h.depth[r]]
             /\ h.depth[r] > 0
             /\ InForce(g) = InForce(h) \ {r}
<1> DEFINE v == [Nothing EXCEPT ![r] = h.depth[r]]
           g == [h EXCEPT !.saved = v]
<1>1. h.depth \in [Resources -> Nat] /\ Nothing \in [Resources -> Nat]
    BY DEF Summaries, Nothing
<1>2. /\ v \in [Resources -> Nat] /\ v[r] = h.depth[r]
      /\ \A q \in Resources : Nothing[q] = 0 /\ (q # r => v[q] = 0)
    BY <1>1 DEF Nothing
<1>3. After(Suspend(r), h) = g
  <2>1. After(Suspend(r), h) = [h EXCEPT !.saved[r] = h.depth[r]]
    BY AfterNamed
  <2> QED
    BY <2>1
<1> HIDE DEF v
<1>4. /\ g \in Summaries
      /\ g.thread = h.thread /\ g.depth = h.depth /\ g.inside = h.inside
      /\ g.serves = h.serves /\ g.due = h.due /\ g.saved = v
    BY <1>2 DEF Summaries
<1> HIDE DEF g
<1>5. InForce(g) = InForce(h) \ {r} /\ h.depth[r] > 0
    BY <1>1, <1>2, <1>4 DEF InForce
<1> QED
    BY <1>3, <1>4, <1>5 DEF v

\* Giving up a resource and noting what is due are independent.
LEMMA SuspendedDue ==
    ASSUME NEW h \in Summaries, NEW r \in Resources, NEW m \in Messages,
           h.due = NoMessage
    PROVE  [After(Suspend(r), [h EXCEPT !.due = m]) EXCEPT !.due = NoMessage]
              = After(Suspend(r), h)
<1> DEFINE v == [h.saved EXCEPT ![r] = h.depth[r]]
           g == [h EXCEPT !.due = m]
<1>1. g \in Summaries /\ g.depth = h.depth /\ g.saved = h.saved
    BY DEF Summaries
<1>2. After(Suspend(r), g) = [g EXCEPT !.saved[r] = g.depth[r]]
    BY <1>1, AfterNamed
<1>3. After(Suspend(r), g) = [g EXCEPT !.saved = v]
    BY <1>1, <1>2
<1>4. After(Suspend(r), h) = [h EXCEPT !.saved = v]
    BY AfterNamed
<1>5. [[g EXCEPT !.saved = v] EXCEPT !.due = NoMessage] = [h EXCEPT !.saved = v]
  <2> HIDE DEF v
  <2> QED
    BY DEF Summaries
<1> QED
    BY <1>3, <1>4, <1>5

\* A tab that found no window, and has to make one.
LEMMA CreateWindowKeeps ==
    ASSUME NEW h, NEW f \in Families, CalmWith(h, {SR_WINDOWMANAGER})
    PROVE  /\ CreateWindow(f) \in Seq(Steps)
           /\ Keeps(CreateWindow(f), [h EXCEPT !.due = f], h)
<1> DEFINE g == [h EXCEPT !.due = f]
           r == SR_WINDOWMANAGER
           k == After(Suspend(r), g)
           j == After(Suspend(r), h)
<1>1. /\ h \in Summaries /\ h.thread \in Threads \ {UIThread} /\ h.inside = 0
      /\ h.saved = Nothing /\ h.due = NoMessage /\ InForce(h) = {r}
    BY DEF CalmWith, Calm, Tabs
<1>2. f \in Messages /\ f # "WMM_INITSCRIPTSITE" /\ r \in Resources
    BY ResourceIds DEF Messages, Families
<1>3. /\ g \in Summaries /\ g.thread = h.thread /\ g.inside = 0 /\ g.saved = Nothing
      /\ g.due = f /\ InForce(g) = {r}
    BY <1>1, <1>2 DEF Summaries, InForce
<1>4. Keeps(InSection(<<>>), g, g)
  <2>1. Ok(Enter, g)
    BY <1>1, <1>3 DEF Ok, TabOk, Enter, GivenUp, SR_WINDOWMANAGER, SR_BROWSERMANAGER,
                      SR_SCRIPTDEBUGGER
  <2> HIDE DEF g
  <2> QED
    BY <1>3, <2>1, KeepsNothing, SectionKeeps, EmptySeq
<1>5. Ok(Suspend(r), g)
    BY <1>1, <1>3, <1>2 DEF Ok, TabOk, Suspend
<1>6. /\ k \in Summaries /\ k.thread = h.thread /\ k.inside = 0 /\ k.due = f
      /\ InForce(k) = {}
  <2>1. r \in InForce(g)
    BY <1>3
  <2> HIDE DEF g
  <2>2. /\ k \in Summaries /\ k.thread = g.thread /\ k.inside = g.inside
        /\ k.due = g.due /\ InForce(k) = InForce(g) \ {r}
    BY <1>2, <1>3, <2>1, Suspended
  <2> HIDE DEF k
  <2> QED
    BY <1>3, <2>2
<1>7. /\ j \in Summaries /\ j.thread = h.thread /\ j.inside = 0 /\ j.due = NoMessage
      /\ InForce(j) = {} /\ j.depth = h.depth /\ h.depth[r] > 0
      /\ j.saved = [Nothing EXCEPT ![r] = h.depth[r]]
      /\ [k EXCEPT !.due = NoMessage] = j
    BY <1>1, <1>2, Suspended, SuspendedDue
<1> HIDE DEF j, k, g
<1>8. Ok(Send(f), k) /\ After(Send(f), k) = j
    BY <1>1, <1>6, <1>7, AfterNamed DEF Ok, TabOk, Send
<1>9. Ok(Resume(r), j)
  <2>1. InOrder({}, r)
    BY DEF InOrder
  <2>2. j.saved = [Nothing EXCEPT ![r] = j.depth[r]] /\ j.depth[r] > 0 /\ j.thread # UIThread
    BY <1>1, <1>7
  <2> QED
    BY <1>7, <2>1, <2>2 DEF Ok, TabOk, Resume, NoMessage
<1>10. Keeps(<<Send(f)>>, k, j) /\ <<Send(f)>> \in Seq(Steps)
    BY <1>2, <1>8, KeepsOne, StepsAreSteps
<1>11. h.saved[r] = 0
    BY <1>1, <1>2 DEF Nothing
<1>12. Keeps(OutsideOf(r, <<Send(f)>>), g, h)
    BY <1>1, <1>2, <1>3, <1>5, <1>9, <1>10, <1>11, OutsideKeeps DEF j, k
<1>13. /\ InSection(<<>>) \in Seq(Steps) /\ OutsideOf(r, <<Send(f)>>) \in Seq(Steps)
    BY <1>2, <1>10, WrappedSteps, EmptySeq
<1> QED
    BY <1>4, <1>12, <1>13, KeepsThen, ConcatProperties DEF CreateWindow, g

\* A tab that found no site, and has to make one.
LEMMA CreateSiteKeeps ==
    ASSUME NEW h, CalmWith(h, {SR_SCRIPTMANAGER, SR_SCRIPTDEBUGGER})
    PROVE  /\ CreateSite \in Seq(Steps)
           /\ Keeps(CreateSite, [h EXCEPT !.due = "WMM_INITSCRIPTSITE"], h)
<1> DEFINE m == "WMM_INITSCRIPTSITE"
           g == [h EXCEPT !.due = m]
           r == SR_SCRIPTDEBUGGER
           k == After(Suspend(r), g)
<1>1. /\ h \in Summaries /\ h.thread \in Threads \ {UIThread} /\ h.inside = 0
      /\ h.saved = Nothing /\ h.due = NoMessage
      /\ InForce(h) = {SR_SCRIPTMANAGER, r}
    BY DEF CalmWith, Calm, Tabs
<1>2. m \in Messages /\ m \notin Families /\ r \in Resources /\ r # SR_SCRIPTMANAGER
    BY ResourceIds DEF Messages, Families, SR_SCRIPTMANAGER, SR_SCRIPTDEBUGGER
<1>3. /\ g \in Summaries /\ g.thread = h.thread /\ g.inside = 0 /\ g.saved = Nothing
      /\ g.due = m /\ InForce(g) = {SR_SCRIPTMANAGER, r}
      /\ [g EXCEPT !.due = NoMessage] = h
    BY <1>1, <1>2 DEF Summaries, InForce
<1> HIDE DEF g
<1>4. Ok(Suspend(r), g)
    BY <1>1, <1>2, <1>3 DEF Ok, TabOk, Suspend
<1>5. /\ k \in Summaries /\ k.thread = h.thread /\ k.inside = 0 /\ k.due = m
      /\ InForce(k) = {SR_SCRIPTMANAGER} /\ k.depth = g.depth /\ g.depth[r] > 0
      /\ k.saved = [Nothing EXCEPT ![r] = g.depth[r]]
    BY <1>2, <1>3, Suspended
<1> HIDE DEF k
<1>6. Needs(m) = {r} /\ {SR_SCRIPTMANAGER} \cap (Needs(m) \cup GivenUp) = {}
    BY <1>2 DEF Needs, GivenUp, SR_SCRIPTMANAGER, SR_SCRIPTDEBUGGER, SR_BROWSERMANAGER
<1>7. Ok(Send(m), k) /\ After(Send(m), k) = k
    BY <1>1, <1>5, <1>6, AfterNamed DEF Ok, TabOk, Send
<1>8. Ok(Resume(r), k)
  <2>1. InOrder({SR_SCRIPTMANAGER}, r)
    BY DEF InOrder, KeptWaiting, SR_SCRIPTMANAGER, SR_SCRIPTDEBUGGER
  <2> QED
    BY <1>1, <1>2, <1>5, <2>1 DEF Ok, TabOk, Resume
<1>9. Ok(AddSite, g) /\ After(AddSite, g) = h
    BY <1>1, <1>3, AfterNamed DEF Ok, TabOk, AddSite
<1>10. /\ Keeps(<<Send(m)>>, k, k) /\ <<Send(m)>> \in Seq(Steps)
       /\ Keeps(<<AddSite>>, g, h) /\ <<AddSite>> \in Seq(Steps)
    BY <1>2, <1>7, <1>9, KeepsOne, StepsAreSteps
<1>11. g.saved[r] = 0
    BY <1>2, <1>3 DEF Nothing
<1>12. Keeps(OutsideOf(r, <<Send(m)>>), g, g) /\ OutsideOf(r, <<Send(m)>>) \in Seq(Steps)
    BY <1>2, <1>3, <1>4, <1>8, <1>10, <1>11, OutsideKeeps, WrappedSteps DEF k
<1> QED
    BY <1>10, <1>12, KeepsThen, ConcatProperties DEF CreateSite, g

----------------------------------------------------------------------------
\* The handlers of the UI thread.
LEMMA ServicesRun ==
    ASSUME NEW m \in Messages, NEW h \in Summaries, h.thread = UIThread,
           h.depth = Nothing, h.saved = Nothing, h.inside = 0, h.serves = m,
           h.due = IF m \in Families THEN m ELSE NoMessage
    PROVE  UIThreadProc(m) \in Seq(Steps) /\ Runs(h, UIThreadProc(m))
<1>1. CASE m \in Families
  <2> DEFINE k == [h EXCEPT !.due = NoMessage]
             g == After(Enter, h)
             j == After(Enter, k)
  <2>1. /\ k \in Summaries /\ k.thread = UIThread /\ k.saved = Nothing /\ k.inside = 0
        /\ k.due = NoMessage /\ k.serves = m /\ Resting(k)
    BY DEF Summaries, Resting
  <2>2. Ok(Enter, h)
    BY DEF Ok, UIOk, Enter
  <2>3. /\ g \in Summaries /\ g.thread = UIThread /\ g.due = m /\ g.serves = m
        /\ [g EXCEPT !.due = NoMessage] = j
    <3>1. g = [h EXCEPT !.inside = @ + 1] /\ j = [k EXCEPT !.inside = @ + 1]
      BY <2>1, AfterNamed
    <3>2. g.due = h.due /\ g.serves = h.serves /\ g.thread = h.thread /\ g \in Summaries
      BY EnteredAndLeft
    <3> QED
      BY <1>1, <3>1, <3>2 DEF Summaries
  <2>4. /\ j \in Summaries /\ j.thread = UIThread /\ j.saved = Nothing /\ j.inside = 1
        /\ j.due = NoMessage /\ j.serves = m
    <3> HIDE DEF k
    <3> QED
      BY <2>1, EnteredAndLeft
  <2> HIDE DEF g, k, j
  <2>5. Keeps(<<Insert(m)>>, g, j) /\ <<Insert(m)>> \in Seq(Steps)
    <3>1. Ok(Insert(m), g)
      BY <2>3 DEF Ok, UIOk, Insert
    <3> QED
      BY <1>1, <2>3, <3>1, KeepsOne, StepsAreSteps, AfterNamed
  <2>6. CASE m = "EWF_DOMEXPLORER"
    <3>1. RequestDOM \in Seq(Steps) /\ Keeps(RequestDOM, j, j)
      <4> DEFINE i == After(Take(SR_BROWSERMANAGER), j)
                 l == After(Take(SR_WINDOWMANAGER), i)
      <4>1. /\ i \in Summaries /\ i.thread = UIThread /\ i.saved = Nothing
            /\ i.inside = 1 /\ i.serves = m
        BY <2>4, TakenAndDropped, ResourceIds
      <4> HIDE DEF i
      <4>2. l \in Summaries /\ l.thread = UIThread /\ l.inside = 1
        BY <4>1, TakenAndDropped, ResourceIds
      <4>3. Ok(Take(SR_BROWSERMANAGER), j) /\ Ok(Take(SR_WINDOWMANAGER), i)
        <5>1. Needs(m) = {SR_WINDOWMANAGER, SR_BROWSERMANAGER}
          BY <1>1 DEF Needs, Families
        <5>2. Ok(Take(SR_BROWSERMANAGER), j)
          BY <2>4, <5>1 DEF Ok, UIOk, Take
        <5>3. Ok(Take(SR_WINDOWMANAGER), i)
          BY <4>1, <5>1 DEF Ok, UIOk, Take
        <5> QED
          BY <5>2, <5>3
      <4> HIDE DEF l
      <4>4. Keeps(InSection(<<>>), l, l) /\ InSection(<<>>) \in Seq(Steps)
        <5>1. Ok(Enter, l)
          BY <4>2 DEF Ok, UIOk, Enter
        <5> QED
          BY <4>2, <5>1, KeepsNothing, SectionKeeps, EmptySeq, WrappedSteps
      <4>5. Keeps(RefreshDOMExplorer, i, i) /\ RefreshDOMExplorer \in Seq(Steps)
        BY <4>1, <4>3, <4>4, UnderKeeps, WrappedSteps, ResourceIds
           DEF RefreshDOMExplorer, l
      <4> QED
        BY <2>4, <4>3, <4>5, UnderKeeps, WrappedSteps, ResourceIds
           DEF RequestDOM, i
    <3>2. /\ Keeps(<<Insert(m)>> \o RequestDOM, g, j)
          /\ <<Insert(m)>> \o RequestDOM \in Seq(Steps)
      BY <2>5, <3>1, KeepsThen, ConcatProperties
    <3>3. /\ Keeps(InSection(<<Insert(m)>> \o RequestDOM), h, k)
          /\ InSection(<<Insert(m)>> \o RequestDOM) \in Seq(Steps)
      BY <2>1, <2>2, <3>2, SectionKeeps, WrappedSteps DEF g, j
    <3> QED
      BY <2>1, <2>6, <3>3, KeepsToRest DEF UIThreadProc
  <2>7. CASE m # "EWF_DOMEXPLORER"
    <3>1. /\ Keeps(InSection(<<Insert(m)>>), h, k)
          /\ InSection(<<Insert(m)>>) \in Seq(Steps)
      BY <2>1, <2>2, <2>5, SectionKeeps, WrappedSteps DEF g, j
    <3>2. UIThreadProc(m) = InSection(<<Insert(m)>>)
      BY <1>1, <2>7 DEF UIThreadProc, Families
    <3> QED
      BY <2>1, <3>1, <3>2, KeepsToRest
  <2> QED
    BY <2>6, <2>7
<1>2. CASE m \notin Families
  <2>1. m = "WMM_INITSCRIPTSITE" /\ UIThreadProc(m) = Under(SR_SCRIPTDEBUGGER, <<>>)
    BY <1>2 DEF Messages, UIThreadProc
  <2>2. Ok(Take(SR_SCRIPTDEBUGGER), h)
    BY <1>2, <2>1 DEF Ok, UIOk, Take, Needs
  <2>3. /\ Under(SR_SCRIPTDEBUGGER, <<>>) \in Seq(Steps)
        /\ Keeps(Under(SR_SCRIPTDEBUGGER, <<>>), h, h)
    BY <2>2, KeepsNothing, UnderKeeps, WrappedSteps, ResourceIds, EmptySeq
  <2>4. Resting(h)
    BY <1>2 DEF Resting
  <2> QED
    BY <2>1, <2>3, <2>4, KeepsToRest
<1> QED
    BY <1>1, <1>2

----------------------------------------------------------------------------
\* The inductive invariant of the clients.

\* How deep t is in m_CS, and the message it handles.
Inside(t) == IF section.thread = t THEN section.count ELSE 0
Serves(t) == IF t = UIThread /\ serving # NoThread THEN message[serving] ELSE NoMessage

\* What a thread knows at this moment, with what is due to it.
Summary(t, due) ==
    [thread |-> t, depth |-> depth[t], saved |-> saved[t], inside |-> Inside(t),
     serves |-> Serves(t), due |-> due]
Kept(t) == {r \in Resources : depth[t][r] > saved[t][r]}

\* What a tab found missing is missing until it has asked for it (a window) or
\* made it (a site); a window asked for, until the UI thread has made it.
DueFits(t, due) ==
    IF t = UIThread
    THEN due \in Families =>
            serving \in Tabs /\ message[serving] = due /\ windows[serving][due] = 0
    ELSE /\ due \in Families => windows[t][due] = 0
         /\ due = "WMM_INITSCRIPTSITE" => sites = 0 /\ Owns(t, SR_SCRIPTMANAGER)
         /\ message[t] \in Families => due = NoMessage

\* The steps left can be taken from where the thread is.
Follows(t) ==
    \E due \in Messages \cup {NoMessage} :
        DueFits(t, due) /\ Runs(Summary(t, due), todo[t])

\* What a thread inside Acquire asks for, and what it has meanwhile.
CallFits(t) ==
    ~Idle(t) =>
        IF t = UIThread
        THEN /\ call[t].rid \in Needs(Serves(t))
             /\ Inside(t) > 0 \/ call[t].rid = SR_SCRIPTDEBUGGER
        ELSE Inside(t) = 0 /\ InOrder(Kept(t), call[t].rid)

\* What a tab has while it waits for a reply.
MessageFits(t) ==
    message[t] # NoMessage =>
        /\ t # UIThread
        /\ Inside(t) = 0
        /\ Kept(t) \cap (Needs(message[t]) \cup GivenUp) = {}
        /\ message[t] \in Families /\ serving # t => windows[t][message[t]] = 0

ThreadFits(t) == Follows(t) /\ CallFits(t) /\ MessageFits(t)

\* A thread that hibernates for a resource does not own it.
AsleepOwnsNot == \A t \in Threads, r \in Resources : WaitsFor(t, r) => ~Owns(t, r)

ServedWaits == serving # NoThread => message[serving] # NoMessage

Globals ==
    /\ LTypeOK
    /\ todo \in [Threads -> Seq(Steps)]
    /\ ServedWaits
    /\ SectionUnderManager
    /\ OnePanePerFamily
    /\ OneSitePerScript

CInv ==
    /\ IInv
    /\ AsleepOwnsNot
    /\ Globals
    /\ \A t \in Threads : ThreadFits(t)

----------------------------------------------------------------------------
\* Owners are the threads with a guard in force whose Acquire has returned.
OwnersHaveGuards ==
    \A t \in Threads, r \in Resources :
        Owns(t, r) <=> depth[t][r] > saved[t][r] + Outstanding(t, r)

\* The guards in force, less what Acquire still owes, say who owns what.
LEMMA GuardsOfOwners == IInv => OwnersHaveGuards
<1> SUFFICES ASSUME IInv, NEW t \in Threads, NEW r \in Resources
             PROVE  Owns(t, r) <=> depth[t][r] > saved[t][r] + Outstanding(t, r)
    BY DEF OwnersHaveGuards
<1>1. TypeOK /\ Agree(t, r) /\ t # NoThread
    BY ThreadsAssumption DEF IInv, OwnershipMatchesGuards, Agree, CountOf
<1>2. Owns(t, r) <=> CountOf(t, r) # 0
    BY <1>1 DEF IInv, CountedWhenOwned, Owns, CountOf
<1> QED
    BY <1>1, <1>2, Bounded, BoundsAssumption DEF Agree

\* A thread still owns what it owned, if its guards are the same and it has not
\* asked for more.
LEMMA StaysOwner ==
    ASSUME IInv, IInv', NEW t \in Threads, NEW r \in Resources, Owns(t, r),
           depth'[t][r] = depth[t][r], saved'[t][r] = saved[t][r],
           Outstanding(t, r)' <= Outstanding(t, r)
    PROVE  Owns(t, r)'
<1>1. OwnersHaveGuards'
    BY GuardsOfOwners, PTL
<1>2. /\ Owns(t, r) <=> depth[t][r] > saved[t][r] + Outstanding(t, r)
      /\ Owns(t, r)' <=> depth'[t][r] > saved'[t][r] + Outstanding(t, r)'
    BY <1>1, GuardsOfOwners DEF OwnersHaveGuards
<1>3. /\ depth[t][r] \in Nat /\ saved[t][r] \in Nat /\ Outstanding(t, r) \in Nat
      /\ Outstanding(t, r)' \in Nat
  <2>1. Outstanding(t, r)' \in 0 .. MaxDepth
    <3>1. TypeOK'
      BY DEF IInv
    <3>2. call'[t] \in Calls \cup {NoCall}
      BY <3>1 DEF TypeOK
    <3> QED
      BY <3>2, BoundsAssumption DEF Outstanding, Calls, NoCall
  <2> QED
    BY <2>1, Bounded, BoundsAssumption DEF IInv
<1> QED
    BY <1>2, <1>3

\* The summary of a thread is one, and its guards in force are those kept.
LEMMA SummaryType ==
    ASSUME IInv, LTypeOK, NEW t \in Threads, NEW due \in Messages \cup {NoMessage}
    PROVE  /\ Summary(t, due) \in Summaries
           /\ InForce(Summary(t, due)) = Kept(t)
<1>1. depth[t] \in [Resources -> Nat] /\ saved[t] \in [Resources -> Nat]
    BY BoundsAssumption DEF IInv, TypeOK
<1>2. Inside(t) \in Nat
    BY ThreadsAssumption DEF LTypeOK, Inside, Unowned
<1>3. Serves(t) \in Messages \cup {NoMessage}
    BY DEF LTypeOK, Serves, Tabs
<1> QED
    BY <1>1, <1>2, <1>3 DEF Summary, Summaries, InForce, Kept

\* What another thread's step may do to what t relies on.
Untouched(t) ==
    /\ depth'[t] = depth[t] /\ saved'[t] = saved[t] /\ call'[t] = call[t]
    /\ todo'[t] = todo[t] /\ message'[t] = message[t]
    /\ Inside(t)' = Inside(t) /\ Serves(t)' = Serves(t)
    /\ t = UIThread /\ serving # NoThread =>
          /\ serving' = serving /\ message'[serving] = message[serving]
          /\ \A f \in Families : windows[serving][f] = 0 => windows'[serving][f] = 0
    /\ t # UIThread =>
          /\ serving = t /\ message[t] # NoMessage => serving' = t
          /\ \A f \in Families : windows[t][f] = 0 =>
                \/ windows'[t][f] = 0
                \/ message[t] \in Families /\ serving = t
    /\ Owns(t, SR_SCRIPTMANAGER) /\ sites = 0 => sites' = 0

\* What another thread's step leaves to t is enough for t.
LEMMA UntouchedFits ==
    ASSUME IInv, IInv', NEW t \in Threads, Untouched(t), ThreadFits(t)
    PROVE  ThreadFits(t)'
<1>1. PICK due \in Messages \cup {NoMessage} :
          DueFits(t, due) /\ Runs(Summary(t, due), todo[t])
    BY DEF ThreadFits, Follows
<1>2. Owns(t, SR_SCRIPTMANAGER) => Owns(t, SR_SCRIPTMANAGER)'
  <2>1. SR_SCRIPTMANAGER \in Resources
    BY ResourceIds
  <2>2. Outstanding(t, SR_SCRIPTMANAGER)' = Outstanding(t, SR_SCRIPTMANAGER)
    BY DEF Untouched, Outstanding
  <2>3. Outstanding(t, SR_SCRIPTMANAGER) \in Nat
    BY <2>1, Bounded, BoundsAssumption DEF IInv
  <2> QED
    BY <2>1, <2>2, <2>3, StaysOwner DEF Untouched
<1>3. DueFits(t, due)'
  <2>1. CASE t = UIThread
    <3>1. serving \in Tabs => serving # NoThread
      BY ThreadsAssumption DEF Tabs
    <3> QED
      BY <1>1, <2>1, <3>1 DEF DueFits, Untouched
  <2>2. CASE t # UIThread
    <3>1. NoMessage \notin Families
      BY DEF NoMessage, Families
    <3> QED
      BY <1>1, <1>2, <2>2, <3>1 DEF DueFits, Untouched
  <2> QED
    BY <2>1, <2>2
<1>4. Summary(t, due)' = Summary(t, due) /\ todo'[t] = todo[t]
    BY DEF Summary, Untouched
<1>5. Follows(t)'
    BY <1>1, <1>3, <1>4 DEF Follows
<1>6. Kept(t)' = Kept(t) /\ Idle(t)' = Idle(t)
    BY DEF Kept, Idle, Untouched
<1>7. CallFits(t)'
    BY <1>6 DEF CallFits, ThreadFits, Untouched
<1>8. MessageFits(t)'
    BY <1>6 DEF MessageFits, ThreadFits, Untouched
<1> QED
    BY <1>5, <1>7, <1>8 DEF ThreadFits

----------------------------------------------------------------------------
\* The steps that lock, unlock, or run on inside Acquire.
LockStep(t) ==
    TakeStep(t) \/ DropStep(t) \/ SuspendStep(t) \/ ResumeStep(t) \/ InsideAcquire(t)

\* The steps of the lock manager change nothing of the traffic.
LEMMA LockStepFrame ==
    ASSUME NEW t, LockStep(t)
    PROVE  /\ section' = section /\ message' = message /\ serving' = serving
           /\ sited' = sited /\ windows' = windows /\ sites' = sites
           /\ todo' = todo \/ todo' = [todo EXCEPT ![t] = Tail(@)]
BY DEF LockStep, TakeStep, DropStep, SuspendStep, ResumeStep, InsideAcquire, traffic, Advance

\* The manager changes nothing of a thread but the one that calls it.
LEMMA OtherGuards ==
    ASSUME TypeOK, NEW t \in Threads, NEW u \in Threads, u # t, LockStep(t)
    PROVE  depth'[u] = depth[u] /\ saved'[u] = saved[u] /\ call'[u] = call[u]
<1> USE DEF TypeOK
<1>1. CASE TakeStep(t)
    BY <1>1 DEF TakeStep, Lock
<1>2. CASE DropStep(t)
    BY <1>2 DEF DropStep, ReleaseNested, ReleaseLast
<1>3. CASE SuspendStep(t)
    BY <1>3 DEF SuspendStep, ReleaseAll
<1>4. CASE ResumeStep(t)
    BY <1>4 DEF ResumeStep, Relock
<1>5. CASE InsideAcquire(t)
  <2>1. /\ UNCHANGED <<depth, saved>>
        /\ \/ AcquireReturns(t)
           \/ \E r \in Resources :
                call' = [call EXCEPT ![t] = [rid |-> r, left |-> @.left, asleep |-> TRUE]]
           \/ UNCHANGED call
    BY <1>5 DEF InsideAcquire, AcquireStep, AcquireFree, AcquireOwned, Hibernate, Wake,
                WakeAndOwn, WakeAndStarve, manager
  <2> QED
    BY <2>1 DEF AcquireReturns
<1> QED
    BY <1>1, <1>2, <1>3, <1>4, <1>5 DEF LockStep

\* So they leave the other threads what they rely on.
LEMMA LockStepUntouched ==
    ASSUME CInv, NEW t \in Threads, NEW u \in Threads, u # t, LockStep(t)
    PROVE  Untouched(u)
<1>1. depth'[u] = depth[u] /\ saved'[u] = saved[u] /\ call'[u] = call[u]
    BY OtherGuards DEF CInv, Globals, IInv
<1>2. todo'[u] = todo[u]
    BY LockStepFrame DEF CInv, Globals
<1> QED
    BY <1>1, <1>2, LockStepFrame DEF Untouched, Inside, Serves

\* A thread that has taken its next step goes on with the rest.
LEMMA Advanced ==
    ASSUME CInv, NEW t \in Threads, todo[t] # <<>>,
           NEW due \in Messages \cup {NoMessage}, Runs(Summary(t, due), todo[t])
    PROVE  /\ Ok(Head(todo[t]), Summary(t, due))
           /\ Head(todo[t]) \in Steps /\ Tail(todo[t]) \in Seq(Steps)
           /\ \A late \in Messages \cup {NoMessage} :
                 /\ todo'[t] = Tail(todo[t])
                 /\ Summary(t, late)' = After(Head(todo[t]), Summary(t, due))
                 /\ DueFits(t, late)'
                 => Follows(t)'
<1>1. /\ Ok(Head(todo[t]), Summary(t, due))
      /\ Runs(After(Head(todo[t]), Summary(t, due)), Tail(todo[t]))
    BY RunsStep
<1>2. Head(todo[t]) \in Steps /\ Tail(todo[t]) \in Seq(Steps)
    BY HeadTailProperties DEF CInv, Globals
<1> QED
    BY <1>1, <1>2 DEF Follows

\* A CResourceLock: the thread asks in order and goes on inside Acquire.
LEMMA TakeFits ==
    ASSUME CInv, NEW t \in Threads, TakeStep(t)
    PROVE  ThreadFits(t)'
<1>1. PICK r \in Resources : DoingWith(t, "take", r) /\ Lock(t, r)
    BY DEF TakeStep
<1>2. PICK due \in Messages \cup {NoMessage} :
          DueFits(t, due) /\ Runs(Summary(t, due), todo[t])
    BY DEF CInv, Globals, ThreadFits, Follows
<1> DEFINE a == Head(todo[t])
           h == Summary(t, due)
<1>3. /\ todo[t] # <<>> /\ a.do = "take" /\ a.rid = r /\ message[t] = NoMessage
    BY <1>1 DEF DoingWith, Doing, Ready
<1>4. todo'[t] = Tail(todo[t])
    BY DEF TakeStep, Advance, CInv, Globals
<1>5. /\ section' = section /\ message' = message /\ serving' = serving
      /\ windows' = windows /\ sites' = sites
    BY DEF TakeStep
<1>6. /\ depth'[t] = [depth[t] EXCEPT ![r] = @ + 1] /\ saved'[t] = saved[t]
      /\ call'[t].rid = r
    BY <1>1 DEF Lock, CInv, IInv, TypeOK
<1>7. Ok(a, h)
    BY <1>2, <1>3, Advanced
<1>8. Summary(t, due)' = After(a, h)
  <2>1. After(a, h) = [h EXCEPT !.depth[r] = @ + 1]
    BY <1>3 DEF After
  <2>2. Inside(t)' = Inside(t) /\ Serves(t)' = Serves(t)
    BY <1>5 DEF Inside, Serves
  <2> QED
    BY <1>6, <2>1, <2>2 DEF Summary
<1>9. t # UIThread => Calm(h) /\ InOrder(Kept(t), r)
    BY <1>3, <1>7, SummaryType DEF CInv, Globals, Ok, TabOk, Summary
<1>10. DueFits(t, due)'
  <2>1. NoMessage \notin Families /\ NoMessage # "WMM_INITSCRIPTSITE"
    BY DEF NoMessage, Families
  <2>2. t # UIThread => due = NoMessage
    BY <1>9 DEF Calm, Summary
  <2> QED
    BY <1>2, <1>5, <2>1, <2>2 DEF DueFits
<1>11. Follows(t)'
    BY <1>2, <1>3, <1>4, <1>8, <1>10, Advanced
<1>12. CallFits(t)'
  <2>1. Inside(t)' = Inside(t) /\ Serves(t)' = Serves(t)
    BY <1>5 DEF Inside, Serves
  <2>2. CASE t = UIThread
    <3>1. r \in Needs(Serves(t)) /\ (Inside(t) > 0 \/ r = SR_SCRIPTDEBUGGER)
      BY <1>3, <1>7, <2>2 DEF Ok, UIOk, Summary
    <3> QED
      BY <1>6, <2>1, <2>2, <3>1 DEF CallFits
  <2>3. CASE t # UIThread
    <3>1. Inside(t) = 0
      BY <1>9, <2>3 DEF Calm, Summary
    <3>2. \A q \in Kept(t)' : q = r \/ q \in Kept(t)
      BY <1>6 DEF Kept, CInv, IInv, TypeOK
    <3> QED
      BY <1>6, <1>9, <2>1, <2>3, <3>1, <3>2 DEF CallFits, InOrder
  <2> QED
    BY <2>2, <2>3
<1>13. MessageFits(t)'
    BY <1>3, <1>5 DEF MessageFits
<1> QED
    BY <1>11, <1>12, <1>13 DEF ThreadFits

\* The end of a CResourceLock.
LEMMA DropFits ==
    ASSUME CInv, NEW t \in Threads, DropStep(t)
    PROVE  ThreadFits(t)'
<1>1. PICK r \in Resources :
          DoingWith(t, "drop", r) /\ (ReleaseNested(t, r) \/ ReleaseLast(t, r))
    BY DEF DropStep
<1>2. PICK due \in Messages \cup {NoMessage} :
          DueFits(t, due) /\ Runs(Summary(t, due), todo[t])
    BY DEF CInv, Globals, ThreadFits, Follows
<1> DEFINE a == Head(todo[t])
           h == Summary(t, due)
<1>3. /\ todo[t] # <<>> /\ a.do = "drop" /\ a.rid = r /\ message[t] = NoMessage
      /\ Idle(t)
    BY <1>1 DEF DoingWith, Doing, Ready
<1>4. todo'[t] = Tail(todo[t])
    BY DEF DropStep, Advance, CInv, Globals
<1>5. /\ section' = section /\ message' = message /\ serving' = serving
      /\ windows' = windows /\ sites' = sites
    BY DEF DropStep
<1>6. /\ depth'[t] = [depth[t] EXCEPT ![r] = @ - 1] /\ saved'[t] = saved[t]
      /\ call'[t] = call[t]
    BY <1>1 DEF ReleaseNested, ReleaseLast, CInv, IInv, TypeOK
<1>7. Ok(a, h)
    BY <1>2, <1>3, Advanced
<1>8. Summary(t, due)' = After(a, h)
  <2>1. After(a, h) = [h EXCEPT !.depth[r] = @ - 1]
    BY <1>3 DEF After
  <2>2. Inside(t)' = Inside(t) /\ Serves(t)' = Serves(t)
    BY <1>5 DEF Inside, Serves
  <2> QED
    BY <1>6, <2>1, <2>2 DEF Summary
<1>9. t # UIThread => Calm(h)
    BY <1>3, <1>7 DEF Ok, TabOk, Summary
<1>10. DueFits(t, due)'
  <2>1. NoMessage \notin Families /\ NoMessage # "WMM_INITSCRIPTSITE"
    BY DEF NoMessage, Families
  <2>2. t # UIThread => due = NoMessage
    BY <1>9 DEF Calm, Summary
  <2> QED
    BY <1>2, <1>5, <2>1, <2>2 DEF DueFits
<1>11. Follows(t)'
    BY <1>2, <1>3, <1>4, <1>8, <1>10, Advanced
<1>12. CallFits(t)'
    BY <1>3, <1>6 DEF CallFits, Idle
<1>13. MessageFits(t)'
    BY <1>3, <1>5 DEF MessageFits
<1> QED
    BY <1>11, <1>12, <1>13 DEF ThreadFits

\* A CResourceUnlock.
LEMMA SuspendFits ==
    ASSUME CInv, IInv', NEW t \in Threads, SuspendStep(t)
    PROVE  ThreadFits(t)'
<1>1. PICK r \in Resources : DoingWith(t, "suspend", r) /\ ReleaseAll(t, r)
    BY DEF SuspendStep
<1>2. PICK due \in Messages \cup {NoMessage} :
          DueFits(t, due) /\ Runs(Summary(t, due), todo[t])
    BY DEF CInv, Globals, ThreadFits, Follows
<1> DEFINE a == Head(todo[t])
           h == Summary(t, due)
<1>3. /\ todo[t] # <<>> /\ a.do = "suspend" /\ a.rid = r /\ message[t] = NoMessage
      /\ Idle(t)
    BY <1>1 DEF DoingWith, Doing, Ready
<1>4. todo'[t] = Tail(todo[t])
    BY DEF SuspendStep, Advance, CInv, Globals
<1>5. /\ section' = section /\ message' = message /\ serving' = serving
      /\ windows' = windows /\ sites' = sites
    BY DEF SuspendStep
<1>6. /\ saved'[t] = [saved[t] EXCEPT ![r] = depth[t][r]] /\ depth'[t] = depth[t]
      /\ call'[t] = call[t]
  <2>1. m_Ownership[r].count = depth[t][r] - saved[t][r] /\ saved[t][r] = 0
    BY <1>1, GuardMeansOwner DEF ReleaseAll, CInv
  <2>2. depth[t][r] \in Nat
    BY BoundsAssumption DEF CInv, Globals, IInv, TypeOK
  <2>3. m_Ownership[r].count = depth[t][r]
    BY <2>1, <2>2
  <2> QED
    BY <1>1, <2>3 DEF ReleaseAll, CInv, IInv, TypeOK
<1>7. Ok(a, h)
    BY <1>2, <1>3, Advanced
<1>8. Summary(t, due)' = After(a, h)
  <2>1. After(a, h) = [h EXCEPT !.saved[r] = h.depth[r]]
    BY <1>3 DEF After
  <2>2. Inside(t)' = Inside(t) /\ Serves(t)' = Serves(t)
    BY <1>5 DEF Inside, Serves
  <2> QED
    BY <1>6, <2>1, <2>2 DEF Summary
<1>9. t # UIThread /\ (due = "WMM_INITSCRIPTSITE" => r # SR_SCRIPTMANAGER)
    BY <1>3, <1>7 DEF Ok, UIOk, TabOk, Summary
<1>10. DueFits(t, due)'
  <2>1. ASSUME due = "WMM_INITSCRIPTSITE"
        PROVE  Owns(t, SR_SCRIPTMANAGER)'
    <3>1. Owns(t, SR_SCRIPTMANAGER) /\ SR_SCRIPTMANAGER \in Resources
      BY <1>2, <1>9, <2>1, ResourceIds DEF DueFits
    <3>2. saved'[t][SR_SCRIPTMANAGER] = saved[t][SR_SCRIPTMANAGER]
      BY <1>6, <1>9, <2>1, <3>1 DEF CInv, Globals, IInv, TypeOK
    <3>3. Outstanding(t, SR_SCRIPTMANAGER)' = Outstanding(t, SR_SCRIPTMANAGER)
      BY <1>6 DEF Outstanding
    <3>4. Outstanding(t, SR_SCRIPTMANAGER) = 0
      BY <1>3, <3>1, IdleOwesNothing
    <3>5. /\ Outstanding(t, SR_SCRIPTMANAGER)' <= Outstanding(t, SR_SCRIPTMANAGER)
          /\ depth'[t][SR_SCRIPTMANAGER] = depth[t][SR_SCRIPTMANAGER]
      BY <1>6, <3>3, <3>4
    <3> QED
      BY <3>1, <3>2, <3>5, StaysOwner DEF CInv, Globals
  <2> QED
    BY <1>2, <1>5, <1>9, <2>1 DEF DueFits
<1>11. Follows(t)'
    BY <1>2, <1>3, <1>4, <1>8, <1>10, Advanced
<1>12. CallFits(t)'
    BY <1>3, <1>6 DEF CallFits, Idle
<1>13. MessageFits(t)'
    BY <1>3, <1>5 DEF MessageFits
<1> QED
    BY <1>11, <1>12, <1>13 DEF ThreadFits

\* The end of a CResourceUnlock: the thread asks again for what it gave up.
LEMMA ResumeFits ==
    ASSUME CInv, IInv', NEW t \in Threads, ResumeStep(t)
    PROVE  ThreadFits(t)'
<1>1. PICK r \in Resources : DoingWith(t, "resume", r) /\ Relock(t, r)
    BY DEF ResumeStep
<1>2. PICK due \in Messages \cup {NoMessage} :
          DueFits(t, due) /\ Runs(Summary(t, due), todo[t])
    BY DEF CInv, Globals, ThreadFits, Follows
<1> DEFINE a == Head(todo[t])
           h == Summary(t, due)
<1>3. /\ todo[t] # <<>> /\ a.do = "resume" /\ a.rid = r /\ message[t] = NoMessage
      /\ Idle(t)
    BY <1>1 DEF DoingWith, Doing, Ready
<1>4. todo'[t] = Tail(todo[t])
    BY DEF ResumeStep, Advance, CInv, Globals
<1>5. /\ section' = section /\ message' = message /\ serving' = serving
      /\ windows' = windows /\ sites' = sites
    BY DEF ResumeStep
<1>6. /\ saved'[t] = [saved[t] EXCEPT ![r] = 0] /\ depth'[t] = depth[t]
      /\ call'[t].rid = r
    BY <1>1 DEF Relock, CInv, IInv, TypeOK
<1>7. Ok(a, h)
    BY <1>2, <1>3, Advanced
<1>8. Summary(t, due)' = After(a, h)
  <2>1. After(a, h) = [h EXCEPT !.saved[r] = 0]
    BY <1>3 DEF After
  <2>2. Inside(t)' = Inside(t) /\ Serves(t)' = Serves(t)
    BY <1>5 DEF Inside, Serves
  <2> QED
    BY <1>6, <2>1, <2>2 DEF Summary
<1>9. /\ t # UIThread /\ Inside(t) = 0
      /\ due = "WMM_INITSCRIPTSITE" => r # SR_SCRIPTMANAGER
      /\ InOrder(Kept(t), r)
    BY <1>3, <1>7, SummaryType DEF CInv, Globals, Ok, UIOk, TabOk, Summary
<1>10. DueFits(t, due)'
  <2>1. ASSUME due = "WMM_INITSCRIPTSITE"
        PROVE  Owns(t, SR_SCRIPTMANAGER)'
    <3>1. Owns(t, SR_SCRIPTMANAGER) /\ SR_SCRIPTMANAGER \in Resources
      BY <1>2, <1>9, <2>1, ResourceIds DEF DueFits
    <3>2. saved'[t][SR_SCRIPTMANAGER] = saved[t][SR_SCRIPTMANAGER]
      BY <1>6, <1>9, <2>1, <3>1 DEF CInv, Globals, IInv, TypeOK
    <3>3. Outstanding(t, SR_SCRIPTMANAGER)' = 0
      BY <1>6, <1>9, <2>1 DEF Outstanding
    <3>4. Outstanding(t, SR_SCRIPTMANAGER) = 0
      BY <1>3, <3>1, IdleOwesNothing
    <3>5. /\ Outstanding(t, SR_SCRIPTMANAGER)' <= Outstanding(t, SR_SCRIPTMANAGER)
          /\ depth'[t][SR_SCRIPTMANAGER] = depth[t][SR_SCRIPTMANAGER]
      BY <1>6, <3>3, <3>4
    <3> QED
      BY <3>1, <3>2, <3>5, StaysOwner DEF CInv, Globals
  <2> QED
    BY <1>2, <1>5, <1>9, <2>1 DEF DueFits
<1>11. Follows(t)'
    BY <1>2, <1>3, <1>4, <1>8, <1>10, Advanced
<1>12. CallFits(t)'
  <2>1. Inside(t)' = 0
    BY <1>5, <1>9 DEF Inside
  <2>2. \A q \in Kept(t)' : q = r \/ q \in Kept(t)
    BY <1>6 DEF Kept, CInv, IInv, TypeOK
  <2> QED
    BY <1>6, <1>9, <2>1, <2>2 DEF CallFits, InOrder
<1>13. MessageFits(t)'
    BY <1>3, <1>5 DEF MessageFits
<1> QED
    BY <1>11, <1>12, <1>13 DEF ThreadFits

\* A pass through the loop of Acquire: the thread asks for the same, or returns.
LEMMA AcquireKeepsAsking ==
    ASSUME TypeOK, NEW t \in Threads, AcquireStep(t)
    PROVE  /\ UNCHANGED <<depth, saved>>
           /\ call'[t] = NoCall \/ call'[t].rid = call[t].rid
           /\ ~Idle(t)
           /\ \A r \in Resources : Outstanding(t, r)' <= Outstanding(t, r)
<1>1. PICK r \in Resources :
          /\ call[t].rid = r
          /\ \/ AcquireReturns(t)
             \/ call' = [call EXCEPT ![t] = [rid |-> r, left |-> @.left, asleep |-> TRUE]]
             \/ UNCHANGED call
    BY DEF AcquireStep, AcquireFree, AcquireOwned, Hibernate, Wake, WakeAndOwn,
           WakeAndStarve, WaitsFor, manager
<1>2. ~Idle(t)
    BY <1>1, NoCallId DEF Idle, NoCall
<1>3. UNCHANGED <<depth, saved>>
    BY DEF AcquireStep, AcquireFree, AcquireOwned, Hibernate, Wake, WakeAndOwn,
           WakeAndStarve, manager
<1>4. call'[t] = NoCall \/ call'[t].rid = call[t].rid
    BY <1>1 DEF AcquireReturns, TypeOK
<1>5. ASSUME NEW q \in Resources
      PROVE  Outstanding(t, q)' <= Outstanding(t, q)
  <2>1. Outstanding(t, q) \in Nat
    BY Bounded, BoundsAssumption
  <2>2. CASE AcquireReturns(t)
    <3>1. Outstanding(t, q)' = IF q = r THEN Outstanding(t, q) - 1 ELSE Outstanding(t, q)
      BY <1>1, <2>2, ReturnOwesOneLess
    <3> QED
      BY <2>1, <3>1
  <2>3. CASE ~AcquireReturns(t)
    <3>1. call'[t].rid = call[t].rid /\ call'[t].left = call[t].left
      BY <1>1, <2>3 DEF TypeOK
    <3> QED
      BY <2>1, <3>1 DEF Outstanding
  <2> QED
    BY <2>2, <2>3
<1> QED
    BY <1>2, <1>3, <1>4, <1>5

\* A pass through the loop of Acquire leaves the thread where it is in its steps.
LEMMA InsideAcquireFits ==
    ASSUME CInv, IInv', NEW t \in Threads, InsideAcquire(t)
    PROVE  ThreadFits(t)'
<1>1. /\ AcquireStep(t)
      /\ todo' = todo /\ section' = section /\ message' = message /\ serving' = serving
      /\ windows' = windows /\ sites' = sites
    BY DEF InsideAcquire, traffic
<1>2. /\ depth' = depth /\ saved' = saved
      /\ call'[t] = NoCall \/ call'[t].rid = call[t].rid
      /\ ~Idle(t)
      /\ \A r \in Resources : Outstanding(t, r)' <= Outstanding(t, r)
    BY <1>1, AcquireKeepsAsking DEF CInv, Globals, IInv
<1>3. PICK due \in Messages \cup {NoMessage} :
          DueFits(t, due) /\ Runs(Summary(t, due), todo[t])
    BY DEF CInv, Globals, ThreadFits, Follows
<1>4. Owns(t, SR_SCRIPTMANAGER) => Owns(t, SR_SCRIPTMANAGER)'
    BY <1>2, ResourceIds, StaysOwner DEF CInv, Globals
<1>5. DueFits(t, due)'
    BY <1>1, <1>3, <1>4 DEF DueFits
<1>6. Inside(t)' = Inside(t) /\ Serves(t)' = Serves(t) /\ Kept(t)' = Kept(t)
    BY <1>1, <1>2 DEF Inside, Serves, Kept
<1>7. Follows(t)'
    BY <1>1, <1>2, <1>3, <1>5, <1>6 DEF Follows, Summary
<1>8. CallFits(t)'
    BY <1>2, <1>6 DEF CallFits, Idle, CInv, ThreadFits
<1>9. MessageFits(t)'
    BY <1>1, <1>6 DEF MessageFits, CInv, ThreadFits
<1> QED
    BY <1>7, <1>8, <1>9 DEF ThreadFits

\* A tab inside m_CS neither locks nor unlocks, and is not inside Acquire.
LEMMA LockStepOutside ==
    ASSUME CInv, NEW t \in Tabs, LockStep(t)
    PROVE  section.thread # t
<1>1. t \in Threads /\ t # UIThread
    BY DEF Tabs
<1>2. PICK due \in Messages \cup {NoMessage} : Runs(Summary(t, due), todo[t])
    BY <1>1 DEF CInv, Globals, ThreadFits, Follows
<1>3. Inside(t) = 0
  <2>1. CASE InsideAcquire(t)
    <3>1. ~Idle(t)
      BY <2>1, <1>1, AcquireKeepsAsking DEF InsideAcquire, CInv, IInv
    <3> QED
      BY <1>1, <3>1 DEF CInv, Globals, ThreadFits, CallFits
  <2>2. CASE ~InsideAcquire(t)
    <3>1. /\ todo[t] # <<>>
          /\ Head(todo[t]).do \in {"take", "drop", "suspend", "resume"}
      BY <2>2 DEF LockStep, TakeStep, DropStep, SuspendStep, ResumeStep, DoingWith, Doing
    <3>2. Ok(Head(todo[t]), Summary(t, due))
      BY <1>1, <1>2, <3>1, Advanced
    <3> QED
      BY <1>1, <3>1, <3>2 DEF Ok, TabOk, Calm, Summary
  <2> QED
    BY <2>1, <2>2
<1> QED
    BY <1>1, <1>3, ThreadsAssumption DEF Inside, CInv, Globals, LTypeOK, Unowned

----------------------------------------------------------------------------
\* What a step of t keeps, for t, for the others, and for all of them together.
LEMMA StepKeeps ==
    ASSUME CInv, IInv', AsleepOwnsNot', NEW t \in Threads, ThreadFits(t)',
           \A u \in Threads : u # t => Untouched(u), Globals'
    PROVE  CInv'
<1>1. ASSUME NEW u \in Threads
      PROVE  ThreadFits(u)'
  <2>1. CASE u = t
    BY <2>1
  <2>2. CASE u # t
    <3>1. Untouched(u) /\ ThreadFits(u) /\ IInv
      BY <2>2 DEF CInv
    <3> QED
      BY <3>1, UntouchedFits
  <2> QED
    BY <2>1, <2>2
<1> QED
    BY <1>1 DEF CInv

\* Steps that were taken leave steps.
LEMMA AdvancedType ==
    ASSUME CInv, NEW t \in Threads,
           todo' = todo \/ (todo[t] # <<>> /\ todo' = [todo EXCEPT ![t] = Tail(@)])
    PROVE  todo' \in [Threads -> Seq(Steps)]
<1>1. todo \in [Threads -> Seq(Steps)]
    BY DEF CInv, Globals
<1>2. todo[t] # <<>> => Tail(todo[t]) \in Seq(Steps)
    BY <1>1, HeadTailProperties
<1> QED
    BY <1>1, <1>2

\* What holds of all threads together: a tab inside m_CS keeps the window manager.
LEMMA LockStepGlobals ==
    ASSUME CInv, IInv', NEW t \in Threads, LockStep(t)
    PROVE  Globals'
<1>1. /\ section' = section /\ message' = message /\ serving' = serving
      /\ sited' = sited /\ windows' = windows /\ sites' = sites
    BY LockStepFrame
<1>2. todo' \in [Threads -> Seq(Steps)]
  <2>1. todo' = todo \/ (todo[t] # <<>> /\ todo' = [todo EXCEPT ![t] = Tail(@)])
    BY DEF LockStep, TakeStep, DropStep, SuspendStep, ResumeStep, InsideAcquire, traffic,
           Advance, DoingWith, Doing
  <2> QED
    BY <2>1, AdvancedType
<1>3. SectionUnderManager'
  <2> SUFFICES ASSUME NEW u \in Tabs, section.thread = u
               PROVE  Owns(u, SR_WINDOWMANAGER)'
    BY <1>1 DEF SectionUnderManager
  <2>1. u \in Threads /\ u # t /\ Owns(u, SR_WINDOWMANAGER)
    BY LockStepOutside DEF Tabs, CInv, Globals, SectionUnderManager
  <2>2. depth'[u] = depth[u] /\ saved'[u] = saved[u] /\ call'[u] = call[u]
    BY <2>1, OtherGuards DEF CInv, IInv
  <2>3. SR_WINDOWMANAGER \in Resources
    BY ResourceIds
  <2>4. /\ Outstanding(u, SR_WINDOWMANAGER)' = Outstanding(u, SR_WINDOWMANAGER)
        /\ Outstanding(u, SR_WINDOWMANAGER) \in Nat
    <3>1. Outstanding(u, SR_WINDOWMANAGER)' = Outstanding(u, SR_WINDOWMANAGER)
      BY <2>2 DEF Outstanding
    <3>2. Outstanding(u, SR_WINDOWMANAGER) \in Nat
      BY <2>1, <2>3, Bounded, BoundsAssumption DEF CInv, IInv
    <3> QED
      BY <3>1, <3>2
  <2>5. /\ Outstanding(u, SR_WINDOWMANAGER)' <= Outstanding(u, SR_WINDOWMANAGER)
        /\ depth'[u][SR_WINDOWMANAGER] = depth[u][SR_WINDOWMANAGER]
        /\ saved'[u][SR_WINDOWMANAGER] = saved[u][SR_WINDOWMANAGER]
    BY <2>2, <2>4
  <2> QED
    BY <2>1, <2>3, <2>5, StaysOwner DEF CInv
<1> QED
    BY <1>1, <1>2, <1>3 DEF Globals, CInv, LTypeOK, ServedWaits, OnePanePerFamily,
       OneSitePerScript

\* The steps of the lock manager keep the invariant.
LEMMA LockStepKeeps ==
    ASSUME CInv, IInv', AsleepOwnsNot', NEW t \in Threads, LockStep(t)
    PROVE  CInv'
<1>1. ThreadFits(t)'
    BY TakeFits, DropFits, SuspendFits, ResumeFits, InsideAcquireFits DEF LockStep
<1>2. \A u \in Threads : u # t => Untouched(u)
    BY LockStepUntouched
<1> QED
    BY <1>1, <1>2, LockStepGlobals, StepKeeps

----------------------------------------------------------------------------
\* m_CS.

\* Leaving m_CS is seen only by the thread that leaves.
LEMMA SectionLeft ==
    ASSUME LTypeOK, NEW t \in Threads, section.thread = t, LeaveSection
    PROVE  /\ Inside(t)' = Inside(t) - 1
           /\ \A u \in Threads : u # t => Inside(u)' = Inside(u)
           /\ section' \in {Unowned} \cup [thread : Threads, count : 1 .. 2]
           /\ section'.thread \in {t, NoThread}
<1>1. section \in [thread : Threads, count : 1 .. 2]
    BY ThreadsAssumption DEF LTypeOK, Unowned
<1>2. CASE section.count = 1
    BY <1>1, <1>2, ThreadsAssumption DEF LeaveSection, Inside, Unowned
<1>3. CASE section.count # 1
  <2>1. section' = [section EXCEPT !.count = @ - 1] /\ section.count = 2
    BY <1>1, <1>3 DEF LeaveSection
  <2> QED
    BY <1>1, <2>1 DEF Inside
<1> QED
    BY <1>2, <1>3

\* A thread that is some way into m_CS is the one inside.
LEMMA InsideIsOwner ==
    ASSUME LTypeOK, NEW t \in Threads, Inside(t) # 0
    PROVE  section.thread = t
BY DEF Inside

\* The locks, and who owns what, stay as they are.
LEMMA LocksStay ==
    ASSUME UNCHANGED locks
    PROVE  /\ \A t : depth'[t] = depth[t] /\ saved'[t] = saved[t] /\ call'[t] = call[t]
           /\ \A t : Idle(t)' = Idle(t) /\ Kept(t)' = Kept(t)
           /\ \A t, r : Owns(t, r)' = Owns(t, r)
BY DEF locks, vars, manager, clients, Idle, Kept, Owns

\* Outside of Acquire a thread owns all it has a guard of.
LEMMA IdleOwner ==
    ASSUME IInv, NEW t \in Threads, NEW r \in Kept(t), Idle(t)
    PROVE  Owns(t, r)
<1>1. r \in Resources /\ depth[t][r] > saved[t][r] /\ CanRelease(t, r)
    BY DEF Kept, CanRelease
<1> QED
    BY <1>1, GuardMeansOwner

\* CSGUARD(m_CS): a tab that enters owns the window manager.
LEMMA EnterKeeps ==
    ASSUME CInv, IInv', AsleepOwnsNot', NEW t \in Threads, EnterStep(t)
    PROVE  CInv'
<1>1. /\ todo[t] # <<>> /\ Head(todo[t]).do = "enter" /\ Idle(t) /\ message[t] = NoMessage
      /\ section.thread \in {NoThread, t}
      /\ section' = [thread |-> t, count |-> section.count + 1]
      /\ todo' = [todo EXCEPT ![t] = Tail(@)]
      /\ message' = message /\ serving' = serving /\ sited' = sited
      /\ windows' = windows /\ sites' = sites
    BY DEF EnterStep, Doing, Ready, Advance
<1>2. UNCHANGED locks
    BY DEF EnterStep
<1>3. PICK due \in Messages \cup {NoMessage} :
          DueFits(t, due) /\ Runs(Summary(t, due), todo[t])
    BY DEF CInv, ThreadFits, Follows
<1> DEFINE a == Head(todo[t])
           h == Summary(t, due)
<1>4. Ok(a, h)
    BY <1>1, <1>3, Advanced
<1>5. /\ Inside(t) = section.count /\ Inside(t) \in {0, 1}
      /\ t # UIThread => SR_WINDOWMANAGER \in Kept(t)
      /\ Inside(t)' = Inside(t) + 1
  <2>1. section.thread = NoThread => section.count = 0
    BY ThreadsAssumption DEF CInv, Globals, LTypeOK, Unowned
  <2>2. Inside(t) = section.count /\ section.count \in 0 .. 2
    BY <1>1, <2>1 DEF Inside, CInv, Globals, LTypeOK, Unowned
  <2>3. /\ t = UIThread => Inside(t) <= 1
        /\ t # UIThread => Inside(t) = 0 /\ SR_WINDOWMANAGER \in Kept(t)
    BY <1>1, <1>4, SummaryType DEF Ok, UIOk, TabOk, Summary, CInv, Globals
  <2> QED
    BY <1>1, <2>2, <2>3 DEF Inside
<1>6. ThreadFits(t)'
  <2>1. Summary(t, due)' = After(a, h)
    <3>1. After(a, h) = [h EXCEPT !.inside = @ + 1]
      BY <1>1 DEF After
    <3>2. Serves(t)' = Serves(t)
      BY <1>1 DEF Serves
    <3> QED
      BY <1>2, <1>5, <3>1, <3>2, LocksStay DEF Summary
  <2>2. DueFits(t, due)'
    BY <1>1, <1>2, <1>3, LocksStay DEF DueFits
  <2>3. todo'[t] = Tail(todo[t])
    BY <1>1 DEF CInv, Globals
  <2>4. Follows(t)'
    BY <1>1, <1>3, <2>1, <2>2, <2>3, Advanced
  <2>5. CallFits(t)' /\ MessageFits(t)'
    BY <1>1, <1>2, LocksStay DEF CallFits, MessageFits
  <2> QED
    BY <2>4, <2>5 DEF ThreadFits
<1>7. ASSUME NEW u \in Threads, u # t
      PROVE  Untouched(u)
  <2>1. Inside(u)' = Inside(u)
    BY <1>1, <1>7, ThreadsAssumption DEF Inside
  <2>2. todo'[u] = todo[u]
    BY <1>1, <1>7 DEF CInv, Globals
  <2> QED
    BY <1>1, <1>2, <2>1, <2>2, LocksStay DEF Untouched, Serves
<1>8. Globals'
  <2>1. section' \in [thread : Threads, count : 1 .. 2]
    BY <1>1, <1>5
  <2>2. SectionUnderManager'
    <3>1. t # UIThread => Owns(t, SR_WINDOWMANAGER)
      BY <1>1, <1>5, IdleOwner DEF CInv
    <3>2. section'.thread = t
      BY <1>1
    <3> QED
      BY <1>2, <3>1, <3>2, LocksStay DEF SectionUnderManager, Tabs
  <2>3. todo' \in [Threads -> Seq(Steps)]
    BY <1>1, AdvancedType
  <2> QED
    BY <1>1, <2>1, <2>2, <2>3 DEF Globals, CInv, LTypeOK, ServedWaits, OnePanePerFamily,
       OneSitePerScript
<1> QED
    BY <1>6, <1>7, <1>8, StepKeeps

\* The end of CSGUARD(m_CS).
LEMMA LeaveKeeps ==
    ASSUME CInv, IInv', AsleepOwnsNot', NEW t \in Threads, LeaveStep(t)
    PROVE  CInv'
<1>1. /\ todo[t] # <<>> /\ Head(todo[t]).do = "leave" /\ Idle(t) /\ message[t] = NoMessage
      /\ LeaveSection
      /\ todo' = [todo EXCEPT ![t] = Tail(@)]
      /\ message' = message /\ serving' = serving /\ sited' = sited
      /\ windows' = windows /\ sites' = sites
    BY DEF LeaveStep, Doing, Ready, Advance
<1>2. UNCHANGED locks
    BY DEF LeaveStep
<1>3. PICK due \in Messages \cup {NoMessage} :
          DueFits(t, due) /\ Runs(Summary(t, due), todo[t])
    BY DEF CInv, ThreadFits, Follows
<1> DEFINE a == Head(todo[t])
           h == Summary(t, due)
<1>4. Ok(a, h)
    BY <1>1, <1>3, Advanced
<1>5. section.thread = t
  <2>1. Inside(t) # 0
    <3>1. h.inside = 1 \/ h.inside >= 1
      BY <1>1, <1>4 DEF Ok, UIOk, TabOk
    <3>2. h.inside = Inside(t)
      BY DEF Summary
    <3> QED
      BY <3>1, <3>2
  <2> QED
    BY <2>1, InsideIsOwner DEF CInv, Globals
<1>6. /\ Inside(t)' = Inside(t) - 1
      /\ \A u \in Threads : u # t => Inside(u)' = Inside(u)
      /\ section' \in {Unowned} \cup [thread : Threads, count : 1 .. 2]
      /\ section'.thread \in {t, NoThread}
    BY <1>1, <1>5, SectionLeft DEF CInv, Globals
<1>7. ThreadFits(t)'
  <2>1. Summary(t, due)' = After(a, h)
    <3>1. After(a, h) = [h EXCEPT !.inside = @ - 1]
      BY <1>1 DEF After
    <3>2. Serves(t)' = Serves(t)
      BY <1>1 DEF Serves
    <3> QED
      BY <1>2, <1>6, <3>1, <3>2, LocksStay DEF Summary
  <2>2. DueFits(t, due)'
    BY <1>1, <1>2, <1>3, LocksStay DEF DueFits
  <2>3. todo'[t] = Tail(todo[t])
    BY <1>1 DEF CInv, Globals
  <2>4. Follows(t)'
    BY <1>1, <1>3, <2>1, <2>2, <2>3, Advanced
  <2>5. CallFits(t)' /\ MessageFits(t)'
    BY <1>1, <1>2, LocksStay DEF CallFits, MessageFits
  <2> QED
    BY <2>4, <2>5 DEF ThreadFits
<1>8. ASSUME NEW u \in Threads, u # t
      PROVE  Untouched(u)
  <2>1. todo'[u] = todo[u]
    BY <1>1, <1>8 DEF CInv, Globals
  <2> QED
    BY <1>1, <1>2, <1>6, <1>8, <2>1, LocksStay DEF Untouched, Serves
<1>9. Globals'
  <2>1. SectionUnderManager'
    BY <1>2, <1>5, <1>6, LocksStay, ThreadsAssumption
       DEF SectionUnderManager, Tabs, CInv, Globals
  <2>2. todo' \in [Threads -> Seq(Steps)]
    BY <1>1, AdvancedType
  <2> QED
    BY <1>1, <1>6, <2>1, <2>2 DEF Globals, CInv, LTypeOK, ServedWaits, OnePanePerFamily,
       OneSitePerScript
<1> QED
    BY <1>7, <1>8, <1>9, StepKeeps

----------------------------------------------------------------------------
\* The steps of a tab that need no lock.

\* A thread that is at rest has nothing, and nothing is due to it.
LEMMA AtRestHasNothing ==
    ASSUME CInv, NEW t \in Threads, AtRest(t)
    PROVE  /\ Resting(Summary(t, NoMessage))
           /\ message[t] = NoMessage /\ Idle(t)
<1>1. PICK due \in Messages \cup {NoMessage} : Runs(Summary(t, due), <<>>)
    BY DEF AtRest, CInv, ThreadFits, Follows
<1>2. Resting(Summary(t, due))
    BY <1>1, RunsRest
<1>3. due = NoMessage
    BY <1>2 DEF Resting, Summary
<1> QED
    BY <1>2, <1>3 DEF AtRest, Ready

\* A tab at rest begins a handler.
LEMMA BeginKeeps ==
    ASSUME CInv, IInv', AsleepOwnsNot', NEW t \in Tabs, NEW p \in Handlers, Begin(t, p),
           sited' \subseteq Tabs
    PROVE  CInv'
<1>1. t \in Threads /\ t # UIThread
    BY DEF Tabs
<1>2. /\ AtRest(t) /\ todo' = [todo EXCEPT ![t] = p] /\ UNCHANGED locks
      /\ section' = section /\ message' = message /\ serving' = serving
      /\ windows' = windows /\ sites' = sites
    BY DEF Begin
<1> DEFINE h == Summary(t, NoMessage)
<1>3. Resting(h) /\ message[t] = NoMessage /\ Idle(t)
    BY <1>1, <1>2, AtRestHasNothing
<1>4. p \in Seq(Steps) /\ Runs(h, p)
  <2>1. h \in Summaries /\ h.thread \in Tabs
    BY <1>1, SummaryType DEF CInv, Globals, Summary
  <2> QED
    BY <1>3, <2>1, HandlersRun
<1>5. ThreadFits(t)'
  <2>1. Summary(t, NoMessage)' = h /\ todo'[t] = p
    BY <1>1, <1>2, LocksStay DEF Summary, Inside, Serves, CInv, Globals
  <2>2. DueFits(t, NoMessage)'
    BY <1>1 DEF DueFits, NoMessage, Families
  <2>3. Follows(t)'
    BY <1>4, <2>1, <2>2 DEF Follows
  <2>4. CallFits(t)' /\ MessageFits(t)'
    BY <1>2, <1>3, LocksStay DEF CallFits, MessageFits
  <2> QED
    BY <2>3, <2>4 DEF ThreadFits
<1>6. ASSUME NEW u \in Threads, u # t
      PROVE  Untouched(u)
  <2>1. todo'[u] = todo[u]
    BY <1>2, <1>6 DEF CInv, Globals
  <2> QED
    BY <1>2, <2>1, LocksStay DEF Untouched, Inside, Serves
<1>7. Globals'
  <2>1. todo' \in [Threads -> Seq(Steps)]
    BY <1>2, <1>4 DEF CInv, Globals
  <2>2. SectionUnderManager'
    BY <1>2, LocksStay DEF SectionUnderManager, CInv, Globals
  <2> QED
    BY <1>2, <2>1, <2>2 DEF Globals, CInv, LTypeOK, ServedWaits, OnePanePerFamily,
       OneSitePerScript
<1> QED
    BY <1>1, <1>5, <1>6, <1>7, StepKeeps

\* All that IE and the pages call.
LEMMA EventKeeps ==
    ASSUME CInv, IInv', AsleepOwnsNot', NEW t \in Tabs,
           OnSetSite(t) \/ OnClearSite(t) \/ OnEvent(t)
    PROVE  CInv'
<1>1. sited \subseteq Tabs
    BY DEF CInv, Globals, LTypeOK
<1>2. sited' \subseteq Tabs /\ \E p \in Handlers : Begin(t, p)
    BY <1>1 DEF OnSetSite, OnClearSite, OnEvent, Handlers
<1> QED
    BY <1>2, BeginKeeps

\* Steps that put others in front of those that are left.
LEMMA ExpandedType ==
    ASSUME CInv, NEW t \in Threads, todo[t] # <<>>, NEW p \in Seq(Steps),
           todo' = [todo EXCEPT ![t] = p \o Tail(@)]
    PROVE  /\ todo' \in [Threads -> Seq(Steps)]
           /\ todo'[t] = p \o Tail(todo[t])
           /\ \A u \in Threads : u # t => todo'[u] = todo[u]
<1>1. todo \in [Threads -> Seq(Steps)]
    BY DEF CInv, Globals
<1>2. Tail(todo[t]) \in Seq(Steps)
    BY <1>1, HeadTailProperties
<1>3. p \o Tail(todo[t]) \in Seq(Steps)
    BY <1>2, ConcatProperties
<1> QED
    BY <1>1, <1>3

\* Get*Window: the tab that found no window is the only one that can make it,
\* so it is missing until the UI thread has made it.
LEMMA LookupKeeps ==
    ASSUME CInv, IInv', AsleepOwnsNot', NEW t \in Tabs, LookupStep(t)
    PROVE  CInv'
<1>1. t \in Threads /\ t # UIThread
    BY DEF Tabs
<1> DEFINE a == Head(todo[t])
<1>0. PICK f : f = a.family
    OBVIOUS
<1> DEFINE made == IF windows[t][f] = 0 THEN CreateWindow(f) ELSE <<>>
<1>2. /\ todo[t] # <<>> /\ a.do = "lookup" /\ Idle(t) /\ message[t] = NoMessage
      /\ LeaveSection
      /\ todo' = [todo EXCEPT ![t] = made \o Tail(@)]
      /\ message' = message /\ serving' = serving /\ sited' = sited
      /\ windows' = windows /\ sites' = sites
    BY <1>0 DEF LookupStep, Doing, Ready
<1>3. UNCHANGED locks
    BY DEF LookupStep
<1>4. PICK due \in Messages \cup {NoMessage} :
          DueFits(t, due) /\ Runs(Summary(t, due), todo[t])
    BY <1>1 DEF CInv, ThreadFits, Follows
<1> DEFINE h == Summary(t, due)
           g == [h EXCEPT !.inside = 0]
<1>5. /\ Ok(a, h) /\ a \in Steps /\ Tail(todo[t]) \in Seq(Steps)
      /\ Runs(After(a, h), Tail(todo[t]))
    BY <1>1, <1>2, <1>4, Advanced, RunsStep
<1>6. f \in Families
    BY <1>0, <1>2, <1>5 DEF Steps, LockSteps, PlainSteps, FamilySteps, SendSteps
<1>7. h.inside = 1 /\ CalmWith(g, {SR_WINDOWMANAGER})
  <2>1. h.thread # UIThread
    BY <1>1 DEF Summary
  <2> QED
    BY <1>2, <1>5, <2>1 DEF Ok, TabOk
<1>8. Inside(t) = 1 /\ section.thread = t
  <2>1. Inside(t) = 1
    BY <1>7 DEF Summary
  <2> QED
    BY <1>1, <2>1, InsideIsOwner DEF CInv, Globals
<1>9. /\ Inside(t)' = 0
      /\ \A u \in Threads : u # t => Inside(u)' = Inside(u)
      /\ section' \in {Unowned} \cup [thread : Threads, count : 1 .. 2]
      /\ section'.thread \in {t, NoThread}
    BY <1>1, <1>2, <1>8, SectionLeft DEF CInv, Globals
<1>10. After(a, h) = g /\ due = NoMessage
  <2>1. After(a, h) = [h EXCEPT !.inside = @ - 1]
    BY <1>2 DEF After
  <2>2. due = NoMessage
    BY <1>7 DEF CalmWith, Calm, Summary
  <2> QED
    BY <1>7, <2>1, <2>2
<1>11. Summary(t, due)' = g /\ Summary(t, f)' = [g EXCEPT !.due = f]
  <2>1. Inside(t)' = 0 /\ Serves(t)' = Serves(t)
    BY <1>2, <1>9 DEF Serves
  <2>2. depth'[t] = depth[t] /\ saved'[t] = saved[t]
    BY <1>3, LocksStay
  <2>3. g = [thread |-> t, depth |-> depth[t], saved |-> saved[t], inside |-> 0,
             serves |-> Serves(t), due |-> due]
    BY DEF Summary
  <2>4. \A late : Summary(t, late)' = [thread |-> t, depth |-> depth[t], saved |-> saved[t],
                                     inside |-> 0, serves |-> Serves(t), due |-> late]
    BY <2>1, <2>2 DEF Summary
  <2> HIDE DEF g
  <2> QED
    BY <2>3, <2>4
<1> HIDE DEF g
<1>12. CreateWindow(f) \in Seq(Steps) /\ Keeps(CreateWindow(f), [g EXCEPT !.due = f], g)
    BY <1>6, <1>7, CreateWindowKeeps
<1>13. made \in Seq(Steps)
    BY <1>12, EmptySeq
<1> HIDE DEF made
<1>14. /\ todo' \in [Threads -> Seq(Steps)]
       /\ todo'[t] = made \o Tail(todo[t])
       /\ \A u \in Threads : u # t => todo'[u] = todo[u]
    BY <1>1, <1>2, <1>13, ExpandedType
<1>15. Follows(t)'
  <2>1. CASE windows[t][f] = 0
    <3>1. Runs(Summary(t, f)', todo'[t])
      <4>1. Runs([g EXCEPT !.due = f], CreateWindow(f) \o Tail(todo[t]))
        BY <1>5, <1>10, <1>12 DEF Keeps
      <4> QED
        BY <1>11, <1>14, <2>1, <4>1 DEF made
    <3>2. DueFits(t, f)'
      BY <1>1, <1>2, <1>6, <2>1 DEF DueFits, Families, NoMessage
    <3>3. f \in Messages
      BY <1>6 DEF Messages
    <3> QED
      BY <3>1, <3>2, <3>3 DEF Follows
  <2>2. CASE windows[t][f] # 0
    <3>1. todo'[t] = Tail(todo[t])
      BY <1>5, <1>14, <2>2, ConcatEmptySeq DEF made
    <3>2. DueFits(t, due)'
      BY <1>1, <1>10 DEF DueFits, Families, NoMessage
    <3> QED
      BY <1>5, <1>10, <1>11, <3>1, <3>2 DEF Follows
  <2> QED
    BY <2>1, <2>2
<1>16. ThreadFits(t)'
  <2>1. CallFits(t)' /\ MessageFits(t)'
    BY <1>2, <1>3, LocksStay DEF CallFits, MessageFits
  <2> QED
    BY <1>15, <2>1 DEF ThreadFits
<1>17. ASSUME NEW u \in Threads, u # t
      PROVE  Untouched(u)
    BY <1>2, <1>3, <1>9, <1>14, <1>17, LocksStay DEF Untouched, Serves
<1>18. Globals'
  <2>1. SectionUnderManager'
    BY <1>3, <1>8, <1>9, LocksStay, ThreadsAssumption
       DEF SectionUnderManager, Tabs, CInv, Globals
  <2> QED
    BY <1>2, <1>9, <1>14, <2>1 DEF Globals, CInv, LTypeOK, ServedWaits, OnePanePerFamily,
       OneSitePerScript
<1> QED
    BY <1>1, <1>16, <1>17, <1>18, StepKeeps

\* RegisterScriptInstance: the tab that found no site keeps the script manager
\* locked, so no other tab makes it.
LEMMA FindSiteKeeps ==
    ASSUME CInv, IInv', AsleepOwnsNot', NEW t \in Tabs, FindSiteStep(t)
    PROVE  CInv'
<1>1. t \in Threads /\ t # UIThread
    BY DEF Tabs
<1> DEFINE a == Head(todo[t])
           m == "WMM_INITSCRIPTSITE"
           made == IF sites = 0 THEN CreateSite ELSE <<>>
<1>2. /\ todo[t] # <<>> /\ a.do = "find site" /\ Idle(t) /\ message[t] = NoMessage
      /\ todo' = [todo EXCEPT ![t] = made \o Tail(@)]
      /\ section' = section /\ message' = message /\ serving' = serving /\ sited' = sited
      /\ windows' = windows /\ sites' = sites
    BY DEF FindSiteStep, Doing, Ready
<1>3. UNCHANGED locks
    BY DEF FindSiteStep
<1>4. PICK due \in Messages \cup {NoMessage} :
          DueFits(t, due) /\ Runs(Summary(t, due), todo[t])
    BY <1>1 DEF CInv, ThreadFits, Follows
<1> DEFINE h == Summary(t, due)
<1>5. /\ Ok(a, h) /\ Tail(todo[t]) \in Seq(Steps)
      /\ Runs(After(a, h), Tail(todo[t]))
    BY <1>1, <1>2, <1>4, Advanced, RunsStep
<1>6. CalmWith(h, {SR_SCRIPTMANAGER, SR_SCRIPTDEBUGGER}) /\ After(a, h) = h
  <2>1. h.thread # UIThread
    BY <1>1 DEF Summary
  <2> QED
    BY <1>2, <1>5, <2>1 DEF Ok, TabOk, After
<1>7. due = NoMessage /\ Owns(t, SR_SCRIPTMANAGER)
  <2>1. SR_SCRIPTMANAGER \in Kept(t)
    BY <1>1, <1>6, SummaryType DEF CalmWith, CInv, Globals
  <2>2. due = NoMessage
    BY <1>6 DEF CalmWith, Calm, Summary
  <2> QED
    BY <1>1, <1>2, <2>1, <2>2, IdleOwner DEF CInv
<1>8. \A late : Summary(t, late)' = [h EXCEPT !.due = late]
  <2>1. Inside(t)' = Inside(t) /\ Serves(t)' = Serves(t)
    BY <1>2 DEF Inside, Serves
  <2> QED
    BY <1>3, <2>1, LocksStay DEF Summary
<1>9. CreateSite \in Seq(Steps) /\ Keeps(CreateSite, [h EXCEPT !.due = m], h)
    BY <1>6, CreateSiteKeeps
<1>10. made \in Seq(Steps)
    BY <1>9, EmptySeq
<1> HIDE DEF made
<1>11. /\ todo' \in [Threads -> Seq(Steps)]
       /\ todo'[t] = made \o Tail(todo[t])
       /\ \A u \in Threads : u # t => todo'[u] = todo[u]
    BY <1>1, <1>2, <1>10, ExpandedType
<1>12. Follows(t)'
  <2>1. CASE sites = 0
    <3>1. Runs(Summary(t, m)', todo'[t])
      BY <1>5, <1>6, <1>8, <1>9, <1>11, <2>1 DEF Keeps, made
    <3>2. DueFits(t, m)'
      BY <1>1, <1>2, <1>3, <1>7, <2>1, LocksStay DEF DueFits, Families, NoMessage
    <3>3. m \in Messages
      BY DEF Messages
    <3> QED
      BY <3>1, <3>2, <3>3 DEF Follows
  <2>2. CASE sites # 0
    <3>1. todo'[t] = Tail(todo[t])
      BY <1>5, <1>11, <2>2, ConcatEmptySeq DEF made
    <3>2. Summary(t, due)' = h
      <4>1. h.due = due /\ [h EXCEPT !.due = due] = h
        BY DEF Summary
      <4> QED
        BY <1>8, <4>1
    <3>3. DueFits(t, due)'
      BY <1>1, <1>7 DEF DueFits, Families, NoMessage
    <3> QED
      BY <1>5, <1>6, <3>1, <3>2, <3>3 DEF Follows
  <2> QED
    BY <2>1, <2>2
<1>13. ThreadFits(t)'
  <2>1. CallFits(t)' /\ MessageFits(t)'
    BY <1>2, <1>3, LocksStay DEF CallFits, MessageFits
  <2> QED
    BY <1>12, <2>1 DEF ThreadFits
<1>14. ASSUME NEW u \in Threads, u # t
      PROVE  Untouched(u)
    BY <1>2, <1>3, <1>11, <1>14, LocksStay DEF Untouched, Serves, Inside
<1>15. Globals'
  <2>1. SectionUnderManager'
    BY <1>2, <1>3, LocksStay DEF SectionUnderManager, CInv, Globals
  <2> QED
    BY <1>2, <1>11, <2>1 DEF Globals, CInv, LTypeOK, ServedWaits, OnePanePerFamily,
       OneSitePerScript
<1> QED
    BY <1>1, <1>13, <1>14, <1>15, StepKeeps

\* The end of a tab's windows.
LEMMA RemoveKeeps ==
    ASSUME CInv, IInv', AsleepOwnsNot', NEW t \in Tabs, RemoveStep(t)
    PROVE  CInv'
<1>1. t \in Threads /\ t # UIThread
    BY DEF Tabs
<1> DEFINE a == Head(todo[t])
<1>2. /\ todo[t] # <<>> /\ a.do = "remove" /\ Idle(t) /\ message[t] = NoMessage
      /\ todo' = [todo EXCEPT ![t] = Tail(@)]
      /\ windows' = [windows EXCEPT ![t] = [f \in Families |-> 0]]
      /\ section' = section /\ message' = message /\ serving' = serving /\ sited' = sited
      /\ sites' = sites
    BY DEF RemoveStep, Doing, Ready, Advance
<1>3. UNCHANGED locks
    BY DEF RemoveStep
<1>4. PICK due \in Messages \cup {NoMessage} :
          DueFits(t, due) /\ Runs(Summary(t, due), todo[t])
    BY <1>1 DEF CInv, ThreadFits, Follows
<1> DEFINE h == Summary(t, due)
<1>5. Ok(a, h)
    BY <1>1, <1>2, <1>4, Advanced
<1>6. due = NoMessage /\ After(a, h) = h
  <2>1. h.thread # UIThread /\ h.due = due
    BY <1>1 DEF Summary
  <2> QED
    BY <1>2, <1>5, <2>1 DEF Ok, TabOk, After
<1>7. /\ windows' \in [Tabs -> [Families -> Nat]]
      /\ \A u \in Tabs, f \in Families :
            windows'[u][f] = IF u = t THEN 0 ELSE windows[u][f]
  <2>1. windows \in [Tabs -> [Families -> Nat]]
    BY DEF CInv, Globals, LTypeOK
  <2> QED
    BY <1>2, <2>1
<1>8. ThreadFits(t)'
  <2>1. Summary(t, due)' = After(a, h)
    <3>1. Inside(t)' = Inside(t) /\ Serves(t)' = Serves(t)
      BY <1>2 DEF Inside, Serves
    <3> QED
      BY <1>3, <1>6, <3>1, LocksStay DEF Summary
  <2>2. DueFits(t, due)'
    BY <1>1, <1>6 DEF DueFits, NoMessage, Families
  <2>3. todo'[t] = Tail(todo[t])
    BY <1>1, <1>2 DEF CInv, Globals
  <2>4. Follows(t)'
    BY <1>1, <1>2, <1>4, <2>1, <2>2, <2>3, Advanced
  <2>5. CallFits(t)' /\ MessageFits(t)'
    BY <1>2, <1>3, LocksStay DEF CallFits, MessageFits
  <2> QED
    BY <2>4, <2>5 DEF ThreadFits
<1>9. ASSUME NEW u \in Threads, u # t
      PROVE  Untouched(u)
  <2>1. todo'[u] = todo[u]
    BY <1>2, <1>9 DEF CInv, Globals
  <2>2. Inside(u)' = Inside(u) /\ Serves(u)' = Serves(u)
    BY <1>2 DEF Inside, Serves
  <2>3. depth'[u] = depth[u] /\ saved'[u] = saved[u] /\ call'[u] = call[u]
    BY <1>3, LocksStay
  <2>4. u # UIThread => u \in Tabs
    BY DEF Tabs
  <2>5. serving # NoThread => serving \in Tabs
    BY DEF CInv, Globals, LTypeOK
  <2> QED
    BY <1>2, <1>7, <1>9, <2>1, <2>2, <2>3, <2>4, <2>5 DEF Untouched
<1>10. Globals'
  <2>1. SectionUnderManager'
    BY <1>2, <1>3, LocksStay DEF SectionUnderManager, CInv, Globals
  <2>2. todo' \in [Threads -> Seq(Steps)]
    BY <1>1, <1>2, AdvancedType
  <2>3. OnePanePerFamily'
    BY <1>7 DEF OnePanePerFamily, CInv, Globals
  <2> QED
    BY <1>2, <1>7, <2>1, <2>2, <2>3 DEF Globals, CInv, LTypeOK, ServedWaits, OneSitePerScript
<1> QED
    BY <1>1, <1>8, <1>9, <1>10, StepKeeps

\* The site that was missing when the tab looked is still missing when it is added.
LEMMA AddSiteKeeps ==
    ASSUME CInv, IInv', AsleepOwnsNot', NEW t \in Tabs, AddSiteStep(t)
    PROVE  CInv'
<1>1. t \in Threads /\ t # UIThread
    BY DEF Tabs
<1> DEFINE a == Head(todo[t])
<1>2. /\ todo[t] # <<>> /\ a.do = "add site" /\ Idle(t) /\ message[t] = NoMessage
      /\ todo' = [todo EXCEPT ![t] = Tail(@)]
      /\ section' = section /\ message' = message /\ serving' = serving /\ sited' = sited
      /\ windows' = windows /\ sites' = sites + 1
    BY DEF AddSiteStep, Doing, Ready, Advance
<1>3. UNCHANGED locks
    BY DEF AddSiteStep
<1>4. PICK due \in Messages \cup {NoMessage} :
          DueFits(t, due) /\ Runs(Summary(t, due), todo[t])
    BY <1>1 DEF CInv, ThreadFits, Follows
<1> DEFINE h == Summary(t, due)
<1>5. Ok(a, h)
    BY <1>1, <1>2, <1>4, Advanced
<1>6. due = "WMM_INITSCRIPTSITE" /\ After(a, h) = [h EXCEPT !.due = NoMessage]
  <2>1. h.thread # UIThread /\ h.due = due
    BY <1>1 DEF Summary
  <2> QED
    BY <1>2, <1>5, <2>1 DEF Ok, TabOk, After
<1>7. sites = 0 /\ Owns(t, SR_SCRIPTMANAGER)
    BY <1>1, <1>4, <1>6 DEF DueFits
<1>8. ThreadFits(t)'
  <2>1. Summary(t, NoMessage)' = After(a, h)
    <3>1. Inside(t)' = Inside(t) /\ Serves(t)' = Serves(t)
      BY <1>2 DEF Inside, Serves
    <3> QED
      BY <1>3, <1>6, <3>1, LocksStay DEF Summary
  <2>2. DueFits(t, NoMessage)'
    BY <1>1 DEF DueFits, NoMessage, Families
  <2>3. todo'[t] = Tail(todo[t])
    BY <1>1, <1>2 DEF CInv, Globals
  <2>4. Follows(t)'
    BY <1>1, <1>2, <1>4, <2>1, <2>2, <2>3, Advanced
  <2>5. CallFits(t)' /\ MessageFits(t)'
    BY <1>2, <1>3, LocksStay DEF CallFits, MessageFits
  <2> QED
    BY <2>4, <2>5 DEF ThreadFits
<1>9. ASSUME NEW u \in Threads, u # t
      PROVE  Untouched(u)
  <2>1. todo'[u] = todo[u]
    BY <1>2, <1>9 DEF CInv, Globals
  <2>2. Inside(u)' = Inside(u) /\ Serves(u)' = Serves(u)
    BY <1>2 DEF Inside, Serves
  <2>3. depth'[u] = depth[u] /\ saved'[u] = saved[u] /\ call'[u] = call[u]
    BY <1>3, LocksStay
  <2>4. ~Owns(u, SR_SCRIPTMANAGER)
    BY <1>7, <1>9 DEF Owns
  <2> QED
    BY <1>2, <2>1, <2>2, <2>3, <2>4 DEF Untouched
<1>10. Globals'
  <2>1. SectionUnderManager'
    BY <1>2, <1>3, LocksStay DEF SectionUnderManager, CInv, Globals
  <2>2. todo' \in [Threads -> Seq(Steps)]
    BY <1>1, <1>2, AdvancedType
  <2>3. sites' = 1
    <3>1. sites' = sites + 1
      BY <1>2
    <3>2. sites = 0
      BY <1>7
    <3> QED
      BY <3>1, <3>2
  <2>4. sites' \in Nat /\ OneSitePerScript'
    BY <2>3 DEF OneSitePerScript
  <2>5. LTypeOK'
    BY <1>2, <2>4 DEF Globals, CInv, LTypeOK
  <2>6. ServedWaits' /\ OnePanePerFamily'
    BY <1>2 DEF Globals, CInv, ServedWaits, OnePanePerFamily
  <2> QED
    BY <2>1, <2>2, <2>4, <2>5, <2>6 DEF Globals
<1> QED
    BY <1>1, <1>8, <1>9, <1>10, StepKeeps

\* A tab sends what it was about to ask for, having given up what that needs.
LEMMA SendKeeps ==
    ASSUME CInv, IInv', AsleepOwnsNot', NEW t \in Tabs, SendStep(t)
    PROVE  CInv'
<1>1. t \in Threads /\ t # UIThread
    BY DEF Tabs
<1> DEFINE a == Head(todo[t])
<1>0. PICK m : m = a.message
    OBVIOUS
<1>2. /\ todo[t] # <<>> /\ a.do = "send" /\ Idle(t) /\ message[t] = NoMessage
      /\ todo' = [todo EXCEPT ![t] = Tail(@)]
      /\ message' = [message EXCEPT ![t] = m]
      /\ section' = section /\ serving' = serving /\ sited' = sited
      /\ windows' = windows /\ sites' = sites
    BY <1>0 DEF SendStep, Doing, Ready, Advance
<1>3. UNCHANGED locks
    BY DEF SendStep
<1>4. PICK due \in Messages \cup {NoMessage} :
          DueFits(t, due) /\ Runs(Summary(t, due), todo[t])
    BY <1>1 DEF CInv, ThreadFits, Follows
<1> DEFINE h == Summary(t, due)
<1>5. Ok(a, h) /\ a \in Steps
    BY <1>1, <1>2, <1>4, Advanced
<1>6. m \in Messages
    BY <1>0, <1>2, <1>5 DEF Steps, LockSteps, PlainSteps, FamilySteps, SendSteps
<1>7. due = m /\ Inside(t) = 0 /\ Kept(t) \cap (Needs(m) \cup GivenUp) = {}
  <2>1. h.thread # UIThread /\ h.due = due /\ h.inside = Inside(t) /\ InForce(h) = Kept(t)
    BY <1>1, SummaryType DEF CInv, Globals, Summary
  <2> QED
    BY <1>0, <1>2, <1>5, <2>1 DEF Ok, TabOk
<1>8. /\ message' \in [Threads -> Messages \cup {NoMessage}]
      /\ \A u \in Threads : message'[u] = IF u = t THEN m ELSE message[u]
    BY <1>1, <1>2, <1>6 DEF CInv, Globals, LTypeOK
<1>9. serving # t
    BY <1>1, <1>2, ThreadsAssumption DEF CInv, Globals, ServedWaits
<1>10. \A u \in Threads : Inside(u)' = Inside(u) /\ Serves(u)' = Serves(u)
  <2>1. serving # NoThread => message'[serving] = message[serving]
    BY <1>8, <1>9 DEF CInv, Globals, LTypeOK, Tabs
  <2> QED
    BY <1>2, <2>1 DEF Inside, Serves
<1>11. ThreadFits(t)'
  <2> DEFINE late == IF m \in Families THEN NoMessage ELSE m
  <2>1. Summary(t, late)' = After(a, h)
    <3>1. After(a, h) = [h EXCEPT !.due = late]
      <4>1. CASE m \in Families
        BY <1>0, <1>2, <4>1 DEF After
      <4>2. CASE m \notin Families
        <5>1. After(a, h) = h
          BY <1>0, <1>2, <4>2 DEF After
        <5>2. h = [h EXCEPT !.due = due]
          BY DEF Summary
        <5> QED
          BY <1>7, <4>2, <5>1, <5>2
      <4> QED
        BY <4>1, <4>2
    <3>2. depth'[t] = depth[t] /\ saved'[t] = saved[t]
      BY <1>3, LocksStay
    <3> HIDE DEF late
    <3> QED
      BY <1>1, <1>10, <3>1, <3>2 DEF Summary
  <2>2. DueFits(t, late)'
    <3>1. CASE m \in Families
      BY <1>1, <3>1 DEF DueFits, NoMessage, Families
    <3>2. CASE m \notin Families
      <4>1. late = m /\ message'[t] = m
        BY <1>1, <1>8, <3>2
      <4> QED
        BY <1>1, <1>2, <1>3, <1>4, <1>7, <3>2, <4>1, LocksStay DEF DueFits
    <3> QED
      BY <3>1, <3>2
  <2>3. todo'[t] = Tail(todo[t])
    BY <1>1, <1>2 DEF CInv, Globals
  <2>4. late \in Messages \cup {NoMessage}
    BY <1>6
  <2> HIDE DEF late
  <2>5. Follows(t)'
    BY <1>1, <1>2, <1>4, <2>1, <2>2, <2>3, <2>4, Advanced
  <2>6. CallFits(t)'
    BY <1>2, <1>3, LocksStay DEF CallFits
  <2>7. MessageFits(t)'
    <3>1. Kept(t)' = Kept(t) /\ Inside(t)' = 0 /\ message'[t] = m
      BY <1>1, <1>3, <1>7, <1>8, <1>10, LocksStay
    <3>2. m \in Families => windows'[t][m] = 0
      BY <1>1, <1>2, <1>4, <1>7 DEF DueFits
    <3> QED
      BY <1>1, <1>7, <3>1, <3>2 DEF MessageFits
  <2> QED
    BY <2>5, <2>6, <2>7 DEF ThreadFits
<1>12. ASSUME NEW u \in Threads, u # t
      PROVE  Untouched(u)
  <2>1. todo'[u] = todo[u] /\ message'[u] = message[u]
    BY <1>2, <1>8, <1>12 DEF CInv, Globals
  <2>2. depth'[u] = depth[u] /\ saved'[u] = saved[u] /\ call'[u] = call[u]
    BY <1>3, LocksStay
  <2>3. serving # NoThread => message'[serving] = message[serving]
    BY <1>8, <1>9 DEF CInv, Globals, LTypeOK, Tabs
  <2> QED
    BY <1>2, <1>10, <2>1, <2>2, <2>3 DEF Untouched
<1>13. Globals'
  <2>1. SectionUnderManager'
    BY <1>2, <1>3, LocksStay DEF SectionUnderManager, CInv, Globals
  <2>2. todo' \in [Threads -> Seq(Steps)]
    BY <1>1, <1>2, AdvancedType
  <2>3. ServedWaits'
    BY <1>2, <1>8, <1>9 DEF ServedWaits, CInv, Globals, LTypeOK, Tabs
  <2> QED
    BY <1>2, <1>8, <2>1, <2>2, <2>3 DEF Globals, CInv, LTypeOK, OnePanePerFamily,
       OneSitePerScript
<1> QED
    BY <1>1, <1>11, <1>12, <1>13, StepKeeps

----------------------------------------------------------------------------
\* The messages.

\* The UI thread, at rest, begins the handler of a message.
LEMMA ReceiveKeeps ==
    ASSUME CInv, IInv', AsleepOwnsNot', Receive
    PROVE  CInv'
<1> DEFINE ui == UIThread
<1>1. ui \in Threads
    BY UIThreadAssumption
<1>2. PICK s \in Tabs : 
          /\ message[s] # NoMessage /\ serving' = s
          /\ todo' = [todo EXCEPT ![ui] = UIThreadProc(message[s])]
    BY DEF Receive
<1>3. /\ AtRest(ui) /\ serving = NoThread /\ UNCHANGED locks
      /\ section' = section /\ message' = message /\ sited' = sited
      /\ windows' = windows /\ sites' = sites
    BY DEF Receive
<1>4. PICK m \in Messages : m = message[s]
    BY <1>2 DEF CInv, Globals, LTypeOK, Tabs
<1>5. Resting(Summary(ui, NoMessage)) /\ message[ui] = NoMessage /\ Idle(ui)
    BY <1>1, <1>3, AtRestHasNothing
<1>6. s \in Threads /\ s # ui /\ s # NoThread
    BY ThreadsAssumption DEF Tabs
<1>7. m \in Families => windows[s][m] = 0
    BY <1>2, <1>3, <1>4, <1>6 DEF CInv, ThreadFits, MessageFits
<1> DEFINE due == IF m \in Families THEN m ELSE NoMessage
           h == [thread |-> ui, depth |-> Nothing, saved |-> Nothing, inside |-> 0,
                 serves |-> m, due |-> due]
<1>8. UIThreadProc(m) \in Seq(Steps) /\ Runs(h, UIThreadProc(m))
  <2>1. Nothing \in [Resources -> Nat]
    BY DEF Nothing
  <2>2. h \in Summaries
    BY <1>1, <1>4, <2>1 DEF Summaries
  <2>3. /\ h.thread = ui /\ h.depth = Nothing /\ h.saved = Nothing /\ h.inside = 0
        /\ h.serves = m /\ h.due = IF m \in Families THEN m ELSE NoMessage
    OBVIOUS
  <2> HIDE DEF h
  <2> QED
    BY <2>2, <2>3, ServicesRun
<1>9. Summary(ui, due)' = h
  <2>1. /\ depth[ui] = Nothing /\ saved[ui] = Nothing /\ Inside(ui) = 0
    BY <1>5 DEF Resting, Summary
  <2>2. Inside(ui)' = 0 /\ Serves(ui)' = m
    BY <1>2, <1>3, <1>4, <1>6, <2>1 DEF Inside, Serves
  <2>3. depth'[ui] = Nothing /\ saved'[ui] = Nothing
    BY <1>3, <2>1, LocksStay
  <2> HIDE DEF due
  <2> QED
    BY <2>2, <2>3 DEF Summary
<1>10. todo'[ui] = UIThreadProc(m) /\ \A u \in Threads : u # ui => todo'[u] = todo[u]
    BY <1>1, <1>2, <1>4 DEF CInv, Globals
<1>11. ThreadFits(ui)'
  <2>1. DueFits(ui, due)'
    <3>1. due \in Families => due = m /\ m \in Families
      BY DEF NoMessage, Families
    <3> QED
      BY <1>2, <1>3, <1>4, <1>7, <3>1 DEF DueFits
  <2>2. due \in Messages \cup {NoMessage}
    BY <1>4
  <2>3. Follows(ui)'
    <3> HIDE DEF due
    <3> QED
      BY <1>8, <1>9, <1>10, <2>1, <2>2 DEF Follows
  <2>4. CallFits(ui)' /\ MessageFits(ui)'
    BY <1>3, <1>5, LocksStay DEF CallFits, MessageFits
  <2> QED
    BY <2>3, <2>4 DEF ThreadFits
<1>12. ASSUME NEW u \in Threads, u # ui
      PROVE  Untouched(u)
  <2>1. Inside(u)' = Inside(u) /\ Serves(u)' = Serves(u)
    BY <1>3, <1>12 DEF Inside, Serves
  <2>2. depth'[u] = depth[u] /\ saved'[u] = saved[u] /\ call'[u] = call[u]
    BY <1>3, LocksStay
  <2>3. serving # u
    BY <1>3, <1>12, ThreadsAssumption
  <2> QED
    BY <1>3, <1>10, <1>12, <2>1, <2>2, <2>3 DEF Untouched
<1>13. Globals'
  <2>1. SectionUnderManager'
    BY <1>3, LocksStay DEF SectionUnderManager, CInv, Globals
  <2>2. todo' \in [Threads -> Seq(Steps)]
    BY <1>1, <1>2, <1>4, <1>8 DEF CInv, Globals
  <2>3. ServedWaits'
    BY <1>2, <1>3 DEF ServedWaits
  <2> QED
    BY <1>2, <1>3, <2>1, <2>2, <2>3 DEF Globals, CInv, LTypeOK, OnePanePerFamily,
       OneSitePerScript
<1> QED
    BY <1>1, <1>11, <1>12, <1>13, StepKeeps

\* The window that was missing when the tab asked is still missing now.
LEMMA InsertKeeps ==
    ASSUME CInv, IInv', AsleepOwnsNot', InsertStep
    PROVE  CInv'
<1> DEFINE ui == UIThread
           a == Head(todo[ui])
<1>1. ui \in Threads
    BY UIThreadAssumption
<1>0. PICK f : f = a.family
    OBVIOUS
<1>2. /\ todo[ui] # <<>> /\ a.do = "insert" /\ Idle(ui) /\ message[ui] = NoMessage
      /\ windows' = [windows EXCEPT ![serving][f] = @ + 1]
      /\ todo' = [todo EXCEPT ![ui] = Tail(@)]
      /\ section' = section /\ message' = message /\ serving' = serving /\ sited' = sited
      /\ sites' = sites
    BY <1>0 DEF InsertStep, Doing, Ready, Advance
<1>3. UNCHANGED locks
    BY DEF InsertStep
<1>4. PICK due \in Messages \cup {NoMessage} :
          DueFits(ui, due) /\ Runs(Summary(ui, due), todo[ui])
    BY <1>1 DEF CInv, ThreadFits, Follows
<1> DEFINE h == Summary(ui, due)
<1>5. Ok(a, h) /\ a \in Steps
    BY <1>1, <1>2, <1>4, Advanced
<1>6. f \in Families
    BY <1>0, <1>2, <1>5 DEF Steps, LockSteps, PlainSteps, FamilySteps, SendSteps
<1>7. due = f
  <2>1. h.thread = UIThread /\ h.due = due
    BY DEF Summary
  <2> QED
    BY <1>0, <1>2, <1>5, <2>1 DEF Ok, UIOk
<1>8. serving \in Tabs /\ message[serving] = f /\ windows[serving][f] = 0
    BY <1>4, <1>6, <1>7 DEF DueFits
<1>9. /\ windows' \in [Tabs -> [Families -> Nat]]
      /\ \A u \in Tabs, g \in Families :
            windows'[u][g] = IF u = serving /\ g = f THEN 1 ELSE windows[u][g]
  <2>1. windows \in [Tabs -> [Families -> Nat]]
    BY DEF CInv, Globals, LTypeOK
  <2> QED
    BY <1>2, <1>6, <1>8, <2>1
<1>10. \A u \in Threads : Inside(u)' = Inside(u) /\ Serves(u)' = Serves(u)
    BY <1>2 DEF Inside, Serves
<1>11. ThreadFits(ui)'
  <2>1. Summary(ui, NoMessage)' = After(a, h)
    <3>1. After(a, h) = [h EXCEPT !.due = NoMessage]
      BY <1>2 DEF After
    <3>2. depth'[ui] = depth[ui] /\ saved'[ui] = saved[ui]
      BY <1>3, LocksStay
    <3> QED
      BY <1>1, <1>10, <3>1, <3>2 DEF Summary
  <2>2. DueFits(ui, NoMessage)'
    BY DEF DueFits, NoMessage, Families
  <2>3. todo'[ui] = Tail(todo[ui])
    BY <1>1, <1>2 DEF CInv, Globals
  <2>4. Follows(ui)'
    BY <1>1, <1>2, <1>4, <2>1, <2>2, <2>3, Advanced
  <2>5. CallFits(ui)' /\ MessageFits(ui)'
    BY <1>2, <1>3, LocksStay DEF CallFits, MessageFits
  <2> QED
    BY <2>4, <2>5 DEF ThreadFits
<1>12. ASSUME NEW u \in Threads, u # ui
      PROVE  Untouched(u)
  <2>1. todo'[u] = todo[u]
    BY <1>2, <1>12 DEF CInv, Globals
  <2>2. depth'[u] = depth[u] /\ saved'[u] = saved[u] /\ call'[u] = call[u]
    BY <1>3, LocksStay
  <2>3. u \in Tabs
    BY <1>12 DEF Tabs
  <2> QED
    BY <1>2, <1>6, <1>8, <1>9, <1>10, <1>12, <2>1, <2>2, <2>3 DEF Untouched
<1>13. Globals'
  <2>1. SectionUnderManager'
    BY <1>2, <1>3, LocksStay DEF SectionUnderManager, CInv, Globals
  <2>2. todo' \in [Threads -> Seq(Steps)]
    BY <1>1, <1>2, AdvancedType
  <2>3. OnePanePerFamily'
    BY <1>9 DEF OnePanePerFamily, CInv, Globals
  <2> QED
    BY <1>2, <1>9, <2>1, <2>2, <2>3 DEF Globals, CInv, LTypeOK, ServedWaits, OneSitePerScript
<1> QED
    BY <1>1, <1>11, <1>12, <1>13, StepKeeps

\* The handler has returned, with nothing left, and the tab runs on.
LEMMA ReplyKeeps ==
    ASSUME CInv, IInv', AsleepOwnsNot', Reply
    PROVE  CInv'
<1> DEFINE ui == UIThread
<1>1. ui \in Threads
    BY UIThreadAssumption
<1>0. PICK s : s = serving
    OBVIOUS
<1>2. /\ AtRest(ui) /\ s # NoThread /\ UNCHANGED locks
      /\ message' = [message EXCEPT ![s] = NoMessage]
      /\ serving' = NoThread
      /\ todo' = todo /\ section' = section /\ sited' = sited
      /\ windows' = windows /\ sites' = sites
    BY <1>0 DEF Reply
<1>3. s \in Tabs /\ s \in Threads /\ s # ui
    BY <1>0, <1>2 DEF CInv, Globals, LTypeOK, Tabs
<1>4. \A u \in Threads : message'[u] = IF u = s THEN NoMessage ELSE message[u]
    BY <1>2, <1>3 DEF CInv, Globals, LTypeOK
<1>5. \A u : /\ depth'[u] = depth[u] /\ saved'[u] = saved[u] /\ call'[u] = call[u]
             /\ Inside(u)' = Inside(u) /\ Kept(u)' = Kept(u) /\ Idle(u)' = Idle(u)
             /\ Owns(u, SR_SCRIPTMANAGER)' = Owns(u, SR_SCRIPTMANAGER)
    BY <1>2, LocksStay DEF Inside
\* The UI thread has come to the end of its handler.
<1>6. ThreadFits(ui)'
  <2>1. Resting(Summary(ui, NoMessage)) /\ message[ui] = NoMessage /\ Idle(ui)
    BY <1>1, <1>2, AtRestHasNothing
  <2>2. Resting(Summary(ui, NoMessage)')
    BY <1>5, <2>1 DEF Resting, Summary
  <2>3. Runs(Summary(ui, NoMessage)', <<>>)
    BY <2>2, RunsRest
  <2>4. DueFits(ui, NoMessage)'
    BY DEF DueFits, NoMessage, Families
  <2>5. todo'[ui] = <<>>
    BY <1>2 DEF AtRest
  <2>6. Follows(ui)'
    BY <2>3, <2>4, <2>5 DEF Follows
  <2>7. CallFits(ui)' /\ MessageFits(ui)'
    BY <1>1, <1>3, <1>4, <1>5, <2>1 DEF CallFits, MessageFits
  <2> QED
    BY <2>6, <2>7 DEF ThreadFits
\* The tab whose message it was goes on where it was.
<1>7. ThreadFits(s)'
  <2>1. PICK due \in Messages \cup {NoMessage} :
            DueFits(s, due) /\ Runs(Summary(s, due), todo[s])
    BY <1>3 DEF CInv, ThreadFits, Follows
  <2>2. Summary(s, due)' = Summary(s, due)
    BY <1>3, <1>5 DEF Summary, Serves
  <2>3. DueFits(s, due)'
    BY <1>2, <1>3, <1>4, <1>5, <2>1 DEF DueFits, NoMessage, Families
  <2>4. Follows(s)'
    BY <1>2, <2>1, <2>2, <2>3 DEF Follows
  <2>5. CallFits(s)'
    BY <1>3, <1>5 DEF CallFits, CInv, ThreadFits
  <2>6. MessageFits(s)'
    BY <1>3, <1>4 DEF MessageFits
  <2> QED
    BY <2>4, <2>5, <2>6 DEF ThreadFits
<1>8. ASSUME NEW u \in Threads, u # ui
      PROVE  ThreadFits(u)'
  <2>1. CASE u = s
    BY <1>7, <2>1
  <2>2. CASE u # s
    <3>1. Untouched(u)
      BY <1>0, <1>2, <1>4, <1>5, <1>8, <2>2 DEF Untouched, Serves
    <3>2. IInv /\ ThreadFits(u)
      BY DEF CInv
    <3> QED
      BY <3>1, <3>2, UntouchedFits
  <2> QED
    BY <2>1, <2>2
<1>9. Globals'
  <2>1. SectionUnderManager'
    BY <1>2, LocksStay DEF SectionUnderManager, CInv, Globals
  <2>2. message' \in [Threads -> Messages \cup {NoMessage}]
    BY <1>2, <1>3 DEF CInv, Globals, LTypeOK
  <2> QED
    BY <1>2, <2>1, <2>2 DEF Globals, CInv, LTypeOK, ServedWaits, OnePanePerFamily,
       OneSitePerScript
<1> QED
    BY <1>6, <1>8, <1>9 DEF CInv

----------------------------------------------------------------------------
\* A thread that hibernates does not own what it hibernates for: it fell asleep
\* because another owned it, and becomes the owner when it wakes up for good.
LEMMA InitAsleep == Init => AsleepOwnsNot
BY DEF Init, AsleepOwnsNot, WaitsFor, NoCall

\* Every step of the manager keeps that, whoever makes it.
LEMMA NextAsleep == IInv /\ AsleepOwnsNot /\ [Next]_vars => AsleepOwnsNot'
<1> SUFFICES ASSUME IInv, AsleepOwnsNot, [Next]_vars, NEW u \in Threads, NEW q \in Resources,
                    WaitsFor(u, q)', Owns(u, q)'
             PROVE  FALSE
    BY DEF AsleepOwnsNot
<1> USE DEF manager
<1>0. TypeOK
    BY DEF IInv
\* A step that only gives resources up, or leaves the owners alone, wakes nobody.
<1>1. ASSUME call'[u] = call[u], Owns(u, q)' => Owns(u, q)
      PROVE  FALSE
    BY <1>1 DEF AsleepOwnsNot, WaitsFor
<1>2. CASE UNCHANGED vars
    BY <1>1, <1>2 DEF vars, clients, Owns
<1>3. ASSUME NEW t \in Threads, AcquireStep(t)
      PROVE  FALSE
  <2>1. ASSUME AcquireReturns(t), u = t
        PROVE  FALSE
    <3>1. call'[t].asleep = FALSE
      BY <1>0, <2>1 DEF AcquireReturns, TypeOK, NoCall
    <3> QED
      BY <2>1, <3>1 DEF WaitsFor
  <2>2. ASSUME NEW r \in Resources, NEW n, SetCount(t, r, n), AcquireReturns(t), u # t
        PROVE  FALSE
    <3>1. call'[u] = call[u]
      BY <1>0, <2>2 DEF AcquireReturns, TypeOK
    <3>2. Owns(u, q)' => Owns(u, q)
      BY <1>0, <2>2 DEF SetCount, Owns, TypeOK
    <3> QED
      BY <1>1, <3>1, <3>2
  <2>3. CASE AcquireFree(t)
    BY <2>1, <2>2, <2>3 DEF AcquireFree, BecomeOwner
  <2>4. CASE AcquireOwned(t)
    BY <2>1, <2>2, <2>4 DEF AcquireOwned
  <2>5. CASE Hibernate(t)
    <3>1. PICK r \in Resources :
              /\ ~Owns(t, r) /\ UNCHANGED m_Ownership
              /\ call' = [call EXCEPT ![t] = [rid |-> r, left |-> @.left, asleep |-> TRUE]]
      BY <2>5 DEF Hibernate
    <3>2. CASE u = t
      BY <1>0, <3>1, <3>2 DEF WaitsFor, Owns, TypeOK
    <3>3. CASE u # t
      BY <1>0, <1>1, <3>1, <3>3 DEF Owns, TypeOK
    <3> QED
      BY <3>2, <3>3
  <2>6. CASE WakeAndOwn(t)
    BY <2>1, <2>2, <2>6 DEF WakeAndOwn, BecomeOwner
  <2>7. CASE WakeAndStarve(t)
    BY <1>1, <2>7 DEF WakeAndStarve, Owns
  <2> QED
    BY <1>3, <2>3, <2>4, <2>5, <2>6, <2>7 DEF AcquireStep, Wake
<1>4. ASSUME NEW t \in Threads, NEW r \in Resources,
             \/ Lock(t, r) \/ Relock(t, r) \/ ReleaseNested(t, r)
             \/ ReleaseLast(t, r) \/ ReleaseAll(t, r)
      PROVE  FALSE
  <2>1. CASE Lock(t, r) \/ Relock(t, r)
    <3>1. UNCHANGED m_Ownership
      BY <2>1 DEF Lock, Relock
    <3>2. CASE u = t
      <4>1. call'[t].asleep = FALSE
        BY <1>0, <2>1 DEF Lock, Relock, TypeOK
      <4> QED
        BY <3>2, <4>1 DEF WaitsFor
    <3>3. CASE u # t
      <4>1. call'[u] = call[u]
        BY <1>0, <2>1, <3>3 DEF Lock, Relock, TypeOK
      <4> QED
        BY <1>1, <3>1, <4>1 DEF Owns
    <3> QED
      BY <3>2, <3>3
  <2>2. CASE ReleaseNested(t, r)
    <3>1. Owns(t, r)
      BY <2>2, GuardMeansOwner DEF ReleaseNested
    <3>2. call' = call /\ (Owns(u, q)' => Owns(u, q))
      BY <1>0, <2>2, <3>1 DEF ReleaseNested, SetCount, Owns, TypeOK
    <3> QED
      BY <1>1, <3>2
  <2>3. CASE ReleaseLast(t, r) \/ ReleaseAll(t, r)
    <3>1. call' = call
      BY <2>3 DEF ReleaseLast, ReleaseAll
    <3>2. GiveUp(t, r)
      BY <2>3 DEF ReleaseLast, ReleaseAll
    <3>3. Owns(u, q)' => Owns(u, q)
      <4>1. m_Ownership' = [m_Ownership EXCEPT ![r] = Unowned]
        BY <3>2 DEF GiveUp
      <4>2. q = r => m_Ownership'[q].thread = NoThread
        BY <1>0, <4>1 DEF TypeOK, Unowned
      <4>3. q # r => m_Ownership'[q] = m_Ownership[q]
        BY <1>0, <4>1 DEF TypeOK
      <4> QED
        BY <4>2, <4>3, ThreadsAssumption DEF Owns
    <3> QED
      BY <1>1, <3>1, <3>3
  <2> QED
    BY <1>4, <2>1, <2>2, <2>3
<1> QED
    BY <1>2, <1>3, <1>4 DEF Next, ClientStep

----------------------------------------------------------------------------
\* At first every thread is at rest.
LEMMA InitCInv == LInit => CInv
<1> SUFFICES ASSUME LInit PROVE CInv
    OBVIOUS
<1>1. IInv /\ AsleepOwnsNot
    BY InitIInv, InitAsleep DEF LInit
<1>2. LTypeOK
    BY DEF LInit, LTypeOK
<1>3. todo \in [Threads -> Seq(Steps)]
    BY DEF LInit
<1>4. ServedWaits /\ SectionUnderManager /\ OnePanePerFamily /\ OneSitePerScript
    BY ThreadsAssumption
       DEF LInit, ServedWaits, SectionUnderManager, OnePanePerFamily, OneSitePerScript,
           Unowned, Tabs
<1>5. ASSUME NEW t \in Threads
      PROVE  ThreadFits(t)
  <2>1. Idle(t) /\ message[t] = NoMessage
    BY DEF LInit, Init, Idle, NoCall
  <2>2. Inside(t) = 0
    BY <1>5, ThreadsAssumption DEF LInit, Inside, Unowned
  <2>3. Resting(Summary(t, NoMessage))
    BY <2>2 DEF Resting, Summary, Nothing, LInit, Init
  <2>4. todo[t] = <<>>
    BY DEF LInit
  <2>5. Runs(Summary(t, NoMessage), todo[t])
    BY <2>3, <2>4, RunsRest
  <2>6. DueFits(t, NoMessage)
    BY DEF DueFits, NoMessage, Families
  <2> QED
    BY <2>1, <2>5, <2>6 DEF ThreadFits, Follows, CallFits, MessageFits
<1> QED
    BY <1>1, <1>2, <1>3, <1>4, <1>5 DEF CInv, Globals

\* Nothing happens.
LEMMA StutterCInv ==
    ASSUME CInv, UNCHANGED allVars
    PROVE  CInv'
<1>1. UNCHANGED locks /\ UNCHANGED traffic
    BY DEF allVars
<1>2. IInv' /\ AsleepOwnsNot'
    BY <1>1, LocksUnchanged, NextIInv, NextAsleep DEF CInv
<1>3. Globals'
    BY <1>1, LocksStay
       DEF CInv, Globals, traffic, LTypeOK, ServedWaits, SectionUnderManager,
           OnePanePerFamily, OneSitePerScript
<1>4. ASSUME NEW t \in Threads
      PROVE  Untouched(t)
    BY <1>1, LocksStay DEF Untouched, traffic, Inside, Serves
<1> QED
    BY <1>2, <1>3, <1>4, UntouchedFits DEF CInv

\* Every step keeps the invariant of the clients.
LEMMA NextCInv == CInv /\ [LNext]_allVars => CInv'
<1> SUFFICES ASSUME CInv, [LNext]_allVars PROVE CInv'
    OBVIOUS
<1>1. IInv' /\ AsleepOwnsNot'
    BY StepIsLockStep, NextIInv, NextAsleep DEF CInv
<1>2. ASSUME NEW t \in Threads, ThreadStep(t)
      PROVE  CInv'
  <2>1. LockStep(t) \/ EnterStep(t) \/ LeaveStep(t)
    BY <1>2 DEF ThreadStep, LockStep
  <2> QED
    BY <1>1, <2>1, LockStepKeeps, EnterKeeps, LeaveKeeps
<1>3. ASSUME NEW t \in Tabs, TabStep(t)
      PROVE  CInv'
  <2>1. CASE OnSetSite(t) \/ OnClearSite(t) \/ OnEvent(t)
    BY <1>1, <2>1, EventKeeps
  <2>2. CASE LookupStep(t)
    BY <1>1, <2>2, LookupKeeps
  <2>3. CASE RemoveStep(t)
    BY <1>1, <2>3, RemoveKeeps
  <2>4. CASE FindSiteStep(t)
    BY <1>1, <2>4, FindSiteKeeps
  <2>5. CASE AddSiteStep(t)
    BY <1>1, <2>5, AddSiteKeeps
  <2>6. CASE SendStep(t)
    BY <1>1, <2>6, SendKeeps
  <2> QED
    BY <1>3, <2>1, <2>2, <2>3, <2>4, <2>5, <2>6 DEF TabStep
<1>4. CASE Receive
    BY <1>1, <1>4, ReceiveKeeps
<1>5. CASE InsertStep
    BY <1>1, <1>5, InsertKeeps
<1>6. CASE Reply
    BY <1>1, <1>6, ReplyKeeps
<1>7. CASE UNCHANGED allVars
    BY <1>7, StutterCInv
<1> QED
    BY <1>2, <1>3, <1>4, <1>5, <1>6, <1>7 DEF LNext

\* The inductive invariant holds among any number of tabs and resources.
THEOREM ClientInvariance == LSpec => []CInv
BY InitCInv, NextCInv, PTL DEF LSpec

\* The state of the clients has its type: m_CS is nested at most twice, and windows
\* and messages are of tabs.
THEOREM ClientTypeCorrect == LSpec => []LTypeOK
<1>1. CInv => LTypeOK
    BY DEF CInv, Globals
<1> QED
    BY <1>1, ClientInvariance, PTL

\* A tab is inside m_CS only as the owner of the window manager, however Create*Window
\* gives it up and takes it back, and however many tabs there are.
THEOREM TabInsideOwnsManager == LSpec => []SectionUnderManager
<1>1. CInv => SectionUnderManager
    BY DEF CInv, Globals
<1> QED
    BY <1>1, ClientInvariance, PTL

\* A tab has at most one window of a family, although the window manager is unlocked
\* between Get*Window and the insertion by the UI thread.
THEOREM OnePaneForTab == LSpec => []OnePanePerFamily
<1>1. CInv => OnePanePerFamily
    BY DEF CInv, Globals
<1> QED
    BY <1>1, ClientInvariance, PTL

\* One CScriptSiteInfo is made for a script, although the debugger is unlocked
\* between the lookup and the insertion.
THEOREM OneSiteForScript == LSpec => []OneSitePerScript
<1>1. CInv => OneSitePerScript
    BY DEF CInv, Globals
<1> QED
    BY <1>1, ClientInvariance, PTL

----------------------------------------------------------------------------
\* A thread owns only what it has a guard of.
LEMMA OwnsOnlyKept ==
    ASSUME IInv, NEW t \in Threads, NEW r \in Resources, Owns(t, r)
    PROVE  r \in Kept(t)
<1>1. depth[t][r] > saved[t][r] + Outstanding(t, r)
    BY GuardsOfOwners DEF OwnersHaveGuards
<1>2. depth[t][r] \in Nat /\ saved[t][r] \in Nat /\ Outstanding(t, r) \in Nat
    BY Bounded, BoundsAssumption DEF IInv
<1> QED
    BY <1>1, <1>2 DEF Kept

\* A thread that hibernates is inside Acquire.
LEMMA WaitsInside ==
    ASSUME NEW t \in Threads, NEW r \in Resources, WaitsFor(t, r)
    PROVE  ~Idle(t) /\ call[t].rid = r
<1>1. call[t].rid = r /\ r # SR_LAST
    BY NoCallId DEF WaitsFor
<1> QED
    BY <1>1 DEF Idle, NoCall

\* A tab asks above all it owns, and owns nothing then that a handler of the UI
\* thread locks but the window manager.
LEMMA TabWaitsInOrder ==
    ASSUME CInv, NEW t \in Tabs, NEW r \in Resources, WaitsFor(t, r),
           NEW q \in Resources, Owns(t, q)
    PROVE  q < r /\ q \in KeptWaiting
<1>1. t \in Threads /\ t # UIThread /\ IInv
    BY DEF Tabs, CInv
<1>2. InOrder(Kept(t), r)
    BY <1>1, WaitsInside DEF CInv, ThreadFits, CallFits
<1>3. q \in Kept(t)
    BY <1>1, OwnsOnlyKept
<1>4. q # r
    BY <1>1 DEF CInv, AsleepOwnsNot
<1> QED
    BY <1>2, <1>3, <1>4 DEF InOrder

\* A tab about to enter m_CS owns the window manager, and not what the UI thread
\* may ask for inside.
LEMMA TabEnters ==
    ASSUME CInv, NEW t \in Tabs, Doing(t, "enter")
    PROVE  Owns(t, SR_WINDOWMANAGER) /\ Kept(t) \cap GivenUp = {}
<1>1. t \in Threads /\ t # UIThread /\ IInv /\ Idle(t) /\ todo[t] # <<>>
    BY DEF Tabs, CInv, Doing, Ready
<1>2. PICK due \in Messages \cup {NoMessage} :
          DueFits(t, due) /\ Runs(Summary(t, due), todo[t])
    BY <1>1 DEF CInv, ThreadFits, Follows
<1>3. Ok(Head(todo[t]), Summary(t, due))
    BY <1>1, <1>2, Advanced
<1>4. InForce(Summary(t, due)) = Kept(t)
    BY <1>1, SummaryType DEF CInv, Globals
<1>5. Head(todo[t]).do = "enter" /\ Summary(t, due).thread = t
    BY DEF Doing, Summary
<1>6. SR_WINDOWMANAGER \in Kept(t) /\ Kept(t) \cap GivenUp = {}
    BY <1>1, <1>3, <1>4, <1>5 DEF Ok, TabOk
<1> QED
    BY <1>1, <1>6, IdleOwner

\* The thread inside m_CS is some way into it.
LEMMA InSectionIsInside ==
    ASSUME LTypeOK, NEW t \in Threads, section.thread = t
    PROVE  Inside(t) # 0
BY ThreadsAssumption DEF LTypeOK, Inside, Unowned

\* A tab inside m_CS waits for nobody.
LEMMA InsideRuns ==
    ASSUME CInv, NEW t \in Tabs, section.thread = t, NEW u \in Threads
    PROVE  ~WaitsForThread(t, u)
<1>1. t \in Threads /\ t # UIThread /\ ThreadFits(t) /\ Inside(t) # 0
    BY InSectionIsInside DEF Tabs, CInv, Globals
<1>2. \A r \in Resources : ~WaitsFor(t, r)
    BY <1>1, WaitsInside DEF ThreadFits, CallFits
<1>3. message[t] = NoMessage
    BY <1>1 DEF ThreadFits, MessageFits
<1> QED
    BY <1>2, <1>3 DEF WaitsForThread

\* A resource has one owner.
LEMMA OneOwner ==
    ASSUME NEW t, NEW u, NEW r, Owns(t, r), Owns(u, r)
    PROVE  t = u
BY DEF Owns

\* Tabs alone do not block each other: m_CS is entered by owners of the window
\* manager only, so they could wait for resources only, and do so in order.
LEMMA TabsAloneRun ==
    ASSUME CInv, NEW S \in SUBSET Tabs
    PROVE  ~Deadlocked(S)
<1> SUFFICES ASSUME Deadlocked(S) PROVE FALSE
    OBVIOUS
<1>0. IInv /\ S \subseteq Threads
    BY DEF CInv, Tabs
<1>1. ASSUME NEW t \in S
      PROVE  \E r \in Resources, u \in S : WaitsFor(t, r) /\ Owns(u, r)
  <2>1. PICK u \in S : WaitsForThread(t, u)
    BY DEF Deadlocked
  <2>2. u # UIThread
    BY DEF Tabs
  <2>3. ~(Doing(t, "enter") /\ section.thread = u /\ u # t)
    <3>1. section.thread = u => Owns(u, SR_WINDOWMANAGER)
      BY DEF CInv, Globals, SectionUnderManager
    <3> QED
      BY <3>1, TabEnters, OneOwner
  <2> QED
    BY <2>1, <2>2, <2>3 DEF WaitsForThread
<1>2. CircularWait(S)
    BY <1>1 DEF CircularWait, Deadlocked
<1>3. ASSUME NEW t \in S, NEW r \in Resources, WaitsFor(t, r), NEW q \in m_Resources[t]
      PROVE  q < r
  <2>1. q \in Resources /\ Owns(t, q)
    BY <1>0 DEF IInv, TypeOK, ResourcesMatchOwnership
  <2> QED
    BY <1>3, <2>1, TabWaitsInOrder
<1> QED
    BY <1>0, <1>2, <1>3, NoCircleAmongOrdered

\* The UI thread never waits for m_CS itself in a deadlock, since a tab inside runs
\* on; of what it may ask for, a tab that waits keeps only the window manager.
LEMMA DeadlockInSection == CInv => DeadlockNeedsSection
<1> SUFFICES ASSUME CInv, NEW S \in SUBSET Threads, Deadlocked(S)
             PROVE  /\ UIThread \in S
                    /\ section.thread = UIThread
                    /\ WaitsFor(UIThread, SR_WINDOWMANAGER)
    BY DEF DeadlockNeedsSection
<1>0. IInv /\ LTypeOK /\ ThreadFits(UIThread) /\ UIThread \in Threads
    BY UIThreadAssumption DEF CInv, Globals
<1>1. UIThread \in S
    BY TabsAloneRun DEF Tabs
<1>2. PICK u \in S : WaitsForThread(UIThread, u)
    BY <1>1 DEF Deadlocked
<1>3. PICK v \in S : WaitsForThread(u, v)
    BY DEF Deadlocked
<1>4. message[UIThread] = NoMessage
    BY <1>0 DEF ThreadFits, MessageFits
<1>5. ~(section.thread = u /\ u # UIThread)
    BY <1>3, InsideRuns DEF Tabs
<1>6. PICK r \in Resources : WaitsFor(UIThread, r) /\ Owns(u, r)
    BY <1>2, <1>4, <1>5 DEF WaitsForThread
<1>7. u \in Tabs /\ r \in Kept(u)
  <2>1. u # UIThread
    BY <1>0, <1>6 DEF CInv, AsleepOwnsNot
  <2> QED
    BY <1>0, <1>6, <2>1, OwnsOnlyKept DEF Tabs
<1>8. /\ r \in Needs(Serves(UIThread))
      /\ Inside(UIThread) > 0 \/ r = SR_SCRIPTDEBUGGER
    BY <1>0, <1>6, WaitsInside DEF ThreadFits, CallFits
<1>9. r \notin GivenUp
  <2>1. CASE \E q \in Resources : WaitsFor(u, q)
    <3>1. r \in KeptWaiting
      BY <1>6, <1>7, <2>1, TabWaitsInOrder
    <3> QED
      BY <3>1 DEF KeptWaiting, GivenUp, SR_SCRIPTMANAGER, SR_SCRIPTINSTANCEMANAGER,
                  SR_WINDOWMANAGER, SR_BROWSERMANAGER, SR_SCRIPTDEBUGGER
  <2>2. CASE Doing(u, "enter")
    BY <1>7, <2>2, TabEnters
  <2>3. CASE message[u] # NoMessage
    <3>1. MessageFits(u)
      BY <1>7 DEF CInv, ThreadFits, Tabs
    <3> QED
      BY <1>7, <2>3, <3>1 DEF MessageFits
  <2> QED
    BY <1>3, <2>1, <2>2, <2>3 DEF WaitsForThread
<1>10. r = SR_WINDOWMANAGER
    BY <1>8, <1>9 DEF Needs, GivenUp
<1>11. Inside(UIThread) # 0
  <2>1. SR_WINDOWMANAGER # SR_SCRIPTDEBUGGER
    BY DEF SR_WINDOWMANAGER, SR_SCRIPTDEBUGGER
  <2> QED
    BY <1>8, <1>10, <2>1
<1> QED
    BY <1>0, <1>1, <1>6, <1>10, <1>11, InsideIsOwner

\* A tab that waits for a reply is outside of m_CS and has no guard of what the
\* handler of its message locks.
LEMMA SenderReleases == CInv => SenderReleasesForHandler
<1> SUFFICES ASSUME CInv, serving # NoThread, WaitsForThread(UIThread, serving)
             PROVE  FALSE
    BY DEF SenderReleasesForHandler
<1>1. IInv /\ LTypeOK /\ serving \in Tabs /\ serving \in Threads /\ UIThread \in Threads
    BY UIThreadAssumption DEF CInv, Globals, LTypeOK, Tabs
<1>2. MessageFits(serving) /\ message[serving] # NoMessage
    BY <1>1 DEF CInv, Globals, ServedWaits, ThreadFits
<1>3. Inside(serving) = 0 /\ Kept(serving) \cap Needs(message[serving]) = {}
    BY <1>2 DEF MessageFits
<1>4. ThreadFits(UIThread)
    BY <1>1 DEF CInv
<1>5. ASSUME NEW r \in Resources, WaitsFor(UIThread, r), Owns(serving, r)
      PROVE  FALSE
  <2>1. r \in Needs(message[serving])
    BY <1>1, <1>4, <1>5, WaitsInside DEF ThreadFits, CallFits, Serves
  <2> QED
    BY <1>1, <1>3, <1>5, <2>1, OwnsOnlyKept
<1>6. section.thread # serving
    BY <1>1, <1>3, InSectionIsInside
<1>7. message[UIThread] = NoMessage
    BY <1>4 DEF ThreadFits, MessageFits
<1> QED
    BY <1>5, <1>6, <1>7 DEF WaitsForThread

\* However many tabs there are, whatever they run: threads are deadlocked only with
\* the UI thread among them, inside m_CS, hibernating for WINDOWMANAGER.
THEOREM OnlySectionDeadlocks == LSpec => []DeadlockNeedsSection
BY ClientInvariance, DeadlockInSection, PTL

\* The handler of a message never waits for a resource of the tab that sent it, nor
\* for m_CS with that tab inside.
THEOREM SenderReleasesAlways == LSpec => []SenderReleasesForHandler
BY ClientInvariance, SenderReleases, PTL
=============================================================================
