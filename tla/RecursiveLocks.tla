--------------------------- MODULE RecursiveLocks ---------------------------
(***************************************************************************)
(* What the lock manager promises the callers of its guards: a recursive   *)
(* lock per resource, held by at most one thread at a time; a holder that  *)
(* gives the lock up for a while gets it back, later, as deep as it was.   *)
(* Nothing is said here of counters, critical sections or hibernation.     *)
(***************************************************************************)
EXTENDS Naturals

CONSTANTS
    Threads,
    Resources

VARIABLES
    held,       \* thread, resource -> how deep the thread holds it
    asked,      \* thread, resource -> how deep it wants to hold it, blocked
    suspended   \* thread, resource -> how deep it gave it up

vars == <<held, asked, suspended>>

None == [t \in Threads |-> [r \in Resources |-> 0]]

Init == held = None /\ asked = None /\ suspended = None

\* A thread that does not hold r wants it, and blocks.
Ask(t, r) ==
    /\ held[t][r] = 0 /\ asked[t][r] = 0
    /\ asked' = [asked EXCEPT ![t][r] = 1]
    /\ UNCHANGED <<held, suspended>>

\* It wants back what it gave up.
Resume(t, r) ==
    /\ held[t][r] = 0 /\ asked[t][r] = 0 /\ suspended[t][r] > 0
    /\ asked' = [asked EXCEPT ![t][r] = suspended[t][r]]
    /\ suspended' = [suspended EXCEPT ![t][r] = 0]
    /\ UNCHANGED held

\* It gets all it asked for at once, when nobody holds r.
Grant(t, r) ==
    /\ asked[t][r] > 0
    /\ \A u \in Threads : held[u][r] = 0
    /\ held' = [held EXCEPT ![t][r] = asked[t][r]]
    /\ asked' = [asked EXCEPT ![t][r] = 0]
    /\ UNCHANGED suspended

Reenter(t, r) ==
    /\ held[t][r] > 0
    /\ held' = [held EXCEPT ![t][r] = @ + 1]
    /\ UNCHANGED <<asked, suspended>>

Leave(t, r) ==
    /\ held[t][r] > 0
    /\ held' = [held EXCEPT ![t][r] = @ - 1]
    /\ UNCHANGED <<asked, suspended>>

Suspend(t, r) ==
    /\ held[t][r] > 0 /\ suspended[t][r] = 0
    /\ suspended' = [suspended EXCEPT ![t][r] = held[t][r]]
    /\ held' = [held EXCEPT ![t][r] = 0]
    /\ UNCHANGED asked

Next ==
    \E t \in Threads, r \in Resources :
        \/ Ask(t, r)
        \/ Resume(t, r)
        \/ Grant(t, r)
        \/ Reenter(t, r)
        \/ Leave(t, r)
        \/ Suspend(t, r)

Spec == Init /\ [][Next]_vars
=============================================================================
