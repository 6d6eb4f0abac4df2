-------------------------- MODULE FrameTableProofs --------------------------
(***************************************************************************)
(* Theorems about FrameTable, for every set of documents, number of frame  *)
(* ids and depth of nested scripts.                                        *)
(*                                                                         *)
(* The steps left to the handlers are a sequence, and a step of the tab    *)
(* replaces its head, or puts other steps before it.  So the lemmas about  *)
(* sequences come first: what holds of the steps behind goes on to hold.   *)
(***************************************************************************)
EXTENDS FrameTable, SequenceTheorems, TLAPS

\* The steps on documents of D, with frame ids up to n.
StepsOf(D, n) ==
    [do : {"create"}, doc : D] \cup [do : {"insert"}, doc : D, id : 1 .. n]
      \cup [do : {"missing"}, docs : SUBSET D]
      \cup [do : {"setup", "create top", "update links"}]

IsInsert(step) == step.do = "insert"

\* The ids of the insertions in s differ from each other and are not in T.
Apart(s) ==
    \A i, j \in DOMAIN s :
        IsInsert(s[i]) /\ IsInsert(s[j]) /\ s[i].id = s[j].id => i = j
Outside(s, T) == \A i \in DOMAIN s : IsInsert(s[i]) => s[i].id \notin T

\* A step after which d is managed.
Covers(step, d) ==
    \/ step.do \in {"create", "insert"} /\ step.doc = d
    \/ step.do = "missing" /\ d \in step.docs
    \/ step.do = "create top" /\ IsTop(d)

IsUpdate(step) == step.do = "update links"

\* The first update of the links in s belongs to the handler of its first step: no
\* script is under way between them.
Near(s) ==
    \A m \in DOMAIN s : IsUpdate(s[m]) =>
        \E n \in DOMAIN s :
            /\ n <= m /\ IsUpdate(s[n])
            /\ \A i \in DOMAIN s : i < n => ~IsInsert(s[i])

\* Such a step comes before each update of the links, and one handler has it and
\* an update to do: it cannot end by an exception and leave the update to another.
Awaited(s, d) ==
    \A m \in DOMAIN s : IsUpdate(s[m]) =>
        \E n, j \in DOMAIN s :
            /\ n <= m /\ IsUpdate(s[n])
            /\ j < n /\ Covers(s[j], d)
            /\ \A i \in DOMAIN s : j < i /\ i < n => ~IsInsert(s[i])

----------------------------------------------------------------------------
\* The positions of pre \o s, for a pre of one step.
LEMMA Pushed ==
    ASSUME NEW S, NEW s \in Seq(S), NEW a \in S
    PROVE  /\ <<a>> \o s \in Seq(S)
           /\ DOMAIN (<<a>> \o s) = 1 .. Len(s) + 1
           /\ DOMAIN s = 1 .. Len(s)
           /\ Len(s) \in Nat
           /\ (<<a>> \o s)[1] = a
           /\ \A i \in 1 .. Len(s) : (<<a>> \o s)[i + 1] = s[i]
  <1>1. <<a>> \in Seq(S) /\ Len(<<a>>) = 1 /\ <<a>>[1] = a
    OBVIOUS
  <1>2. Len(s) \in Nat /\ DOMAIN s = 1 .. Len(s)
    BY LenProperties
  <1>3. /\ <<a>> \o s \in Seq(S)
        /\ Len(<<a>> \o s) = 1 + Len(s)
        /\ \A i \in 1 .. 1 + Len(s) : (<<a>> \o s)[i] =
              IF i <= 1 THEN <<a>>[i] ELSE s[i - 1]
    BY <1>1, ConcatProperties
  <1>4. DOMAIN (<<a>> \o s) = 1 .. Len(s) + 1
    BY <1>2, <1>3, LenProperties
  <1>5. \A i \in 1 .. Len(s) : (<<a>> \o s)[i + 1] = s[i]
    BY <1>2, <1>3
  <1> QED
    BY <1>1, <1>2, <1>3, <1>4, <1>5

\* A sequence that is not empty is its head before its tail.
LEMMA Popped ==
    ASSUME NEW S, NEW s \in Seq(S), s # <<>>
    PROVE  Head(s) \in S /\ Tail(s) \in Seq(S) /\ s = <<Head(s)>> \o Tail(s)
  <1>1. /\ Head(s) \in S /\ Tail(s) \in Seq(S)
        /\ Len(Tail(s)) = Len(s) - 1
        /\ \A i \in 1 .. Len(Tail(s)) : Tail(s)[i] = s[i + 1]
    BY HeadTailProperties
  <1>2. Len(s) \in Nat \ {0} /\ Head(s) = s[1]
    BY LenProperties, EmptySeq
  <1> DEFINE t == <<Head(s)>> \o Tail(s)
  <1>3. /\ t \in Seq(S)
        /\ DOMAIN t = 1 .. Len(Tail(s)) + 1
        /\ t[1] = Head(s)
        /\ \A i \in 1 .. Len(Tail(s)) : t[i + 1] = Tail(s)[i]
    BY <1>1, Pushed
  <1>4. Len(t) = Len(s)
    <2>1. Len(t) \in Nat /\ DOMAIN t = 1 .. Len(t)
      BY <1>3, LenProperties
    <2> QED
      BY <2>1, <1>1, <1>2, <1>3
  <1>5. \A i \in 1 .. Len(s) : s[i] = t[i]
    <2> SUFFICES ASSUME NEW i \in 1 .. Len(s) PROVE s[i] = t[i]
      OBVIOUS
    <2>1. CASE i = 1
      BY <2>1, <1>2, <1>3
    <2>2. CASE i # 1
      <3>1. i - 1 \in 1 .. Len(Tail(s)) /\ (i - 1) + 1 = i
        BY <2>2, <1>1, <1>2
      <3> QED
        BY <3>1, <1>1, <1>3
    <2> QED
      BY <2>1, <2>2
  <1> HIDE DEF t
  <1>6. s = t
    BY <1>3, <1>4, <1>5, SeqEqual
  <1> QED
    BY <1>1, <1>6 DEF t

\* What holds of a sequence, by its first step and the others.
LEMMA ApartPushed ==
    ASSUME NEW S, NEW s \in Seq(S), NEW a \in S
    PROVE  Apart(<<a>> \o s) <=> Apart(s) /\ (IsInsert(a) => Outside(s, {a.id}))
  <1> DEFINE t == <<a>> \o s
  <1>1. /\ DOMAIN t = 1 .. Len(s) + 1
        /\ DOMAIN s = 1 .. Len(s)
        /\ Len(s) \in Nat
        /\ t[1] = a
        /\ \A i \in 1 .. Len(s) : t[i + 1] = s[i]
    BY Pushed
  <1> HIDE DEF t
  <1>2. /\ 1 \in DOMAIN t
        /\ \A i \in DOMAIN s : i + 1 \in DOMAIN t /\ t[i + 1] = s[i] /\ i + 1 # 1
    BY <1>1
  <1>3. \A i \in DOMAIN t : i = 1 \/ (i - 1 \in DOMAIN s /\ t[i] = s[i - 1])
    <2> SUFFICES ASSUME NEW i \in DOMAIN t, i # 1
                 PROVE  i - 1 \in DOMAIN s /\ t[i] = s[i - 1]
      OBVIOUS
    <2>1. i - 1 \in 1 .. Len(s) /\ (i - 1) + 1 = i
      BY <1>1
    <2> QED
      BY <2>1, <1>1
  <1>4. \A i, j \in DOMAIN t : i - 1 = j - 1 => i = j
    BY <1>1
  <1>5. \A i, j \in DOMAIN s : i + 1 = j + 1 => i = j
    BY <1>1
  <1>6. ASSUME Apart(s), IsInsert(a) => Outside(s, {a.id}) PROVE Apart(t)
    <2> SUFFICES ASSUME NEW i \in DOMAIN t, NEW j \in DOMAIN t,
                        IsInsert(t[i]), IsInsert(t[j]), t[i].id = t[j].id
                 PROVE  i = j
      BY DEF Apart
    <2>1. CASE i = 1 \/ j = 1
      BY <2>1, <1>1, <1>3, <1>6 DEF Outside
    <2>2. CASE i # 1 /\ j # 1
      BY <2>2, <1>3, <1>4, <1>6 DEF Apart
    <2> QED
      BY <2>1, <2>2
  <1>7. ASSUME Apart(t) PROVE Apart(s) /\ (IsInsert(a) => Outside(s, {a.id}))
    <2>1. Apart(s)
      BY <1>2, <1>5, <1>7 DEF Apart
    <2>2. ASSUME IsInsert(a) PROVE Outside(s, {a.id})
      BY <2>2, <1>1, <1>2, <1>7 DEF Apart, Outside
    <2> QED
      BY <2>1, <2>2
  <1> QED
    BY <1>6, <1>7 DEF t

\* A step on top of others whose insertions are outside of T.
LEMMA OutsidePushed ==
    ASSUME NEW S, NEW s \in Seq(S), NEW a \in S, NEW T
    PROVE  Outside(<<a>> \o s, T) <=> Outside(s, T) /\ (IsInsert(a) => a.id \notin T)
  <1> DEFINE t == <<a>> \o s
  <1>1. /\ DOMAIN t = 1 .. Len(s) + 1
        /\ DOMAIN s = 1 .. Len(s)
        /\ Len(s) \in Nat
        /\ t[1] = a
        /\ \A i \in 1 .. Len(s) : t[i + 1] = s[i]
    BY Pushed
  <1> HIDE DEF t
  <1>2. 1 \in DOMAIN t /\ \A i \in DOMAIN s : i + 1 \in DOMAIN t /\ t[i + 1] = s[i]
    BY <1>1
  <1>3. \A i \in DOMAIN t : i = 1 \/ (i - 1 \in DOMAIN s /\ t[i] = s[i - 1])
    <2> SUFFICES ASSUME NEW i \in DOMAIN t, i # 1
                 PROVE  i - 1 \in DOMAIN s /\ t[i] = s[i - 1]
      OBVIOUS
    <2>1. i - 1 \in 1 .. Len(s) /\ (i - 1) + 1 = i
      BY <1>1
    <2> QED
      BY <2>1, <1>1
  <1>4. Outside(t, T) => Outside(s, T) /\ (IsInsert(a) => a.id \notin T)
    BY <1>1, <1>2 DEF Outside
  <1>5. Outside(s, T) /\ (IsInsert(a) => a.id \notin T) => Outside(t, T)
    BY <1>1, <1>3 DEF Outside
  <1> QED
    BY <1>4, <1>5 DEF t

\* A step that is no insertion leaves the update of the same handler near.
LEMMA NearPushed ==
    ASSUME NEW S, NEW s \in Seq(S), NEW a \in S, ~IsInsert(a), IsUpdate(a) \/ Near(s)
    PROVE  Near(<<a>> \o s)
  <1> DEFINE t == <<a>> \o s
  <1>1. /\ DOMAIN t = 1 .. Len(s) + 1
        /\ DOMAIN s = 1 .. Len(s)
        /\ Len(s) \in Nat
        /\ t[1] = a
        /\ \A i \in 1 .. Len(s) : t[i + 1] = s[i]
    BY Pushed
  <1> HIDE DEF t
  <1>2. \A i \in DOMAIN t : i = 1 \/ (i - 1 \in DOMAIN s /\ t[i] = s[i - 1] /\ (i - 1) + 1 = i)
    <2> SUFFICES ASSUME NEW i \in DOMAIN t, i # 1
                 PROVE  i - 1 \in DOMAIN s /\ t[i] = s[i - 1] /\ (i - 1) + 1 = i
      OBVIOUS
    <2>1. i - 1 \in 1 .. Len(s) /\ (i - 1) + 1 = i
      BY <1>1
    <2> QED
      BY <2>1, <1>1
  <1> SUFFICES ASSUME NEW m \in DOMAIN t, IsUpdate(t[m])
               PROVE  \E n \in DOMAIN t :
                         /\ n <= m /\ IsUpdate(t[n])
                         /\ \A i \in DOMAIN t : i < n => ~IsInsert(t[i])
    BY DEF Near, t
  <1>3. CASE IsUpdate(a)
    <2>1. 1 \in DOMAIN t /\ 1 <= m /\ \A i \in DOMAIN t : ~(i < 1)
      BY <1>1
    <2> QED
      BY <1>1, <1>3, <2>1
  <1>4. CASE ~IsUpdate(a)
    <2>1. m - 1 \in DOMAIN s /\ IsUpdate(s[m - 1])
      BY <1>1, <1>2, <1>4
    <2>2. PICK n \in DOMAIN s : /\ n <= m - 1 /\ IsUpdate(s[n])
                                /\ \A i \in DOMAIN s : i < n => ~IsInsert(s[i])
      BY <1>4, <2>1 DEF Near
    <2>3. n + 1 \in DOMAIN t /\ t[n + 1] = s[n] /\ n + 1 <= m
      BY <1>1, <2>2
    <2>4. ASSUME NEW i \in DOMAIN t, i < n + 1 PROVE ~IsInsert(t[i])
      <3>1. CASE i = 1
        BY <1>1, <3>1
      <3>2. CASE i # 1
        <4>1. i - 1 \in DOMAIN s /\ t[i] = s[i - 1]
          BY <1>2, <3>2
        <4>2. i - 1 < n
          BY <1>1, <2>4
        <4> QED
          BY <2>2, <4>1, <4>2
      <3> QED
        BY <3>1, <3>2
    <2> QED
      BY <2>2, <2>3, <2>4
  <1> QED
    BY <1>3, <1>4

\* A document awaited below a new step is awaited still, unless that step is an update.
LEMMA AwaitedPushed ==
    ASSUME NEW S, NEW s \in Seq(S), NEW a \in S, NEW d
    PROVE  Awaited(<<a>> \o s, d) <=>
              ~IsUpdate(a) /\ ((Covers(a, d) /\ Near(s)) \/ Awaited(s, d))
  <1> DEFINE t == <<a>> \o s
  <1>1. /\ DOMAIN t = 1 .. Len(s) + 1
        /\ DOMAIN s = 1 .. Len(s)
        /\ Len(s) \in Nat
        /\ t[1] = a
        /\ \A i \in 1 .. Len(s) : t[i + 1] = s[i]
    BY Pushed
  <1> HIDE DEF t
  <1>2. /\ 1 \in DOMAIN t
        /\ \A i \in DOMAIN s : i + 1 \in DOMAIN t /\ t[i + 1] = s[i] /\ 1 < i + 1
        /\ \A i \in DOMAIN t : ~(i < 1)
    BY <1>1
  <1>3. \A i \in DOMAIN t : i = 1 \/ (i - 1 \in DOMAIN s /\ t[i] = s[i - 1] /\ 1 < i)
    <2> SUFFICES ASSUME NEW i \in DOMAIN t, i # 1
                 PROVE  i - 1 \in DOMAIN s /\ t[i] = s[i - 1] /\ 1 < i
      OBVIOUS
    <2>1. i - 1 \in 1 .. Len(s) /\ (i - 1) + 1 = i /\ 1 < i
      BY <1>1
    <2> QED
      BY <2>1, <1>1
  <1>4. ASSUME Awaited(t, d)
        PROVE  ~IsUpdate(a) /\ ((Covers(a, d) /\ Near(s)) \/ Awaited(s, d))
    <2>1. ~IsUpdate(a)
      <3> SUFFICES ASSUME IsUpdate(a) PROVE FALSE
        OBVIOUS
      <3>1. PICK n, j \in DOMAIN t : n <= 1 /\ j < n
        BY <1>1, <1>2, <1>4 DEF Awaited
      <3> QED
        BY <1>1, <3>1
    <2>2. ASSUME ~Awaited(s, d) PROVE Covers(a, d) /\ Near(s)
      <3>1. PICK m \in DOMAIN s :
               /\ IsUpdate(s[m])
               /\ ~ \E n, j \in DOMAIN s :
                       /\ n <= m /\ IsUpdate(s[n])
                       /\ j < n /\ Covers(s[j], d)
                       /\ \A i \in DOMAIN s : j < i /\ i < n => ~IsInsert(s[i])
        BY <2>2 DEF Awaited
      <3>2. PICK n, j \in DOMAIN t :
               /\ n <= m + 1 /\ IsUpdate(t[n])
               /\ j < n /\ Covers(t[j], d)
               /\ \A i \in DOMAIN t : j < i /\ i < n => ~IsInsert(t[i])
        <4>1. m + 1 \in DOMAIN t /\ IsUpdate(t[m + 1])
          BY <1>2, <3>1
        <4> QED
          BY <1>4, <4>1 DEF Awaited
      <3>3. n - 1 \in DOMAIN s /\ t[n] = s[n - 1] /\ n - 1 <= m
        BY <1>1, <1>3, <2>1, <3>2
      <3>4. j = 1
        <4> SUFFICES ASSUME j # 1 PROVE FALSE
          OBVIOUS
        <4>1. j - 1 \in DOMAIN s /\ t[j] = s[j - 1] /\ j - 1 < n - 1
          BY <1>1, <1>3, <3>2
        <4>2. ASSUME NEW i \in DOMAIN s, j - 1 < i, i < n - 1 PROVE ~IsInsert(s[i])
          <5>1. i + 1 \in DOMAIN t /\ t[i + 1] = s[i] /\ j < i + 1 /\ i + 1 < n
            BY <1>1, <1>2, <4>2
          <5> QED
            BY <3>2, <5>1
        <4> QED
          BY <3>1, <3>2, <3>3, <4>1, <4>2
      <3>5. Covers(a, d)
        BY <1>1, <3>2, <3>4
      <3>6. ASSUME NEW i \in DOMAIN s, i < n - 1 PROVE ~IsInsert(s[i])
        <4>1. i + 1 \in DOMAIN t /\ t[i + 1] = s[i] /\ 1 < i + 1 /\ i + 1 < n
          BY <1>1, <1>2, <3>6
        <4> QED
          BY <3>2, <3>4, <4>1
      <3>7. Near(s)
        <4> SUFFICES ASSUME NEW l \in DOMAIN s, IsUpdate(s[l])
                     PROVE  \E k \in DOMAIN s :
                               /\ k <= l /\ IsUpdate(s[k])
                               /\ \A i \in DOMAIN s : i < k => ~IsInsert(s[i])
          BY DEF Near
        <4>1. CASE n - 1 <= l
          BY <3>2, <3>3, <3>6, <4>1
        <4>2. CASE l < n - 1
          <5>1. l <= l /\ \A i \in DOMAIN s : i < l => i < n - 1
            BY <1>1, <3>3, <4>2
          <5> QED
            BY <3>6, <5>1
        <4>3. n - 1 <= l \/ l < n - 1
          BY <1>1, <3>3
        <4> QED
          BY <4>1, <4>2, <4>3
      <3> QED
        BY <3>5, <3>7
    <2> QED
      BY <2>1, <2>2
  <1>5. ASSUME ~IsUpdate(a), (Covers(a, d) /\ Near(s)) \/ Awaited(s, d)
        PROVE  Awaited(t, d)
    <2> SUFFICES ASSUME NEW m \in DOMAIN t, IsUpdate(t[m])
                 PROVE  \E n, j \in DOMAIN t :
                           /\ n <= m /\ IsUpdate(t[n])
                           /\ j < n /\ Covers(t[j], d)
                           /\ \A i \in DOMAIN t : j < i /\ i < n => ~IsInsert(t[i])
      BY DEF Awaited
    <2>1. m - 1 \in DOMAIN s /\ t[m] = s[m - 1] /\ 1 < m
      BY <1>1, <1>3, <1>5
    <2>2. CASE Covers(a, d) /\ Near(s)
      <3>1. PICK n \in DOMAIN s : /\ n <= m - 1 /\ IsUpdate(s[n])
                                  /\ \A i \in DOMAIN s : i < n => ~IsInsert(s[i])
        BY <2>1, <2>2 DEF Near
      <3>2. n + 1 \in DOMAIN t /\ t[n + 1] = s[n] /\ 1 < n + 1 /\ n + 1 <= m
        BY <1>1, <1>2, <3>1
      <3>3. ASSUME NEW i \in DOMAIN t, 1 < i, i < n + 1 PROVE ~IsInsert(t[i])
        <4>1. i - 1 \in DOMAIN s /\ t[i] = s[i - 1] /\ i - 1 < n
          BY <1>1, <1>3, <3>3
        <4> QED
          BY <3>1, <4>1
      <3> QED
        BY <1>1, <1>2, <2>2, <3>1, <3>2, <3>3
    <2>3. CASE Awaited(s, d)
      <3>1. PICK n, j \in DOMAIN s :
               /\ n <= m - 1 /\ IsUpdate(s[n])
               /\ j < n /\ Covers(s[j], d)
               /\ \A i \in DOMAIN s : j < i /\ i < n => ~IsInsert(s[i])
        BY <2>1, <2>3 DEF Awaited
      <3>2. /\ n + 1 \in DOMAIN t /\ t[n + 1] = s[n] /\ n + 1 <= m
            /\ j + 1 \in DOMAIN t /\ t[j + 1] = s[j] /\ j + 1 < n + 1
        BY <1>1, <1>2, <3>1
      <3>3. ASSUME NEW i \in DOMAIN t, j + 1 < i, i < n + 1 PROVE ~IsInsert(t[i])
        <4>1. i - 1 \in DOMAIN s /\ t[i] = s[i - 1] /\ j < i - 1 /\ i - 1 < n
          BY <1>1, <1>3, <3>3
        <4> QED
          BY <3>1, <4>1
      <3> QED
        BY <3>1, <3>2, <3>3
    <2> QED
      BY <2>2, <2>3, <1>5
  <1> QED
    BY <1>4, <1>5 DEF t

\* What holds of a sequence still holds when its first steps are dropped.
LEMMA Dropped ==
    ASSUME NEW S, NEW s \in Seq(S), NEW n \in DOMAIN s
    PROVE  LET t == SubSeq(s, n + 1, Len(s)) IN
           /\ t \in Seq(S)
           /\ \A i \in DOMAIN t : i + n \in DOMAIN s /\ t[i] = s[i + n]
           /\ \A i \in DOMAIN s : n < i => i - n \in DOMAIN t /\ t[i - n] = s[i]
           /\ DOMAIN t \subseteq Nat
           /\ DOMAIN s \subseteq Nat
  <1> DEFINE t == SubSeq(s, n + 1, Len(s))
  <1>1. Len(s) \in Nat /\ DOMAIN s = 1 .. Len(s)
    BY LenProperties
  <1>2. \A i \in n + 1 .. Len(s) : s[i] \in S
    <2> SUFFICES ASSUME NEW i \in n + 1 .. Len(s) PROVE s[i] \in S
      OBVIOUS
    <2>1. i \in 1 .. Len(s)
      BY <1>1
    <2> QED
      BY <2>1, ElementOfSeq
  <1>3. n + 1 \in Int /\ Len(s) \in Int
    BY <1>1
  <1>4. /\ t \in Seq(S)
        /\ Len(t) = IF n + 1 <= Len(s) THEN Len(s) - (n + 1) + 1 ELSE 0
        /\ \A i \in 1 .. Len(s) - (n + 1) + 1 : t[i] = s[(n + 1) + i - 1]
    BY <1>2, <1>3, SubSeqProperties
  <1> HIDE DEF t
  <1>5. Len(t) = Len(s) - n
    BY <1>1, <1>4
  <1>6. DOMAIN t = 1 .. Len(s) - n
    BY <1>4, <1>5, LenProperties
  <1>7. \A i \in DOMAIN t : i + n \in DOMAIN s /\ t[i] = s[i + n]
    <2> SUFFICES ASSUME NEW i \in DOMAIN t PROVE i + n \in DOMAIN s /\ t[i] = s[i + n]
      OBVIOUS
    <2>1. /\ i \in 1 .. Len(s) - (n + 1) + 1
          /\ (n + 1) + i - 1 = i + n
          /\ i + n \in 1 .. Len(s)
      BY <1>1, <1>6
    <2> QED
      BY <1>1, <1>4, <2>1
  <1>8. \A i \in DOMAIN s : n < i => i - n \in DOMAIN t /\ t[i - n] = s[i]
    <2> SUFFICES ASSUME NEW i \in DOMAIN s, n < i
                 PROVE  i - n \in DOMAIN t /\ t[i - n] = s[i]
      OBVIOUS
    <2>1. i - n \in DOMAIN t /\ (i - n) + n = i
      BY <1>1, <1>6
    <2> QED
      BY <1>7, <2>1
  <1>9. DOMAIN t \subseteq Nat /\ DOMAIN s \subseteq Nat
    BY <1>1, <1>6
  <1> QED
    BY <1>4, <1>7, <1>8, <1>9 DEF t

\* Several steps put before others are put there one by one.
LEMMA TwoPushed ==
    ASSUME NEW S, NEW s \in Seq(S), NEW a \in S, NEW b \in S
    PROVE  <<a>> \o <<b>> \o s = <<a>> \o (<<b>> \o s)
  <1>1. <<a>> \in Seq(S) /\ <<b>> \in Seq(S)
    OBVIOUS
  <1> QED
    BY <1>1, ConcatAssociative

\* Three steps are pushed like three times one.
LEMMA ThreePushed ==
    ASSUME NEW S, NEW s \in Seq(S), NEW a \in S, NEW b \in S, NEW c \in S
    PROVE  <<a, b, c>> \o s = <<a>> \o (<<b>> \o (<<c>> \o s))
  <1>1. <<a>> \in Seq(S) /\ <<b>> \in Seq(S) /\ <<c>> \in Seq(S) /\ <<b, c>> \in Seq(S)
    OBVIOUS
  <1>2. <<b, c>> = <<b>> \o <<c>>
    <2> DEFINE t == <<b>> \o <<c>>
    <2>1. /\ Len(<<b>>) = 1 /\ Len(<<c>>) = 1 /\ Len(<<b, c>>) = 2
          /\ <<b>>[1] = b /\ <<c>>[1] = c /\ <<b, c>>[1] = b /\ <<b, c>>[2] = c
      OBVIOUS
    <2>2. /\ t \in Seq(S)
          /\ Len(t) = 1 + 1
          /\ \A i \in 1 .. 1 + 1 : t[i] = IF i <= 1 THEN <<b>>[i] ELSE <<c>>[i - 1]
      BY <1>1, <2>1, ConcatProperties
    <2> HIDE DEF t
    <2>3. \A i \in 1 .. 2 : <<b, c>>[i] = t[i]
      BY <2>1, <2>2
    <2>4. <<b, c>> = t
      BY <1>1, <2>1, <2>2, <2>3, SeqEqual
    <2> QED
      BY <2>4 DEF t
  <1>5. <<a, b, c>> = <<a>> \o <<b, c>>
    <2> DEFINE t == <<a>> \o <<b, c>>
    <2>1. /\ Len(<<a>>) = 1 /\ Len(<<b, c>>) = 2 /\ Len(<<a, b, c>>) = 3
          /\ <<a>>[1] = a /\ <<b, c>>[1] = b /\ <<b, c>>[2] = c
          /\ <<a, b, c>>[1] = a /\ <<a, b, c>>[2] = b /\ <<a, b, c>>[3] = c
          /\ <<a, b, c>> \in Seq(S)
      OBVIOUS
    <2>2. /\ t \in Seq(S)
          /\ Len(t) = 1 + 2
          /\ \A i \in 1 .. 1 + 2 : t[i] = IF i <= 1 THEN <<a>>[i] ELSE <<b, c>>[i - 1]
      BY <1>1, <2>1, ConcatProperties
    <2> HIDE DEF t
    <2>3. \A i \in 1 .. 3 : <<a, b, c>>[i] = t[i]
      BY <2>1, <2>2
    <2>4. <<a, b, c>> = t
      BY <2>1, <2>2, <2>3, SeqEqual
    <2> QED
      BY <2>4 DEF t
  <1>3. <<b, c>> \o s = <<b>> \o (<<c>> \o s)
    BY <1>1, <1>2, ConcatAssociative
  <1>4. (<<a>> \o <<b, c>>) \o s = <<a>> \o (<<b, c>> \o s)
    BY <1>1, ConcatAssociative
  <1> QED
    BY <1>3, <1>4, <1>5

\* No step is pushed.
LEMMA NonePushed ==
    ASSUME NEW S, NEW s \in Seq(S)
    PROVE  <<>> \o s = s
  BY ConcatEmptySeq

----------------------------------------------------------------------------
\* The steps left are on documents that were loaded; the insertions have ids of
\* their own, which were generated and are not in the table.
TodoOK ==
    /\ todo \in Seq(StepsOf(born, m_NextId))
    /\ Apart(todo)
    /\ Outside(todo, DOMAIN table)

\* The inductive invariant.
IInv ==
    /\ TypeOK
    /\ TodoOK
    /\ ManagedHasFrame
    /\ LinksInTable
    /\ LinksFollowTree

\* More documents and more ids are as many steps more.
LEMMA MoreSteps ==
    ASSUME NEW D, NEW E, NEW m \in Nat, NEW n \in Nat, D \subseteq E, m <= n
    PROVE  StepsOf(D, m) \subseteq StepsOf(E, n)
  <1>1. 1 .. m \subseteq 1 .. n
    OBVIOUS
  <1>2. [do : {"insert"}, doc : D, id : 1 .. m] \subseteq
           [do : {"insert"}, doc : E, id : 1 .. n]
    BY <1>1
  <1>3. [do : {"create"}, doc : D] \subseteq [do : {"create"}, doc : E]
    OBVIOUS
  <1>4. [do : {"missing"}, docs : SUBSET D] \subseteq [do : {"missing"}, docs : SUBSET E]
    OBVIOUS
  <1> QED
    BY <1>2, <1>3, <1>4, Zenon DEF StepsOf

\* An id that was not generated yet is not in any step.
LEMMA FreshId ==
    ASSUME NEW D, NEW n \in Nat, NEW s \in Seq(StepsOf(D, n))
    PROVE  Outside(s, {n + 1})
  <1> SUFFICES ASSUME NEW i \in DOMAIN s, IsInsert(s[i]) PROVE s[i].id # n + 1
    BY DEF Outside
  <1>1. s[i] \in StepsOf(D, n)
    BY LenProperties, ElementOfSeq
  <1>2. s[i].id \in 1 .. n
    BY <1>1 DEF StepsOf, IsInsert
  <1> QED
    BY <1>2

\* IE loads documents and drops them: the frames stay what they are.
LEMMA FramesSame ==
    ASSUME TypeOK, ManagedHasFrame, LinksInTable, LinksFollowTree,
           UNCHANGED frames, \A d \in born : parent'[d] = parent[d]
    PROVE  ManagedHasFrame' /\ LinksInTable' /\ LinksFollowTree'
  <1>1. table' = table /\ frameId' = frameId
    BY DEF frames
  <1>2. \A id \in DOMAIN table : table[id].doc \in born
    BY DEF TypeOK
  <1>3. ManagedHasFrame' /\ LinksInTable'
    BY <1>1 DEF ManagedHasFrame, LinksInTable, IsManaged
  <1>4. LinksFollowTree'
    BY <1>1, <1>2 DEF LinksFollowTree
  <1> QED
    BY <1>3, <1>4

\* What RemoveFrames does, and that it keeps the table in order.
LEMMA FramesRemoved ==
    ASSUME TypeOK, ManagedHasFrame, LinksInTable, LinksFollowTree,
           NEW ids, RemoveFrames(ids), UNCHANGED parent
    PROVE  /\ frameId' \in [Docs -> Nat]
           /\ DOMAIN table' \subseteq DOMAIN table
           /\ table' \in [DOMAIN table' -> [doc : born, links : SUBSET (1 .. m_NextId)]]
           /\ ManagedHasFrame' /\ LinksInTable' /\ LinksFollowTree'
  <1>1. /\ DOMAIN table' = DOMAIN table \ ids
        /\ \A id \in DOMAIN table \ ids :
              table'[id] = [table[id] EXCEPT !.links = @ \ ids]
    BY DEF RemoveFrames
  <1>2. \A id \in DOMAIN table : table[id] \in [doc : born, links : SUBSET (1 .. m_NextId)]
    BY DEF TypeOK
  <1>3. \A id \in DOMAIN table \ ids :
           /\ table'[id].doc = table[id].doc
           /\ table'[id].links = table[id].links \ ids
           /\ table'[id] \in [doc : born, links : SUBSET (1 .. m_NextId)]
    BY <1>1, <1>2
  <1>4. \A d \in Docs :
           frameId'[d] = IF \E id \in ids \cap DOMAIN table : table[id].doc = d
                         THEN NULL_FRAME ELSE frameId[d]
    BY DEF RemoveFrames
  <1>5. frameId' \in [Docs -> Nat]
    <2>1. \A d \in Docs : frameId'[d] \in Nat
      BY <1>4 DEF TypeOK, NULL_FRAME
    <2>2. frameId' = [d \in Docs |-> frameId'[d]]
      BY DEF RemoveFrames
    <2> QED
      BY <2>1, <2>2
  <1>6. table' \in [DOMAIN table' -> [doc : born, links : SUBSET (1 .. m_NextId)]]
    <2>1. table' = [id \in DOMAIN table' |-> table'[id]]
      BY DEF RemoveFrames
    <2> QED
      BY <1>1, <1>3, <2>1
  <1>7. ManagedHasFrame'
    <2> SUFFICES ASSUME NEW d \in Docs, frameId'[d] # NULL_FRAME
                 PROVE  frameId'[d] \in DOMAIN table' /\ table'[frameId'[d]].doc = d
      BY DEF ManagedHasFrame, IsManaged
    <2>1. /\ frameId'[d] = frameId[d]
          /\ ~ \E id \in ids \cap DOMAIN table : table[id].doc = d
      BY <1>4
    <2>2. frameId[d] \in DOMAIN table /\ table[frameId[d]].doc = d
      BY <2>1 DEF ManagedHasFrame, IsManaged
    <2> QED
      BY <1>1, <1>3, <2>1, <2>2
  <1>8. LinksInTable'
    BY <1>1, <1>3 DEF LinksInTable
  <1>9. LinksFollowTree'
    BY <1>1, <1>3 DEF LinksFollowTree
  <1> QED
    BY <1>1, <1>5, <1>6, <1>7, <1>8, <1>9

----------------------------------------------------------------------------
\* The todo of IInv, seen as its head and the rest.
LEMMA TodoHead ==
    ASSUME TodoOK, todo # <<>>
    PROVE  /\ Head(todo) \in StepsOf(born, m_NextId)
           /\ Tail(todo) \in Seq(StepsOf(born, m_NextId))
           /\ todo = <<Head(todo)>> \o Tail(todo)
           /\ Apart(Tail(todo))
           /\ Outside(Tail(todo), DOMAIN table)
           /\ IsInsert(Head(todo)) =>
                 /\ Head(todo).id \notin DOMAIN table
                 /\ Outside(Tail(todo), {Head(todo).id})
  <1> DEFINE S == StepsOf(born, m_NextId)
  <1>1. todo \in Seq(S) /\ Apart(todo) /\ Outside(todo, DOMAIN table)
    BY DEF TodoOK
  <1> HIDE DEF S
  <1>2. Head(todo) \in S /\ Tail(todo) \in Seq(S) /\ todo = <<Head(todo)>> \o Tail(todo)
    BY <1>1, Popped
  <1>3. Apart(<<Head(todo)>> \o Tail(todo)) <=>
           Apart(Tail(todo)) /\ (IsInsert(Head(todo)) => Outside(Tail(todo), {Head(todo).id}))
    BY <1>2, ApartPushed
  <1>4. Outside(<<Head(todo)>> \o Tail(todo), DOMAIN table) <=>
           /\ Outside(Tail(todo), DOMAIN table)
           /\ IsInsert(Head(todo)) => Head(todo).id \notin DOMAIN table
    BY <1>2, OutsidePushed
  <1> QED
    BY <1>1, <1>2, <1>3, <1>4, Zenon DEF S

\* What a handler has left stays in order when the table only loses frames and
\* more documents are loaded.
LEMMA TodoKept ==
    ASSUME NEW s \in Seq(StepsOf(born, m_NextId)), Apart(s), Outside(s, DOMAIN table),
           m_NextId \in Nat, m_NextId' \in Nat, m_NextId <= m_NextId', born \subseteq born',
           DOMAIN table' \subseteq DOMAIN table, todo' = s
    PROVE  TodoOK'
  <1>1. StepsOf(born, m_NextId) \subseteq StepsOf(born', m_NextId')
    BY MoreSteps
  <1>2. s \in Seq(StepsOf(born', m_NextId'))
    BY <1>1, SeqMonotonic
  <1>3. Outside(s, DOMAIN table')
    BY DEF Outside
  <1> QED
    BY <1>2, <1>3 DEF TodoOK

\* A step that is no insertion, before others.
LEMMA Pushable ==
    ASSUME NEW D, NEW n, NEW s \in Seq(StepsOf(D, n)), NEW a \in StepsOf(D, n), NEW T,
           Apart(s), Outside(s, T), ~IsInsert(a)
    PROVE  /\ <<a>> \o s \in Seq(StepsOf(D, n))
           /\ Apart(<<a>> \o s)
           /\ Outside(<<a>> \o s, T)
  <1> DEFINE S == StepsOf(D, n)
  <1>1. s \in Seq(S) /\ a \in S
    OBVIOUS
  <1> HIDE DEF S
  <1>2. <<a>> \o s \in Seq(S)
    BY <1>1, Pushed
  <1>3. Apart(<<a>> \o s)
    BY <1>1, ApartPushed
  <1>4. Outside(<<a>> \o s, T)
    BY <1>1, OutsidePushed
  <1> QED
    BY <1>2, <1>3, <1>4 DEF S

\* The steps of the handlers are steps on their documents.
LEMMA StepTypes ==
    ASSUME NEW D, NEW n
    PROVE  /\ \A d \in D : Create(d) \in StepsOf(D, n) /\ ~IsInsert(Create(d))
           /\ \A d \in D, id \in 1 .. n : Insert(d, id) \in StepsOf(D, n)
           /\ \A docs \in SUBSET D :
                 Missing(docs) \in StepsOf(D, n) /\ ~IsInsert(Missing(docs))
           /\ SetupEnvironment \in StepsOf(D, n) /\ ~IsInsert(SetupEnvironment)
           /\ CreateTop \in StepsOf(D, n) /\ ~IsInsert(CreateTop)
           /\ UpdateLinks \in StepsOf(D, n) /\ ~IsInsert(UpdateLinks)
  BY DEF StepsOf, IsInsert, Create, Insert, Missing, SetupEnvironment, CreateTop, UpdateLinks

\* What OnRefreshEnd puts before the rest.
LEMMA RefreshTodo ==
    ASSUME TypeOK, NEW s \in Seq(StepsOf(born, m_NextId)), Apart(s),
           Outside(s, DOMAIN table), OnRefreshEnd(s)
    PROVE  /\ todo' \in Seq(StepsOf(born, m_NextId))
           /\ Apart(todo') /\ Outside(todo', DOMAIN table)
           /\ todo' = <<Missing(FindMissingLinks)>> \o (<<CreateTop>> \o (<<UpdateLinks>> \o s))
  <1> DEFINE S == StepsOf(born, m_NextId)
             a == Missing(FindMissingLinks)
             s1 == <<UpdateLinks>> \o s
             s2 == <<CreateTop>> \o s1
             s3 == <<a>> \o s2
  <1>1. FindMissingLinks \in SUBSET born
    BY DEF FindMissingLinks, TypeOK
  <1>2. a \in S /\ CreateTop \in S /\ UpdateLinks \in S
    BY <1>1, StepTypes
  <1>3. ~IsInsert(a) /\ ~IsInsert(CreateTop) /\ ~IsInsert(UpdateLinks)
    BY <1>1, StepTypes
  <1>4. todo' = <<a, CreateTop, UpdateLinks>> \o s
    BY DEF OnRefreshEnd
  <1> HIDE DEF a
  <1>5. s1 \in Seq(S) /\ Apart(s1) /\ Outside(s1, DOMAIN table)
    BY <1>2, <1>3, Pushable
  <1> HIDE DEF s1
  <1>6. s2 \in Seq(S) /\ Apart(s2) /\ Outside(s2, DOMAIN table)
    BY <1>2, <1>3, <1>5, Pushable
  <1> HIDE DEF s2
  <1>7. s3 \in Seq(S) /\ Apart(s3) /\ Outside(s3, DOMAIN table)
    BY <1>2, <1>3, <1>6, Pushable
  <1>8. todo' = s3
    <2>1. s \in Seq(S)
      OBVIOUS
    <2> HIDE DEF S
    <2>2. <<a, CreateTop, UpdateLinks>> \o s = <<a>> \o (<<CreateTop>> \o (<<UpdateLinks>> \o s))
      BY <1>2, <2>1, ThreePushed
    <2> QED
      BY <1>4, <2>2 DEF s1, s2
  <1> QED
    BY <1>7, <1>8 DEF s1, s2, a

----------------------------------------------------------------------------
\* Init and the actions keep the invariant.
LEMMA InitIInv == Init => IInv
  <1> SUFFICES ASSUME Init PROVE IInv
    OBVIOUS
  <1>1. DOMAIN table = {}
    BY DEF Init
  <1>2. TypeOK
    <2>1. table \in [DOMAIN table -> [doc : born, links : SUBSET (1 .. m_NextId)]]
      BY DEF Init
    <2> QED
      BY <1>1, <2>1 DEF Init, TypeOK, NULL_FRAME
  <1>3. TodoOK
    BY EmptySeq DEF Init, TodoOK, Apart, Outside
  <1>4. ManagedHasFrame /\ LinksInTable /\ LinksFollowTree
    BY <1>1 DEF Init, ManagedHasFrame, LinksInTable, LinksFollowTree, IsManaged
  <1> QED
    BY <1>2, <1>3, <1>4 DEF IInv

\* IE loads or unloads a document.
LEMMA IEIInv ==
    ASSUME IInv, NEW d \in Docs, LoadTop(d) \/ Unload(d) \/ \E p \in Docs : Load(d, p)
    PROVE  IInv'
  <1>1. TypeOK /\ TodoOK /\ ManagedHasFrame /\ LinksInTable /\ LinksFollowTree
    BY DEF IInv
  <1>2. /\ UNCHANGED <<frames, m_NextId, flags, todo, expected>>
        /\ born \subseteq born' /\ born' \subseteq Docs
        /\ shown' \subseteq born'
        /\ parent' \in [Docs -> Docs \cup {NoDoc}]
        /\ \A e \in born : parent'[e] = parent[e]
    <2>1. CASE LoadTop(d)
      BY <1>1, <2>1 DEF LoadTop, TypeOK
    <2>2. CASE Unload(d)
      BY <1>1, <2>2 DEF Unload, TypeOK
    <2>3. CASE \E p \in Docs : Load(d, p)
      BY <1>1, <2>3 DEF Load, TypeOK
    <2> QED
      BY <2>1, <2>2, <2>3
  <1>3. TypeOK'
    <2>1. table' \in [DOMAIN table' -> [doc : born', links : SUBSET (1 .. m_NextId')]]
      BY <1>1, <1>2 DEF TypeOK, frames
    <2> QED
      BY <1>1, <1>2, <2>1 DEF TypeOK, frames, flags
  <1>4. TodoOK'
    <2>1. todo \in Seq(StepsOf(born, m_NextId)) /\ Apart(todo) /\ Outside(todo, DOMAIN table)
      BY <1>1 DEF TodoOK
    <2>2. /\ m_NextId \in Nat /\ m_NextId' \in Nat /\ m_NextId <= m_NextId'
          /\ DOMAIN table' \subseteq DOMAIN table /\ todo' = todo
      BY <1>1, <1>2 DEF TypeOK, frames
    <2> QED
      BY <1>2, <2>1, <2>2, TodoKept
  <1>5. ManagedHasFrame' /\ LinksInTable' /\ LinksFollowTree'
    BY <1>1, <1>2, FramesSame
  <1> QED
    BY <1>3, <1>4, <1>5 DEF IInv

\* A step that changes neither documents nor frames, but todo.
LEMMA TodoIInv ==
    ASSUME IInv, UNCHANGED <<ie, frames>>, m_NextId' \in Nat, m_NextId <= m_NextId',
           m_HookedDoc' \in Docs \cup {NoDoc}, expected' \subseteq Docs, TodoOK'
    PROVE  IInv'
  <1>1. TypeOK /\ ManagedHasFrame /\ LinksInTable /\ LinksFollowTree
    BY DEF IInv
  <1>2. TypeOK'
    <2>1. 1 .. m_NextId \subseteq 1 .. m_NextId'
      BY <1>1 DEF TypeOK
    <2>2. table' \in [DOMAIN table' -> [doc : born', links : SUBSET (1 .. m_NextId')]]
      <3>1. [doc : born, links : SUBSET (1 .. m_NextId)] \subseteq
               [doc : born', links : SUBSET (1 .. m_NextId')]
        BY <2>1 DEF ie
      <3> QED
        BY <1>1, <3>1 DEF TypeOK, frames
    <2>3. DOMAIN table' \subseteq 1 .. m_NextId'
      BY <1>1, <2>1 DEF TypeOK, frames
    <2> QED
      BY <1>1, <2>2, <2>3 DEF TypeOK, ie, frames
  <1>3. ManagedHasFrame' /\ LinksInTable' /\ LinksFollowTree'
    BY <1>1, FramesSame DEF ie
  <1> QED
    BY <1>2, <1>3 DEF IInv

\* The constructor of a frame runs up to Attach, with a new id.
LEMMA CreateStepIInv == ASSUME IInv, CreateStep PROVE IInv'
  <1> DEFINE d == Head(todo).doc
  <1>1. TypeOK /\ TodoOK
    BY DEF IInv
  <1>2. todo # <<>> /\ Head(todo).do = "create"
    BY DEF CreateStep, Doing
  <1>3. /\ UNCHANGED <<ie, frames, flags, expected>>
        /\ \/ todo' = Tail(todo) /\ m_NextId' = m_NextId
           \/ /\ m_NextId' = m_NextId + 1
              /\ todo' = <<Insert(d, m_NextId')>> \o Tail(todo)
    BY DEF CreateStep, GenerateFrameId
  <1>4. /\ Head(todo) \in StepsOf(born, m_NextId)
        /\ Tail(todo) \in Seq(StepsOf(born, m_NextId))
        /\ Apart(Tail(todo)) /\ Outside(Tail(todo), DOMAIN table)
    BY <1>1, <1>2, TodoHead
  <1>5. d \in born
    BY <1>2, <1>4 DEF StepsOf
  <1> HIDE DEF d
  <1>6. m_NextId \in Nat /\ m_NextId' \in Nat /\ m_NextId <= m_NextId'
    BY <1>1, <1>3 DEF TypeOK
  <1>7. TodoOK'
    <2>1. CASE todo' = Tail(todo) /\ m_NextId' = m_NextId
      BY <2>1, <1>3, <1>4, <1>6, TodoKept DEF ie, frames
    <2>2. CASE m_NextId' = m_NextId + 1 /\ todo' = <<Insert(d, m_NextId')>> \o Tail(todo)
      <3> DEFINE S == StepsOf(born, m_NextId')
                 new == Insert(d, m_NextId')
                 s == Tail(todo)
      <3>1. StepsOf(born, m_NextId) \subseteq S
        BY <1>6, MoreSteps
      <3>2. s \in Seq(S)
        BY <1>4, <3>1, SeqMonotonic
      <3>3. new \in S
        BY <1>5, <1>6, <2>2, StepTypes
      <3>4. IsInsert(new) /\ new.id = m_NextId + 1
        BY <2>2 DEF Insert, IsInsert
      <3>5. Outside(s, {new.id})
        BY <1>4, <1>6, <3>4, FreshId
      <3>6. new.id \notin DOMAIN table
        BY <1>1, <3>4 DEF TypeOK
      <3>7. Apart(s) /\ Outside(s, DOMAIN table)
        BY <1>4
      <3>8. todo' = <<new>> \o s
        BY <2>2
      <3> HIDE DEF S, new, s
      <3>9. Apart(todo') /\ Outside(todo', DOMAIN table) /\ todo' \in Seq(S)
        <4>1. Apart(<<new>> \o s)
          BY <3>2, <3>3, <3>5, <3>7, ApartPushed
        <4>2. Outside(<<new>> \o s, DOMAIN table)
          BY <3>2, <3>3, <3>6, <3>7, OutsidePushed
        <4>3. <<new>> \o s \in Seq(S)
          BY <3>2, <3>3, Pushed
        <4> QED
          BY <3>8, <4>1, <4>2, <4>3
      <3> QED
        BY <1>3, <3>9 DEF TodoOK, S, ie, frames
    <2> QED
      BY <2>1, <2>2, <1>3
  <1> QED
    BY <1>1, <1>3, <1>6, <1>7, TodoIInv DEF flags, TypeOK

\* The frame is inserted under its id.
LEMMA InsertStepIInv == ASSUME IInv, InsertStep PROVE IInv'
  <1> DEFINE d == Head(todo).doc
             new == Head(todo).id
  <1>1. TypeOK /\ TodoOK /\ ManagedHasFrame /\ LinksInTable /\ LinksFollowTree
    BY DEF IInv
  <1>2. todo # <<>> /\ Head(todo).do = "insert"
    BY DEF InsertStep, Doing
  <1>3. /\ UNCHANGED <<ie, m_NextId, flags, expected>>
        /\ todo' = Tail(todo)
        /\ frameId' = [frameId EXCEPT ![d] = new]
        /\ table' = [id \in DOMAIN table \cup {new} |->
                       IF id = new THEN [doc |-> d, links |-> {}] ELSE table[id]]
    BY DEF InsertStep
  <1>4. /\ Head(todo) \in StepsOf(born, m_NextId)
        /\ Tail(todo) \in Seq(StepsOf(born, m_NextId))
        /\ Apart(Tail(todo)) /\ Outside(Tail(todo), DOMAIN table)
        /\ new \notin DOMAIN table /\ Outside(Tail(todo), {new})
    BY <1>1, <1>2, TodoHead DEF IsInsert
  <1>5. d \in born /\ new \in 1 .. m_NextId
    BY <1>2, <1>4 DEF StepsOf
  <1> HIDE DEF d, new
  <1>6. /\ DOMAIN table' = DOMAIN table \cup {new}
        /\ table'[new] = [doc |-> d, links |-> {}]
        /\ \A id \in DOMAIN table : table'[id] = table[id]
    BY <1>3, <1>4
  <1>7. \A e \in Docs : frameId'[e] = IF e = d THEN new ELSE frameId[e]
    BY <1>1, <1>3 DEF TypeOK
  <1>8. TypeOK'
    <2>1. [doc |-> d, links |-> {}] \in [doc : born, links : SUBSET (1 .. m_NextId)]
      BY <1>5
    <2>2. table' \in [DOMAIN table' -> [doc : born, links : SUBSET (1 .. m_NextId)]]
      BY <1>1, <1>3, <2>1 DEF TypeOK
    <2>3. frameId' \in [Docs -> Nat]
      BY <1>1, <1>3, <1>5 DEF TypeOK
    <2>4. DOMAIN table' \subseteq 1 .. m_NextId
      BY <1>1, <1>5, <1>6 DEF TypeOK
    <2> QED
      BY <1>1, <1>3, <2>2, <2>3, <2>4 DEF TypeOK, ie, flags
  <1>9. TodoOK'
    <2>1. Outside(Tail(todo), DOMAIN table')
      BY <1>4, <1>6 DEF Outside
    <2> QED
      BY <1>3, <1>4, <2>1 DEF TodoOK, ie
  <1>10. ManagedHasFrame'
    <2> SUFFICES ASSUME NEW e \in Docs, frameId'[e] # NULL_FRAME
                 PROVE  frameId'[e] \in DOMAIN table' /\ table'[frameId'[e]].doc = e
      BY DEF ManagedHasFrame, IsManaged
    <2>1. CASE e = d
      BY <2>1, <1>6, <1>7
    <2>2. CASE e # d
      BY <2>2, <1>1, <1>6, <1>7 DEF ManagedHasFrame, IsManaged
    <2> QED
      BY <2>1, <2>2
  <1>11. LinksInTable'
    BY <1>1, <1>6 DEF LinksInTable
  <1>12. LinksFollowTree'
    BY <1>1, <1>3, <1>4, <1>6 DEF LinksInTable, LinksFollowTree, ie
  <1> QED
    BY <1>8, <1>9, <1>10, <1>11, <1>12 DEF IInv

\* A step that gives some frames new links, to frames of embedded documents.
LEMMA LinksIInv ==
    ASSUME IInv, UNCHANGED <<ie, frameId, m_NextId>>, TodoOK',
           m_HookedDoc' \in Docs \cup {NoDoc}, expected' \subseteq Docs,
           NEW L, \A id \in DOMAIN table :
                     L[id] = table[id].links \/ L[id] \subseteq ChildFrames(id),
           table' = [id \in DOMAIN table |-> [table[id] EXCEPT !.links = L[id]]]
    PROVE  IInv'
  <1>1. TypeOK /\ ManagedHasFrame /\ LinksInTable /\ LinksFollowTree
    BY DEF IInv
  <1>2. \A id \in DOMAIN table : \A link \in ChildFrames(id) :
           link \in DOMAIN table /\ parent[table[link].doc] = table[id].doc
    BY <1>1 DEF ChildFrames, Embedded, ManagedHasFrame, IsManaged, TypeOK
  <1>3. \A id \in DOMAIN table : \A link \in L[id] :
           link \in DOMAIN table /\ parent[table[link].doc] = table[id].doc
    BY <1>1, <1>2 DEF LinksInTable, LinksFollowTree
  <1>4. \A id \in DOMAIN table : table[id] \in [doc : born, links : SUBSET (1 .. m_NextId)]
    BY <1>1 DEF TypeOK
  <1>5. DOMAIN table' = DOMAIN table
    OBVIOUS
  <1>6. \A id \in DOMAIN table :
           table'[id].doc = table[id].doc /\ table'[id].links = L[id]
    BY <1>4
  <1>7. TypeOK'
    <2>1. \A id \in DOMAIN table : L[id] \in SUBSET (1 .. m_NextId)
      BY <1>1, <1>3 DEF TypeOK
    <2>2. \A id \in DOMAIN table :
             [table[id] EXCEPT !.links = L[id]] \in
                [doc : born, links : SUBSET (1 .. m_NextId)]
      BY <1>4, <2>1
    <2>3. table' \in [DOMAIN table -> [doc : born, links : SUBSET (1 .. m_NextId)]]
      BY <2>2
    <2> QED
      BY <1>1, <1>5, <2>3 DEF TypeOK, ie
  <1>8. ManagedHasFrame'
    BY <1>1, <1>5, <1>6 DEF ManagedHasFrame, IsManaged
  <1>9. LinksInTable'
    BY <1>3, <1>5, <1>6 DEF LinksInTable
  <1>10. LinksFollowTree'
    <2> SUFFICES ASSUME NEW id \in DOMAIN table, NEW link \in L[id]
                 PROVE  parent[table[link].doc] = table[id].doc /\ link \in DOMAIN table
      BY <1>5, <1>6 DEF LinksFollowTree, ie
    <2> QED
      BY <1>3
  <1> QED
    BY <1>7, <1>8, <1>9, <1>10 DEF IInv

\* UpdateLinks makes the links of every frame.
LEMMA UpdateLinksStepIInv == ASSUME IInv, UpdateLinksStep PROVE IInv'
  <1> DEFINE L == [id \in DOMAIN table |-> ChildFrames(id)]
  <1>1. TypeOK /\ TodoOK
    BY DEF IInv
  <1>2. todo # <<>>
    BY DEF UpdateLinksStep, Doing
  <1>3. /\ UNCHANGED <<ie, frameId, m_NextId, flags, expected>>
        /\ todo' = Tail(todo)
        /\ table' = [id \in DOMAIN table |-> [table[id] EXCEPT !.links = ChildFrames(id)]]
    BY DEF UpdateLinksStep
  <1>4. \A id \in DOMAIN table : L[id] = ChildFrames(id)
    OBVIOUS
  <1> HIDE DEF L
  <1>5. table' = [id \in DOMAIN table |-> [table[id] EXCEPT !.links = L[id]]]
    BY <1>3, <1>4
  <1>6. DOMAIN table' = DOMAIN table
    BY <1>3
  <1>7. TodoOK'
    BY <1>1, <1>2, <1>3, <1>6, TodoHead DEF TodoOK, ie
  <1> QED
    BY <1>1, <1>3, <1>4, <1>5, <1>7, LinksIInv DEF TypeOK, flags

\* What an exception leaves to do is some of what there was, in its order.
LEMMA UnwindTodo ==
    ASSUME TodoOK, Unwind
    PROVE  /\ todo' \in Seq(StepsOf(born, m_NextId))
           /\ Apart(todo') /\ Outside(todo', DOMAIN table)
           /\ expected' \subseteq expected
  <1> DEFINE S == StepsOf(born, m_NextId)
  <1>1. todo \in Seq(S) /\ Apart(todo) /\ Outside(todo, DOMAIN table)
    BY DEF TodoOK
  <1>2. PICK n \in DOMAIN todo : todo' = SubSeq(todo, n + 1, Len(todo))
    BY DEF Unwind
  <1>3. expected' \subseteq expected
    BY DEF Unwind
  <1> HIDE DEF S
  <1>4. /\ todo' \in Seq(S)
        /\ \A i \in DOMAIN todo' : i + n \in DOMAIN todo /\ todo'[i] = todo[i + n]
        /\ DOMAIN todo' \subseteq Nat /\ DOMAIN todo \subseteq Nat
    BY <1>1, <1>2, Dropped
  <1>5. \A i, j \in DOMAIN todo' : i + n = j + n => i = j
    BY <1>4
  <1>6. Apart(todo')
    BY <1>1, <1>4, <1>5 DEF Apart
  <1>7. Outside(todo', DOMAIN table)
    BY <1>1, <1>4 DEF Outside
  <1> QED
    BY <1>3, <1>4, <1>6, <1>7 DEF S

\* An exception takes the steps of the handler under way with it.
LEMMA ThrowIInv == ASSUME IInv, Throw PROVE IInv'
  <1>1. TypeOK /\ TodoOK
    BY DEF IInv
  <1>2. /\ Unwind /\ UNCHANGED <<ie, frames, m_NextId>>
        /\ m_HookedDoc' \in {NoDoc, m_HookedDoc}
    BY DEF Throw
  <1>3. /\ todo' \in Seq(StepsOf(born, m_NextId))
        /\ Apart(todo') /\ Outside(todo', DOMAIN table)
        /\ expected' \subseteq expected
    BY <1>1, <1>2, UnwindTodo
  <1>4. TodoOK'
    BY <1>2, <1>3 DEF TodoOK, ie, frames
  <1> QED
    BY <1>1, <1>2, <1>3, <1>4, TodoIInv DEF TypeOK

\* UpdateLinks ends in the middle.
LEMMA UpdateLinksFailsIInv == ASSUME IInv, UpdateLinksFails PROVE IInv'
  <1>1. TypeOK /\ TodoOK
    BY DEF IInv
  <1>2. PICK bad \in DOMAIN table : \E made \in SUBSET ChildFrames(bad) :
           table' = [id \in DOMAIN table |->
                       IF id > bad THEN table[id]
                       ELSE [table[id] EXCEPT !.links =
                               IF id = bad THEN made ELSE ChildFrames(id)]]
    BY DEF UpdateLinksFails
  <1>3. PICK made \in SUBSET ChildFrames(bad) :
           table' = [id \in DOMAIN table |->
                       IF id > bad THEN table[id]
                       ELSE [table[id] EXCEPT !.links =
                               IF id = bad THEN made ELSE ChildFrames(id)]]
    BY <1>2
  <1>4. Unwind /\ UNCHANGED <<ie, frameId, m_NextId, flags>>
    BY DEF UpdateLinksFails
  <1>5. /\ todo' \in Seq(StepsOf(born, m_NextId))
        /\ Apart(todo') /\ Outside(todo', DOMAIN table)
        /\ expected' \subseteq expected
    BY <1>1, <1>4, UnwindTodo
  <1> DEFINE L == [id \in DOMAIN table |->
                     IF id > bad THEN table[id].links
                     ELSE IF id = bad THEN made ELSE ChildFrames(id)]
  <1>6. \A id \in DOMAIN table : table[id] \in [doc : born, links : SUBSET (1 .. m_NextId)]
    BY <1>1 DEF TypeOK
  <1>7. \A id \in DOMAIN table : L[id] =
           IF id > bad THEN table[id].links
           ELSE IF id = bad THEN made ELSE ChildFrames(id)
    OBVIOUS
  <1> HIDE DEF L
  <1>8. \A id \in DOMAIN table :
           L[id] = table[id].links \/ L[id] \subseteq ChildFrames(id)
    BY <1>3, <1>7
  <1>9. \A id \in DOMAIN table : [table[id] EXCEPT !.links = table[id].links] = table[id]
    BY <1>6
  <1>10. table' = [id \in DOMAIN table |-> [table[id] EXCEPT !.links = L[id]]]
    BY <1>3, <1>7, <1>9
  <1>11. DOMAIN table' = DOMAIN table
    BY <1>10
  <1>12. TodoOK'
    BY <1>4, <1>5, <1>11 DEF TodoOK, ie
  <1> QED
    BY <1>1, <1>4, <1>5, <1>8, <1>10, <1>12, LinksIInv DEF TypeOK, flags

\* SetupEnvironment has hooked the window, and the refresh may end.
LEMMA SetupStepIInv == ASSUME IInv, SetupStep PROVE IInv'
  <1>1. TypeOK /\ TodoOK
    BY DEF IInv
  <1>2. /\ todo # <<>>
        /\ OnRefreshEnd(Tail(todo))
        /\ UNCHANGED <<ie, frames, m_NextId>>
        /\ \E d \in shown : m_HookedDoc' = d
    BY DEF SetupStep, Doing
  <1>3. /\ todo' \in Seq(StepsOf(born, m_NextId))
        /\ Apart(todo') /\ Outside(todo', DOMAIN table)
    BY <1>1, <1>2, TodoHead, RefreshTodo
  <1>4. TodoOK'
    BY <1>2, <1>3 DEF TodoOK, ie, frames
  <1>5. expected' \subseteq Docs /\ m_HookedDoc' \in Docs \cup {NoDoc}
    BY <1>1, <1>2 DEF OnRefreshEnd, TypeOK
  <1> QED
    BY <1>1, <1>2, <1>4, <1>5, TodoIInv DEF TypeOK

\* The refresh ends.
LEMMA OnProgressChangeIInv == ASSUME IInv, OnProgressChange PROVE IInv'
  <1>1. TypeOK /\ TodoOK
    BY DEF IInv
  <1>2. OnRefreshEnd(todo) /\ UNCHANGED <<ie, frames, m_NextId, m_HookedDoc>>
    BY DEF OnProgressChange
  <1>3. /\ todo' \in Seq(StepsOf(born, m_NextId))
        /\ Apart(todo') /\ Outside(todo', DOMAIN table)
    BY <1>1, <1>2, RefreshTodo DEF TodoOK
  <1>4. TodoOK'
    BY <1>2, <1>3 DEF TodoOK, ie, frames
  <1>5. expected' \subseteq Docs
    BY <1>1, <1>2 DEF OnRefreshEnd, TypeOK
  <1> QED
    BY <1>1, <1>2, <1>4, <1>5, TodoIInv DEF TypeOK

\* What MissingStep puts in the place of the head.
LEMMA MissingTodo ==
    ASSUME TypeOK, TodoOK, MissingStep
    PROVE  \/ Head(todo).docs = {} /\ todo' = Tail(todo)
           \/ \E d \in Head(todo).docs :
                 \/ /\ IsManaged(d)
                    /\ todo' = <<Missing(Head(todo).docs \ {d})>> \o Tail(todo)
                 \/ /\ ~IsManaged(d)
                    /\ todo' = <<Create(d)>> \o
                                  (<<Missing(Head(todo).docs \ {d})>> \o Tail(todo))
  <1> DEFINE docs == Head(todo).docs
             S == StepsOf(born, m_NextId)
  <1>1. todo # <<>> /\ Head(todo).do = "missing"
    BY DEF MissingStep, Doing
  <1>2. Head(todo) \in S /\ Tail(todo) \in Seq(S)
    BY <1>1, TodoHead
  <1>3. docs \in SUBSET born
    BY <1>1, <1>2 DEF StepsOf
  <1>4. \/ docs = {} /\ todo' = Tail(todo)
        \/ \E d \in docs :
              todo' = (IF IsManaged(d) THEN <<>> ELSE <<Create(d)>>)
                        \o <<Missing(docs \ {d})>> \o Tail(todo)
    BY DEF MissingStep
  <1>5. ASSUME NEW d \in docs
        PROVE  /\ <<>> \o <<Missing(docs \ {d})>> = <<Missing(docs \ {d})>>
               /\ <<Create(d)>> \o <<Missing(docs \ {d})>> \o Tail(todo) =
                     <<Create(d)>> \o (<<Missing(docs \ {d})>> \o Tail(todo))
    <2>1. Create(d) \in S /\ Missing(docs \ {d}) \in S
      BY <1>3, StepTypes
    <2>2. <<Missing(docs \ {d})>> \in Seq(S)
      BY <2>1
    <2> HIDE DEF S, docs
    <2> QED
      BY <1>2, <2>1, <2>2, TwoPushed, NonePushed
  <1> QED
    BY <1>4, <1>5

\* The next document that a refresh found gets its frame.
LEMMA MissingStepIInv == ASSUME IInv, MissingStep PROVE IInv'
  <1> DEFINE docs == Head(todo).docs
             S == StepsOf(born, m_NextId)
  <1>1. TypeOK /\ TodoOK
    BY DEF IInv
  <1>2. todo # <<>> /\ Head(todo).do = "missing"
    BY DEF MissingStep, Doing
  <1>3. /\ Head(todo) \in S /\ Tail(todo) \in Seq(S)
        /\ Apart(Tail(todo)) /\ Outside(Tail(todo), DOMAIN table)
    BY <1>1, <1>2, TodoHead
  <1>4. docs \in SUBSET born
    BY <1>2, <1>3 DEF StepsOf
  <1>5. UNCHANGED <<ie, frames, m_NextId, flags, expected>>
    BY DEF MissingStep
  <1>6. todo' \in Seq(S) /\ Apart(todo') /\ Outside(todo', DOMAIN table)
    <2>1. CASE todo' = Tail(todo)
      BY <1>3, <2>1
    <2>2. ASSUME NEW d \in docs
          PROVE  LET s == <<Missing(docs \ {d})>> \o Tail(todo) IN
                    /\ s \in Seq(S) /\ Apart(s) /\ Outside(s, DOMAIN table)
                    /\ LET t == <<Create(d)>> \o s IN
                          t \in Seq(S) /\ Apart(t) /\ Outside(t, DOMAIN table)
      <3> DEFINE s == <<Missing(docs \ {d})>> \o Tail(todo)
                 t == <<Create(d)>> \o s
      <3>1. /\ Create(d) \in S /\ Missing(docs \ {d}) \in S
            /\ ~IsInsert(Create(d)) /\ ~IsInsert(Missing(docs \ {d}))
        BY <1>4, StepTypes
      <3>2. s \in Seq(S) /\ Apart(s) /\ Outside(s, DOMAIN table)
        BY <1>3, <3>1, Pushable
      <3> HIDE DEF s
      <3>3. t \in Seq(S) /\ Apart(t) /\ Outside(t, DOMAIN table)
        BY <3>1, <3>2, Pushable
      <3> QED
        BY <3>2, <3>3 DEF s
    <2> QED
      BY <1>1, <2>1, <2>2, MissingTodo
  <1>7. TodoOK'
    BY <1>5, <1>6 DEF TodoOK, ie, frames
  <1> QED
    BY <1>1, <1>5, <1>7, TodoIInv DEF TypeOK, flags

\* The top document gets its frame.
LEMMA CreateTopStepIInv == ASSUME IInv, CreateTopStep PROVE IInv'
  <1>1. TypeOK /\ TodoOK
    BY DEF IInv
  <1>2. /\ todo # <<>>
        /\ UNCHANGED <<ie, frames, m_NextId, flags, expected>>
    BY DEF CreateTopStep, Doing
  <1>3. PICK d \in shown : todo' = <<Create(d)>> \o Tail(todo)
    BY DEF CreateTopStep
  <1>4. Create(d) \in StepsOf(born, m_NextId) /\ ~IsInsert(Create(d))
    BY <1>1, StepTypes DEF TypeOK
  <1>5. /\ todo' \in Seq(StepsOf(born, m_NextId))
        /\ Apart(todo') /\ Outside(todo', DOMAIN table)
    BY <1>1, <1>2, <1>3, <1>4, TodoHead, Pushable
  <1>6. TodoOK'
    BY <1>2, <1>5 DEF TodoOK, ie, frames
  <1> QED
    BY <1>1, <1>2, <1>6, TodoIInv DEF TypeOK, flags

\* The removal of frames by an event, with what the event leaves to do.
LEMMA RemovalIInv ==
    ASSUME IInv, NEW ids, RemoveFrames(ids), UNCHANGED <<ie, m_NextId, m_HookedDoc>>,
           expected' \subseteq Docs,
           todo' \in Seq(StepsOf(born, m_NextId)), Apart(todo'), Outside(todo', DOMAIN table)
    PROVE  IInv'
  <1>1. TypeOK /\ ManagedHasFrame /\ LinksInTable /\ LinksFollowTree
    BY DEF IInv
  <1>2. /\ frameId' \in [Docs -> Nat]
        /\ DOMAIN table' \subseteq DOMAIN table
        /\ table' \in [DOMAIN table' -> [doc : born, links : SUBSET (1 .. m_NextId)]]
        /\ ManagedHasFrame' /\ LinksInTable' /\ LinksFollowTree'
    BY <1>1, FramesRemoved DEF ie
  <1>3. TypeOK'
    BY <1>1, <1>2 DEF TypeOK, ie
  <1>4. Outside(todo', DOMAIN table')
    BY <1>2 DEF Outside
  <1>5. TodoOK'
    BY <1>4 DEF TodoOK, ie
  <1> QED
    BY <1>2, <1>3, <1>5 DEF IInv

\* A navigation destroys the frames of the document.
LEMMA OnBeforeNavigate2IInv ==
    ASSUME IInv, NEW d \in Docs, OnBeforeNavigate2(d) PROVE IInv'
  <1>1. TypeOK /\ TodoOK
    BY DEF IInv
  <1>2. Destroy(d) /\ UNCHANGED <<ie, m_NextId, flags, todo>>
    BY DEF OnBeforeNavigate2
  <1>3. expected' \subseteq Docs /\ UNCHANGED <<ie, m_NextId, m_HookedDoc>>
    BY <1>1, <1>2 DEF Destroy, TypeOK, flags
  <1>4. \E ids : RemoveFrames(ids)
    BY <1>2 DEF Destroy
  <1>5. /\ todo' \in Seq(StepsOf(born, m_NextId))
        /\ Apart(todo') /\ Outside(todo', DOMAIN table)
    BY <1>1, <1>2 DEF TodoOK
  <1> QED
    BY <1>3, <1>4, <1>5, RemovalIInv

\* A refresh clears the table.
LEMMA OnRefreshStartIInv == ASSUME IInv, OnRefreshStart PROVE IInv'
  <1>1. TypeOK /\ TodoOK
    BY DEF IInv
  <1>2. /\ \E ids : RemoveFrames(ids)
        /\ UNCHANGED <<ie, m_NextId, m_HookedDoc, todo>>
        /\ expected' = {}
    BY DEF OnRefreshStart, Clear
  <1>3. /\ todo' \in Seq(StepsOf(born, m_NextId))
        /\ Apart(todo') /\ Outside(todo', DOMAIN table)
    BY <1>1, <1>2 DEF TodoOK
  <1> QED
    BY <1>2, <1>3, RemovalIInv

\* What OnDocumentComplete leaves to do.
LEMMA CompleteTodo ==
    ASSUME TypeOK, TodoOK, NEW d \in born, OnDocumentComplete(d)
    PROVE  LET s == IF IsTop(d) THEN <<SetupEnvironment>> \o todo ELSE todo IN
              /\ todo' = <<Create(d)>> \o s
              /\ s \in Seq(StepsOf(born, m_NextId))
              /\ todo' \in Seq(StepsOf(born, m_NextId))
              /\ Apart(todo') /\ Outside(todo', DOMAIN table)
  <1> DEFINE S == StepsOf(born, m_NextId)
             s == IF IsTop(d) THEN <<SetupEnvironment>> \o todo ELSE todo
  <1>1. todo' = <<Create(d)>> \o (IF IsTop(d) THEN <<SetupEnvironment>> ELSE <<>>) \o todo
    BY DEF OnDocumentComplete
  <1>2. /\ Create(d) \in S /\ SetupEnvironment \in S
        /\ ~IsInsert(Create(d)) /\ ~IsInsert(SetupEnvironment)
    BY StepTypes
  <1>3. todo \in Seq(S) /\ Apart(todo) /\ Outside(todo, DOMAIN table)
    BY DEF TodoOK
  <1>4. s \in Seq(S) /\ Apart(s) /\ Outside(s, DOMAIN table)
    BY <1>2, <1>3, Pushable
  <1>5. todo' = <<Create(d)>> \o s
    <2>1. CASE IsTop(d)
      <3>1. <<Create(d)>> \o <<SetupEnvironment>> \o todo =
               <<Create(d)>> \o (<<SetupEnvironment>> \o todo)
        <4> HIDE DEF S
        <4> QED
          BY <1>2, <1>3, TwoPushed
      <3> QED
        BY <1>1, <2>1, <3>1
    <2>2. CASE ~IsTop(d)
      <3>1. <<Create(d)>> \in Seq(S)
        BY <1>2
      <3>2. <<Create(d)>> \o <<>> = <<Create(d)>>
        BY <3>1, ConcatEmptySeq
      <3> QED
        BY <1>1, <2>2, <3>2
    <2> QED
      BY <2>1, <2>2
  <1> HIDE DEF s
  <1>6. todo' \in Seq(S) /\ Apart(todo') /\ Outside(todo', DOMAIN table)
    BY <1>2, <1>4, <1>5, Pushable
  <1> QED
    BY <1>4, <1>5, <1>6 DEF s

\* A document that completes gets a frame, after its old one is destroyed.
LEMMA OnDocumentCompleteIInv ==
    ASSUME IInv, NEW d \in Docs, OnDocumentComplete(d) PROVE IInv'
  <1>1. TypeOK /\ TodoOK
    BY DEF IInv
  <1>2. /\ d \in born
        /\ IF IsManaged(d) THEN Destroy(d) ELSE UNCHANGED <<frames, expected>>
        /\ UNCHANGED <<ie, m_NextId, flags>>
    BY <1>1 DEF OnDocumentComplete, TypeOK
  <1>3. /\ todo' \in Seq(StepsOf(born, m_NextId))
        /\ Apart(todo') /\ Outside(todo', DOMAIN table)
    BY <1>1, <1>2, CompleteTodo
  <1>4. UNCHANGED <<ie, m_NextId, m_HookedDoc>>
    BY <1>2 DEF flags
  <1>5. CASE Destroy(d)
    <2>1. (\E ids : RemoveFrames(ids)) /\ expected' \subseteq Docs
      BY <1>1, <1>5 DEF Destroy, TypeOK
    <2> QED
      BY <1>3, <1>4, <2>1, RemovalIInv
  <1>6. CASE UNCHANGED <<frames, expected>>
    <2>1. TodoOK'
      BY <1>3, <1>4, <1>6 DEF TodoOK, ie, frames
    <2> QED
      BY <1>1, <1>4, <1>6, <2>1, TodoIInv DEF TypeOK
  <1> QED
    BY <1>2, <1>5, <1>6

\* The events of downloads only move flags.
LEMMA OnDownloadIInv == ASSUME IInv, OnDownload PROVE IInv'
  <1>1. TypeOK /\ TodoOK
    BY DEF IInv
  <1>2. UNCHANGED <<ie, frames, m_NextId, m_HookedDoc, todo, expected>>
    BY DEF OnDownload
  <1>3. TodoOK'
    BY <1>1, <1>2 DEF TodoOK, ie, frames
  <1> QED
    BY <1>1, <1>2, <1>3, TodoIInv DEF TypeOK

\* Every step keeps the invariant.
LEMMA NextIInv == IInv /\ [Next]_vars => IInv'
  <1> SUFFICES ASSUME IInv, [Next]_vars PROVE IInv'
    OBVIOUS
  <1>1. CASE IEStep
    BY <1>1, IEIInv DEF IEStep
  <1>2. CASE HandlerStep
    BY <1>2, CreateStepIInv, InsertStepIInv, UpdateLinksStepIInv, SetupStepIInv,
       MissingStepIInv, CreateTopStepIInv, ThrowIInv, UpdateLinksFailsIInv DEF HandlerStep
  <1>3. CASE Event
    BY <1>3, OnDocumentCompleteIInv, OnBeforeNavigate2IInv, OnRefreshStartIInv,
       OnProgressChangeIInv, OnDownloadIInv DEF Event
  <1>4. CASE UNCHANGED vars
    <2>1. UNCHANGED <<ie, frames, m_NextId, m_HookedDoc, todo, expected>>
      BY <1>4 DEF vars, flags
    <2>2. TypeOK /\ TodoOK
      BY DEF IInv
    <2>3. TodoOK'
      BY <2>1, <2>2 DEF TodoOK, ie, frames
    <2> QED
      BY <2>1, <2>2, <2>3, TodoIInv DEF TypeOK
  <1> QED
    BY <1>1, <1>2, <1>3, <1>4 DEF Next

----------------------------------------------------------------------------
\* The frame table keeps its inductive invariant under every order of events,
\* also inside the creation of frames (FrameTable.cpp, UpgradrBHO.cpp).
THEOREM Invariance == Spec => []IInv
  BY InitIInv, NextIInv, PTL DEF Spec

\* Frame ids, links and documents of the table are what they should be.
THEOREM TypeCorrect == Spec => []TypeOK
  <1>1. IInv => TypeOK
    BY DEF IInv
  <1> QED
    BY <1>1, Invariance, PTL

\* A managed document has a frame that wraps it: Destroy and OnBeforeNavigate2
\* never meet an unknown id (FrameTable.cpp:51, UpgradrBHO.cpp:258).
THEOREM ManagedIsFound == Spec => []ManagedHasFrame
  <1>1. IInv => ManagedHasFrame
    BY DEF IInv
  <1> QED
    BY <1>1, Invariance, PTL

\* No link leads to a frame that is gone (RemoveLink, FrameTable.cpp:134-140).
THEOREM LinksAreLive == Spec => []LinksInTable
  <1>1. IInv => LinksInTable
    BY DEF IInv
  <1> QED
    BY <1>1, Invariance, PTL

\* Links follow the embedding of documents (CFrame::UpdateLinks).
THEOREM LinksAreTree == Spec => []LinksFollowTree
  <1>1. IInv => LinksFollowTree
    BY DEF IInv
  <1> QED
    BY <1>1, Invariance, PTL

\* The place of a new frame is free when its scripts have run
\* (FrameTable.cpp:99, 101).
THEOREM InsertSucceeds == Spec => []InsertFindsRoom
  <1>1. IInv => InsertFindsRoom
    BY DEF IInv, TodoOK, Apart, Outside, IsInsert, InsertFindsRoom, PendingIds
  <1> QED
    BY <1>1, Invariance, PTL

----------------------------------------------------------------------------
\* Why a refresh misses no document.  Each document it found is managed, or a step
\* that is left, ahead of the update of the links, will see to that.  A document
\* is in the tab with those it is embedded in, and there is one top document.
ParentsShown ==
    /\ \A d \in Docs \ born : parent[d] = NoDoc
    /\ \A d \in shown : parent[d] # NoDoc => parent[d] \in shown
OneTop == \A d, e \in shown : IsTop(d) /\ IsTop(e) => d = e
FoundOrAwaited ==
    /\ expected \subseteq born
    /\ \A d \in expected \cap shown : IsManaged(d) \/ Awaited(todo, d)

RInv == IInv /\ ParentsShown /\ OneTop /\ FoundOrAwaited

\* A document is in its own subtree, with all that is embedded in the subtree.
LEMMA SubtreeClosed ==
    ASSUME NEW d
    PROVE  /\ d \in shown => d \in Subtree(d)
           /\ Subtree(d) \subseteq shown
           /\ \A x \in Subtree(d) : \A y \in Embedded(x) : y \in Subtree(d)
  <1> DEFINE next == [c \in shown |-> Embedded(c)]
  <1>1. DOMAIN next = shown /\ \A c \in shown : next[c] = Embedded(c)
    OBVIOUS
  <1>2. Subtree(d) = {y \in shown : \A S \in SUBSET shown :
           d \in S /\ (\A x \in S : Embedded(x) \subseteq S) => y \in S}
    BY <1>1 DEF Subtree, Reachable
  <1>3. \A c : Embedded(c) \subseteq shown
    BY DEF Embedded
  <1> HIDE DEF next
  <1>4. d \in shown => d \in Subtree(d)
    BY <1>2
  <1>5. ASSUME NEW x \in Subtree(d), NEW y \in Embedded(x) PROVE y \in Subtree(d)
    <2>1. y \in shown
      BY <1>3, <1>5
    <2>2. ASSUME NEW S \in SUBSET shown, d \in S, \A z \in S : Embedded(z) \subseteq S
          PROVE  y \in S
      <3>1. x \in S
        BY <1>2, <2>2
      <3> QED
        BY <2>2, <3>1
    <2> QED
      BY <1>2, <2>1, <2>2
  <1> QED
    BY <1>2, <1>4, <1>5

\* Destroy leaves the documents managed that are in the tab but not embedded, at
\* any depth, in the one it is called for.
LEMMA DestroyKeeps ==
    ASSUME IInv, ParentsShown, NEW d \in shown, IsManaged(d), Destroy(d),
           NEW e \in shown, e \notin Subtree(d), IsManaged(e)
    PROVE  IsManaged(e)'
  <1> DEFINE next == [id \in DOMAIN table |-> table[id].links]
             ids == Reachable(frameId[d], next)
             S == {id \in DOMAIN table : table[id].doc \in shown => table[id].doc \in Subtree(d)}
  <1>1. TypeOK /\ ManagedHasFrame /\ LinksInTable /\ LinksFollowTree
    BY DEF IInv
  <1>2. DOMAIN next = DOMAIN table /\ \A id \in DOMAIN table : next[id] = table[id].links
    OBVIOUS
  <1>3. frameId[d] \in S
    <2>1. d \in Docs
      BY <1>1 DEF TypeOK
    <2>2. frameId[d] \in DOMAIN table /\ table[frameId[d]].doc = d
      BY <1>1, <2>1 DEF ManagedHasFrame
    <2> QED
      BY <2>2, SubtreeClosed
  <1>4. ASSUME NEW id \in S, NEW link \in table[id].links PROVE link \in S
    <2>1. link \in DOMAIN table /\ parent[table[link].doc] = table[id].doc
      BY <1>1 DEF LinksInTable, LinksFollowTree
    <2>2. table[id].doc \in Docs
      BY <1>1 DEF TypeOK
    <2>3. ASSUME table[link].doc \in shown PROVE table[link].doc \in Subtree(d)
      <3>1. table[id].doc \in shown
        BY <2>1, <2>2, <2>3, DocsAssumption DEF ParentsShown
      <3>2. table[id].doc \in Subtree(d)
        BY <3>1
      <3>3. table[link].doc \in Embedded(table[id].doc)
        BY <2>1, <2>3 DEF Embedded
      <3> QED
        BY <3>2, <3>3, SubtreeClosed
    <2> QED
      BY <2>1, <2>3
  <1>5. ids \subseteq S
    <2> SUFFICES ASSUME NEW y \in ids PROVE y \in S
      OBVIOUS
    <2>1. \A R \in SUBSET DOMAIN next :
             frameId[d] \in R /\ (\A x \in R : next[x] \subseteq R) => y \in R
      BY DEF Reachable
    <2>2. S \in SUBSET DOMAIN next /\ \A x \in S : next[x] \subseteq S
      BY <1>2, <1>4
    <2> HIDE DEF S, next, ids
    <2> QED
      BY <1>3, <2>1, <2>2
  <1>6. RemoveFrames(ids)
    BY DEF Destroy
  <1> HIDE DEF ids
  <1>7. frameId'[e] = frameId[e]
    <2>1. ~ \E id \in ids \cap DOMAIN table : table[id].doc = e
      BY <1>5
    <2>2. e \in Docs
      BY <1>1 DEF TypeOK
    <2> QED
      BY <1>6, <2>1, <2>2 DEF RemoveFrames
  <1> QED
    BY <1>7 DEF IsManaged

\* A document is awaited after a step as it is by the steps that are left then, if
\* it is a top document or not as before.
LEMMA AwaitedNext ==
    ASSUME NEW d, IsTop(d)' <=> IsTop(d), Awaited(todo', d)
    PROVE  Awaited(todo, d)'
  <1>1. \A step : Covers(step, d)' <=> Covers(step, d)
    BY DEF Covers
  <1> QED
    BY <1>1 DEF Awaited

\* What is awaited, by the first step and the others.
LEMMA AwaitedHead ==
    ASSUME IInv, todo # <<>>, NEW d
    PROVE  Awaited(todo, d) <=>
              /\ ~IsUpdate(Head(todo))
              /\ (Covers(Head(todo), d) /\ Near(Tail(todo))) \/ Awaited(Tail(todo), d)
  <1> DEFINE S == StepsOf(born, m_NextId)
  <1>1. Head(todo) \in S /\ Tail(todo) \in Seq(S) /\ todo = <<Head(todo)>> \o Tail(todo)
    BY TodoHead DEF IInv
  <1> HIDE DEF S
  <1>2. Awaited(<<Head(todo)>> \o Tail(todo), d) <=>
           /\ ~IsUpdate(Head(todo))
           /\ (Covers(Head(todo), d) /\ Near(Tail(todo))) \/ Awaited(Tail(todo), d)
    BY <1>1, AwaitedPushed
  <1> QED
    BY <1>1, <1>2, Zenon

\* The shape of the tab.
LEMMA ShapeNext ==
    ASSUME IInv, ParentsShown, OneTop, [Next]_vars
    PROVE  ParentsShown' /\ OneTop'
  <1>1. TypeOK
    BY DEF IInv
  <1>2. CASE UNCHANGED ie
    BY <1>2 DEF ie, ParentsShown, OneTop, IsTop
  <1>3. ASSUME NEW d \in Docs, LoadTop(d) PROVE ParentsShown' /\ OneTop'
    BY <1>1, <1>3 DEF LoadTop, ParentsShown, OneTop, IsTop
  <1>4. ASSUME NEW d \in Docs, NEW p \in Docs, Load(d, p) PROVE ParentsShown' /\ OneTop'
    <2>1. /\ d \notin born /\ p \in shown /\ p # NoDoc
          /\ born' = born \cup {d} /\ shown' = shown \cup {d}
          /\ parent' = [parent EXCEPT ![d] = p]
      BY <1>1, <1>4, DocsAssumption DEF Load
    <2>2. parent'[d] = p /\ \A e \in Docs \ {d} : parent'[e] = parent[e]
      BY <1>1, <2>1 DEF TypeOK
    <2>3. shown \subseteq Docs
      BY <1>1 DEF TypeOK
    <2>4. ParentsShown'
      BY <2>1, <2>2, <2>3 DEF ParentsShown
    <2>5. OneTop'
      <3>1. \A e \in shown' : IsTop(e)' => e \in shown /\ IsTop(e)
        BY <2>1, <2>2, <2>3 DEF IsTop
      <3> QED
        BY <3>1 DEF OneTop
    <2> QED
      BY <2>4, <2>5
  <1>5. ASSUME NEW d \in Docs, Unload(d) PROVE ParentsShown' /\ OneTop'
    <2>1. /\ shown' = shown \ Subtree(d)
          /\ born' = born /\ parent' = parent
      BY <1>5 DEF Unload
    <2>2. ASSUME NEW e \in shown', parent[e] # NoDoc PROVE parent[e] \in shown'
      <3>1. e \in Embedded(parent[e]) /\ e \notin Subtree(d) /\ parent[e] \in shown
        BY <2>1, <2>2 DEF Embedded, ParentsShown
      <3> QED
        BY <2>1, <3>1, SubtreeClosed
    <2>3. ParentsShown'
      BY <2>1, <2>2 DEF ParentsShown
    <2>4. OneTop'
      BY <2>1 DEF OneTop, IsTop
    <2> QED
      BY <2>3, <2>4
  <1>6. CASE HandlerStep
    BY <1>2, <1>6 DEF HandlerStep, CreateStep, InsertStep, UpdateLinksStep, SetupStep,
       MissingStep, CreateTopStep, Throw, UpdateLinksFails
  <1>7. CASE Event
    BY <1>2, <1>7 DEF Event, OnDocumentComplete, OnBeforeNavigate2, OnRefreshStart,
       OnProgressChange, OnDownload
  <1>8. CASE UNCHANGED vars
    BY <1>2, <1>8 DEF vars
  <1> QED
    BY <1>3, <1>4, <1>5, <1>6, <1>7, <1>8 DEF Next, IEStep

\* To show that a step keeps FoundOrAwaited, when the tab stays as it is.
LEMMA FoundNext ==
    ASSUME UNCHANGED ie, expected' \subseteq born,
           \A d \in expected' \cap shown : IsManaged(d)' \/ Awaited(todo', d)
    PROVE  FoundOrAwaited'
  <1>1. \A d : IsTop(d)' <=> IsTop(d)
    BY DEF ie, IsTop
  <1>2. expected' \subseteq born'
    BY DEF ie
  <1>3. ASSUME NEW d \in expected' \cap shown' PROVE IsManaged(d)' \/ Awaited(todo, d)'
    BY <1>1, <1>3, AwaitedNext DEF ie
  <1> QED
    BY <1>2, <1>3 DEF FoundOrAwaited

\* Documents that IE loads were not found by the last refresh.
LEMMA IEFound ==
    ASSUME RInv, NEW d \in Docs, LoadTop(d) \/ Unload(d) \/ \E p \in Docs : Load(d, p)
    PROVE  FoundOrAwaited'
  <1>1. TypeOK /\ FoundOrAwaited
    BY DEF RInv, IInv
  <1>2. /\ UNCHANGED <<frames, todo, expected>>
        /\ born \subseteq born'
        /\ shown' \cap born \subseteq shown
        /\ \A e \in born : parent'[e] = parent[e]
    <2>1. CASE LoadTop(d)
      BY <1>1, <2>1 DEF LoadTop
    <2>2. CASE Unload(d)
      BY <2>2 DEF Unload
    <2>3. CASE \E p \in Docs : Load(d, p)
      BY <1>1, <2>3 DEF Load, TypeOK
    <2> QED
      BY <2>1, <2>2, <2>3
  <1>3. expected' \subseteq born'
    BY <1>1, <1>2 DEF FoundOrAwaited
  <1>4. ASSUME NEW e \in expected' \cap shown' PROVE IsManaged(e)' \/ Awaited(todo, e)'
    <2>1. e \in expected \cap shown /\ e \in born
      BY <1>1, <1>2, <1>4 DEF FoundOrAwaited
    <2>2. IsTop(e)' <=> IsTop(e)
      BY <1>2, <1>4, <2>1 DEF IsTop
    <2>3. CASE IsManaged(e)
      BY <1>2, <2>3 DEF IsManaged, frames
    <2>4. CASE Awaited(todo, e)
      BY <1>2, <2>2, <2>4, AwaitedNext
    <2> QED
      BY <1>1, <2>1, <2>3, <2>4 DEF FoundOrAwaited
  <1> QED
    BY <1>3, <1>4 DEF FoundOrAwaited

\* A document whose frame is made is awaited through its insertion.
LEMMA CreateStepFound == ASSUME RInv, CreateStep PROVE FoundOrAwaited'
  <1> DEFINE d == Head(todo).doc
             S == StepsOf(born, m_NextId')
  <1>1. IInv /\ IInv' /\ FoundOrAwaited /\ TypeOK
    BY CreateStepIInv DEF RInv, IInv
  <1>2. /\ todo # <<>> /\ Head(todo).do = "create"
        /\ UNCHANGED <<ie, frames, expected>>
        /\ \/ todo' = Tail(todo) /\ IsManaged(d)
           \/ /\ m_NextId' = m_NextId + 1
              /\ todo' = <<Insert(d, m_NextId')>> \o Tail(todo)
    BY DEF CreateStep, Doing, GenerateFrameId
  <1>3. \A e : Awaited(todo, e) => (e = d /\ Near(Tail(todo))) \/ Awaited(Tail(todo), e)
    BY <1>1, <1>2, AwaitedHead DEF Covers
  <1>4. CASE todo' = Tail(todo) /\ IsManaged(d)
    <2>1. \A e \in expected \cap shown : IsManaged(e) \/ Awaited(todo', e)
      BY <1>1, <1>3, <1>4 DEF FoundOrAwaited
    <2> QED
      BY <1>1, <1>2, <2>1, FoundNext DEF FoundOrAwaited, IsManaged, frames
  <1>5. CASE m_NextId' = m_NextId + 1 /\ todo' = <<Insert(d, m_NextId')>> \o Tail(todo)
    <2>1. /\ Head(todo) \in StepsOf(born, m_NextId)
          /\ Tail(todo) \in Seq(StepsOf(born, m_NextId))
      BY <1>1, <1>2, TodoHead DEF IInv
    <2>2. m_NextId \in Nat /\ m_NextId' \in Nat /\ m_NextId <= m_NextId'
      BY <1>1, <1>5 DEF TypeOK
    <2>3. StepsOf(born, m_NextId) \subseteq S
      BY <2>2, MoreSteps
    <2>4. d \in born
      BY <1>2, <2>1 DEF StepsOf
    <2>5. Insert(d, m_NextId') \in S
      BY <1>5, <2>2, <2>4, StepTypes
    <2>6. Tail(todo) \in Seq(S)
      BY <2>1, <2>3, SeqMonotonic
    <2>7. /\ Insert(d, m_NextId').do = "insert"
          /\ Insert(d, m_NextId').doc = d
      BY DEF Insert
    <2> HIDE DEF S, d
    <2>8. \A e : Awaited(todo', e) <=>
             /\ ~IsUpdate(Insert(d, m_NextId'))
             /\ \/ Covers(Insert(d, m_NextId'), e) /\ Near(Tail(todo))
                \/ Awaited(Tail(todo), e)
      BY <1>5, <2>5, <2>6, AwaitedPushed
    <2>9. \A e \in expected \cap shown : IsManaged(e) \/ Awaited(todo', e)
      BY <1>1, <1>3, <2>7, <2>8 DEF FoundOrAwaited, Covers, IsUpdate
    <2> QED
      BY <1>1, <1>2, <2>9, FoundNext DEF FoundOrAwaited, IsManaged, frames
  <1> QED
    BY <1>2, <1>4, <1>5

\* A document whose frame is inserted is managed.
LEMMA InsertStepFound == ASSUME RInv, InsertStep PROVE FoundOrAwaited'
  <1> DEFINE d == Head(todo).doc
             new == Head(todo).id
  <1>1. IInv /\ FoundOrAwaited /\ TypeOK
    BY DEF RInv, IInv
  <1>2. /\ todo # <<>> /\ Head(todo).do = "insert"
        /\ UNCHANGED <<ie, expected>>
        /\ todo' = Tail(todo)
        /\ frameId' = [frameId EXCEPT ![d] = new]
    BY DEF InsertStep, Doing
  <1>3. Head(todo) \in StepsOf(born, m_NextId)
    BY <1>1, <1>2, TodoHead DEF IInv
  <1>4. new \in 1 .. m_NextId
    BY <1>2, <1>3 DEF StepsOf
  <1>5. \A e : Awaited(todo, e) => e = d \/ Awaited(Tail(todo), e)
    BY <1>1, <1>2, AwaitedHead DEF Covers
  <1> HIDE DEF d, new
  <1>6. \A e \in Docs : frameId'[e] = IF e = d THEN new ELSE frameId[e]
    BY <1>1, <1>2 DEF TypeOK
  <1>7. ASSUME NEW e \in expected \cap shown PROVE IsManaged(e)' \/ Awaited(todo', e)
    <2>1. e \in Docs
      BY <1>1 DEF TypeOK
    <2>2. CASE e = d
      BY <1>4, <1>6, <2>1, <2>2 DEF IsManaged, NULL_FRAME
    <2>3. CASE e # d
      BY <1>1, <1>2, <1>5, <1>6, <2>1, <2>3 DEF FoundOrAwaited, IsManaged
    <2> QED
      BY <2>2, <2>3
  <1> QED
    BY <1>1, <1>2, <1>7, FoundNext DEF FoundOrAwaited

\* Before an update nothing is awaited any more, so all that was found is managed.
LEMMA UpdateLinksStepFound == ASSUME RInv, UpdateLinksStep PROVE FoundOrAwaited'
  <1>1. IInv /\ FoundOrAwaited
    BY DEF RInv
  <1>2. /\ todo # <<>> /\ Head(todo).do = "update links"
        /\ UNCHANGED <<ie, expected, frameId>>
    BY DEF UpdateLinksStep, Doing
  <1>3. \A e \in expected \cap shown : IsManaged(e)
    BY <1>1, <1>2, AwaitedHead DEF FoundOrAwaited, IsUpdate
  <1> QED
    BY <1>1, <1>2, <1>3, FoundNext DEF FoundOrAwaited, IsManaged

\* After OnRefreshEnd every document of the tab is managed or awaited.
LEMMA RefreshFound ==
    ASSUME TypeOK, NEW s \in Seq(StepsOf(born, m_NextId)), Apart(s),
           Outside(s, DOMAIN table), OnRefreshEnd(s), UNCHANGED <<ie, frames>>
    PROVE  FoundOrAwaited'
  <1> DEFINE S == StepsOf(born, m_NextId)
             a == Missing(FindMissingLinks)
             s1 == <<UpdateLinks>> \o s
             s2 == <<CreateTop>> \o s1
  <1>1. expected' = shown /\ shown \subseteq born
    BY DEF OnRefreshEnd, TypeOK
  <1>2. todo' = <<a>> \o s2
    BY RefreshTodo
  <1>3. a \in S /\ CreateTop \in S /\ UpdateLinks \in S
    <2>1. FindMissingLinks \in SUBSET born
      BY DEF FindMissingLinks, TypeOK
    <2> QED
      BY <2>1, StepTypes
  <1>4. /\ a.do = "missing" /\ a.docs = FindMissingLinks /\ ~IsUpdate(a)
        /\ CreateTop.do = "create top"
        /\ ~IsUpdate(CreateTop) /\ ~IsInsert(CreateTop)
        /\ IsUpdate(UpdateLinks) /\ ~IsInsert(UpdateLinks)
    BY DEF Missing, CreateTop, UpdateLinks, IsUpdate, IsInsert
  <1>5. s \in Seq(S)
    OBVIOUS
  <1> HIDE DEF S, a
  <1>6. s1 \in Seq(S) /\ Near(s1)
    BY <1>3, <1>4, <1>5, Pushed, NearPushed
  <1> HIDE DEF s1
  <1>7. s2 \in Seq(S) /\ Near(s2)
    BY <1>3, <1>4, <1>6, Pushed, NearPushed
  <1>8. ASSUME NEW d \in shown, ~IsManaged(d) PROVE Awaited(todo', d)
    <2>1. CASE IsTop(d)
      <3>1. Covers(CreateTop, d)
        BY <1>4, <2>1 DEF Covers
      <3>2. Awaited(s2, d)
        BY <1>3, <1>4, <1>6, <3>1, AwaitedPushed
      <3> HIDE DEF s2
      <3> QED
        BY <1>2, <1>3, <1>4, <1>7, <3>2, AwaitedPushed
    <2>2. CASE ~IsTop(d)
      <3>1. Covers(a, d)
        BY <1>4, <1>8, <2>2 DEF Covers, FindMissingLinks
      <3> HIDE DEF s2
      <3> QED
        BY <1>2, <1>3, <1>4, <1>7, <3>1, AwaitedPushed
    <2> QED
      BY <2>1, <2>2
  <1> QED
    BY <1>1, <1>8, FoundNext DEF IsManaged, frames

\* The end of a refresh awaits all that it finds.
LEMMA SetupStepFound == ASSUME RInv, SetupStep PROVE FoundOrAwaited'
  <1>1. IInv /\ TypeOK /\ TodoOK
    BY DEF RInv, IInv
  <1>2. /\ todo # <<>>
        /\ OnRefreshEnd(Tail(todo)) /\ UNCHANGED <<ie, frames>>
    BY DEF SetupStep, Doing
  <1>3. /\ Tail(todo) \in Seq(StepsOf(born, m_NextId))
        /\ Apart(Tail(todo)) /\ Outside(Tail(todo), DOMAIN table)
    BY <1>1, <1>2, TodoHead
  <1> QED
    BY <1>1, <1>2, <1>3, RefreshFound

\* So does the end of a refresh that is seen late.
LEMMA OnProgressChangeFound == ASSUME RInv, OnProgressChange PROVE FoundOrAwaited'
  <1>1. TypeOK /\ TodoOK
    BY DEF RInv, IInv
  <1>2. OnRefreshEnd(todo) /\ UNCHANGED <<ie, frames>>
    BY DEF OnProgressChange
  <1> QED
    BY <1>1, <1>2, RefreshFound DEF TodoOK

\* The documents still missing are awaited through the loop's next turn.
LEMMA MissingStepFound == ASSUME RInv, MissingStep PROVE FoundOrAwaited'
  <1> DEFINE docs == Head(todo).docs
             S == StepsOf(born, m_NextId)
             T == Tail(todo)
  <1>1. IInv /\ FoundOrAwaited /\ TypeOK /\ TodoOK
    BY DEF RInv, IInv
  <1>2. /\ todo # <<>> /\ Head(todo).do = "missing"
        /\ UNCHANGED <<ie, frames, expected>>
    BY DEF MissingStep, Doing
  <1>3. Head(todo) \in S /\ T \in Seq(S)
    BY <1>1, <1>2, TodoHead
  <1>4. docs \in SUBSET born
    BY <1>2, <1>3 DEF StepsOf
  <1>5. \A e : Awaited(todo, e) => (e \in docs /\ Near(T)) \/ Awaited(T, e)
    BY <1>1, <1>2, AwaitedHead DEF Covers
  <1>6. ASSUME NEW e \in expected \cap shown, ~IsManaged(e) PROVE Awaited(todo', e)
    <2>1. (e \in docs /\ Near(T)) \/ Awaited(T, e)
      BY <1>1, <1>5, <1>6 DEF FoundOrAwaited
    <2>2. CASE docs = {} /\ todo' = T
      BY <2>1, <2>2
    <2>3. ASSUME NEW d \in docs,
                 \/ IsManaged(d) /\ todo' = <<Missing(docs \ {d})>> \o T
                 \/ ~IsManaged(d) /\ todo' = <<Create(d)>> \o (<<Missing(docs \ {d})>> \o T)
          PROVE  Awaited(todo', e)
      <3> DEFINE b == Missing(docs \ {d})
                 s == <<b>> \o T
      <3>1. b \in S /\ Create(d) \in S
        BY <1>4, StepTypes
      <3>2. b.do = "missing" /\ b.docs = docs \ {d} /\ ~IsUpdate(b) /\ ~IsInsert(b)
        BY DEF Missing, IsUpdate, IsInsert
      <3>3. Create(d).do = "create" /\ Create(d).doc = d /\ ~IsUpdate(Create(d))
        BY DEF Create, IsUpdate
      <3> HIDE DEF b, S, T, docs
      <3>4. s \in Seq(S)
        BY <1>3, <3>1, Pushed
      <3>5. Awaited(s, e) <=>
               ~IsUpdate(b) /\ ((Covers(b, e) /\ Near(T)) \/ Awaited(T, e))
        BY <1>3, <3>1, AwaitedPushed
      <3>9. Near(T) => Near(s)
        BY <1>3, <3>1, <3>2, NearPushed
      <3>6. (e = d /\ Near(s)) \/ Awaited(s, e)
        BY <2>1, <3>2, <3>5, <3>9 DEF Covers
      <3>7. CASE IsManaged(d) /\ todo' = s
        BY <1>6, <3>6, <3>7
      <3> HIDE DEF s
      <3>8. CASE todo' = <<Create(d)>> \o s
        <4>1. Awaited(<<Create(d)>> \o s, e) <=>
                 /\ ~IsUpdate(Create(d))
                 /\ (Covers(Create(d), e) /\ Near(s)) \/ Awaited(s, e)
          BY <3>1, <3>4, AwaitedPushed
        <4> QED
          BY <3>3, <3>6, <3>8, <4>1 DEF Covers
      <3> QED
        BY <2>3, <3>7, <3>8 DEF s, b
    <2> QED
      BY <1>1, <2>2, <2>3, MissingTodo
  <1> QED
    BY <1>1, <1>2, <1>6, FoundNext DEF FoundOrAwaited, IsManaged, frames

\* The top document found is the one in the tab.
LEMMA CreateTopStepFound == ASSUME RInv, CreateTopStep PROVE FoundOrAwaited'
  <1> DEFINE S == StepsOf(born, m_NextId)
             T == Tail(todo)
  <1>1. IInv /\ FoundOrAwaited /\ TypeOK /\ OneTop
    BY DEF RInv, IInv
  <1>2. /\ todo # <<>> /\ Head(todo).do = "create top"
        /\ UNCHANGED <<ie, frames, expected>>
    BY DEF CreateTopStep, Doing
  <1>3. PICK d \in shown : IsTop(d) /\ todo' = <<Create(d)>> \o T
    BY DEF CreateTopStep
  <1>4. T \in Seq(S) /\ Create(d) \in S
    BY <1>1, <1>2, TodoHead, StepTypes DEF IInv, TypeOK
  <1>5. Create(d).do = "create" /\ Create(d).doc = d /\ ~IsUpdate(Create(d))
    BY DEF Create, IsUpdate
  <1>6. \A e \in shown : Awaited(todo, e) => (e = d /\ Near(T)) \/ Awaited(T, e)
    BY <1>1, <1>2, <1>3, AwaitedHead DEF Covers, OneTop
  <1> HIDE DEF S, T
  <1>7. \A e : Awaited(todo', e) <=>
           ~IsUpdate(Create(d)) /\ ((Covers(Create(d), e) /\ Near(T)) \/ Awaited(T, e))
    BY <1>3, <1>4, AwaitedPushed
  <1>8. \A e \in expected \cap shown : IsManaged(e) \/ Awaited(todo', e)
    BY <1>1, <1>5, <1>6, <1>7 DEF FoundOrAwaited, Covers
  <1> QED
    BY <1>1, <1>2, <1>8, FoundNext DEF FoundOrAwaited, IsManaged, frames

\* Steps put before others leave what is awaited awaited.
LEMMA CompleteFound ==
    ASSUME RInv, NEW d \in Docs, OnDocumentComplete(d) PROVE FoundOrAwaited'
  <1> DEFINE S == StepsOf(born, m_NextId)
             s == IF IsTop(d) THEN <<SetupEnvironment>> \o todo ELSE todo
  <1>1. IInv /\ FoundOrAwaited /\ TypeOK /\ TodoOK /\ ParentsShown
    BY DEF RInv, IInv
  <1>2. /\ d \in shown /\ d \in born
        /\ IF IsManaged(d) THEN Destroy(d) ELSE UNCHANGED <<frames, expected>>
        /\ UNCHANGED ie
    BY <1>1 DEF OnDocumentComplete, TypeOK
  <1>3. todo' = <<Create(d)>> \o s /\ s \in Seq(S)
    BY <1>1, <1>2, CompleteTodo
  <1>4. todo \in Seq(S) /\ Create(d) \in S /\ SetupEnvironment \in S
    BY <1>1, <1>2, StepTypes DEF TodoOK
  <1>5. ~IsUpdate(Create(d)) /\ ~IsUpdate(SetupEnvironment)
    BY DEF Create, SetupEnvironment, IsUpdate
  <1>6. ASSUME NEW e, Awaited(todo, e) PROVE Awaited(todo', e)
    <2> HIDE DEF S
    <2>1. Awaited(s, e)
      BY <1>4, <1>5, <1>6, AwaitedPushed
    <2> HIDE DEF s
    <2> QED
      BY <1>3, <1>4, <1>5, <2>1, AwaitedPushed
  <1>7. CASE ~IsManaged(d)
    BY <1>1, <1>2, <1>6, <1>7, FoundNext DEF FoundOrAwaited, IsManaged, frames
  <1>8. CASE IsManaged(d)
    <2>1. Destroy(d) /\ expected' = expected \ Subtree(d)
      BY <1>2, <1>8 DEF Destroy
    <2>2. ASSUME NEW e \in expected' \cap shown PROVE IsManaged(e)' \/ Awaited(todo', e)
      BY <1>1, <1>2, <1>6, <1>8, <2>1, <2>2, DestroyKeeps DEF FoundOrAwaited
    <2>3. expected' \subseteq born
      BY <1>1, <2>1 DEF FoundOrAwaited
    <2> QED
      BY <1>2, <2>2, <2>3, FoundNext
  <1> QED
    BY <1>7, <1>8

\* A navigation forgets the documents whose frames it destroys.
LEMMA NavigateFound ==
    ASSUME RInv, NEW d \in Docs, OnBeforeNavigate2(d) PROVE FoundOrAwaited'
  <1>1. IInv /\ FoundOrAwaited /\ ParentsShown
    BY DEF RInv
  <1>2. d \in shown /\ IsManaged(d) /\ Destroy(d) /\ UNCHANGED <<ie, todo>>
    BY DEF OnBeforeNavigate2
  <1>3. expected' = expected \ Subtree(d)
    BY <1>2 DEF Destroy
  <1>4. ASSUME NEW e \in expected' \cap shown PROVE IsManaged(e)' \/ Awaited(todo', e)
    BY <1>1, <1>2, <1>3, <1>4, DestroyKeeps DEF FoundOrAwaited
  <1> QED
    BY <1>1, <1>2, <1>3, <1>4, FoundNext DEF FoundOrAwaited

\* An exception ends one handler: a document that is awaited is awaited in another,
\* unless the update of the links was left to this one.
LEMMA UnwindFound ==
    ASSUME RInv, Unwind, UNCHANGED <<ie, frameId>>
    PROVE  FoundOrAwaited'
  <1> DEFINE S == StepsOf(born, m_NextId)
  <1>1. FoundOrAwaited /\ todo \in Seq(S)
    BY DEF RInv, IInv, TodoOK
  <1>2. PICK n \in DOMAIN todo :
           /\ \A i \in 2 .. n : todo[i].do # "insert"
           /\ n < Len(todo) => todo[n + 1].do = "insert"
           /\ todo' = SubSeq(todo, n + 1, Len(todo))
           /\ expected' = IF \E i \in 1 .. n : todo[i].do = "update links"
                          THEN {} ELSE expected
    BY DEF Unwind
  <1>7. n \in DOMAIN todo /\ todo \in Seq(S) /\ todo' = SubSeq(todo, n + 1, Len(todo))
    BY <1>1, <1>2
  <1> HIDE DEF S
  <1>3. /\ \A i \in DOMAIN todo' : i + n \in DOMAIN todo /\ todo'[i] = todo[i + n]
        /\ \A i \in DOMAIN todo : n < i => i - n \in DOMAIN todo' /\ todo'[i - n] = todo[i]
        /\ DOMAIN todo' \subseteq Nat /\ DOMAIN todo \subseteq Nat
    BY <1>7, Dropped
  <1>4. Len(todo) \in Nat /\ DOMAIN todo = 1 .. Len(todo)
    BY <1>1, LenProperties
  <1>5. CASE \E i \in 1 .. n : todo[i].do = "update links"
    <2>1. expected' = {}
      BY <1>2, <1>5
    <2> QED
      BY <2>1, FoundNext
  <1>6. CASE ~ \E i \in 1 .. n : todo[i].do = "update links"
    <2>1. expected' = expected
      BY <1>2, <1>6
    <2>2. ASSUME NEW d, Awaited(todo, d) PROVE Awaited(todo', d)
      <3> SUFFICES ASSUME NEW m \in DOMAIN todo', IsUpdate(todo'[m])
                   PROVE  \E k, j \in DOMAIN todo' :
                             /\ k <= m /\ IsUpdate(todo'[k])
                             /\ j < k /\ Covers(todo'[j], d)
                             /\ \A i \in DOMAIN todo' :
                                   j < i /\ i < k => ~IsInsert(todo'[i])
        BY DEF Awaited
      <3>1. m + n \in DOMAIN todo /\ IsUpdate(todo[m + n])
        BY <1>3
      <3>2. PICK k, j \in DOMAIN todo :
               /\ k <= m + n /\ IsUpdate(todo[k])
               /\ j < k /\ Covers(todo[j], d)
               /\ \A i \in DOMAIN todo : j < i /\ i < k => ~IsInsert(todo[i])
        BY <2>2, <3>1 DEF Awaited
      <3>3. n < k
        <4>1. k \notin 1 .. n
          BY <1>6, <3>2 DEF IsUpdate
        <4> QED
          BY <1>4, <4>1
      <3>4. n < j
        <4> SUFFICES ASSUME j <= n PROVE FALSE
          BY <1>4
        <4>1. n + 1 \in DOMAIN todo /\ n < Len(todo) /\ j < n + 1 /\ n + 1 <= k
          BY <1>4, <3>2, <3>3
        <4>2. todo[n + 1].do = "insert"
          BY <1>2, <4>1
        <4>3. n + 1 # k
          BY <3>2, <4>2 DEF IsUpdate
        <4>4. n + 1 < k
          BY <1>4, <4>1, <4>3
        <4> QED
          BY <3>2, <4>1, <4>2, <4>4 DEF IsInsert
      <3>5. /\ k - n \in DOMAIN todo' /\ todo'[k - n] = todo[k] /\ k - n <= m
            /\ j - n \in DOMAIN todo' /\ todo'[j - n] = todo[j] /\ j - n < k - n
        <4>1. k - n <= m /\ j - n < k - n
          BY <1>3, <3>2
        <4> QED
          BY <1>3, <3>3, <3>4, <4>1
      <3>6. ASSUME NEW i \in DOMAIN todo', j - n < i, i < k - n PROVE ~IsInsert(todo'[i])
        <4>1. j < i + n /\ i + n < k
          BY <1>3, <3>6
        <4> QED
          BY <1>3, <3>2, <4>1
      <3> QED
        BY <3>2, <3>5, <3>6
    <2>3. \A d \in expected' \cap shown : IsManaged(d)' \/ Awaited(todo', d)
      BY <1>1, <2>1, <2>2 DEF FoundOrAwaited, IsManaged
    <2> QED
      BY <1>1, <2>1, <2>3, FoundNext DEF FoundOrAwaited
  <1> QED
    BY <1>5, <1>6

\* Every step keeps the stronger invariant.
LEMMA NextRInv == RInv /\ [Next]_vars => RInv'
  <1> SUFFICES ASSUME RInv, [Next]_vars PROVE RInv'
    OBVIOUS
  <1>1. IInv' /\ ParentsShown' /\ OneTop'
    BY NextIInv, ShapeNext DEF RInv
  <1>2. ASSUME UNCHANGED <<ie, frames, todo>>, expected' = expected \/ expected' = {}
        PROVE  FoundOrAwaited'
    BY <1>2, FoundNext DEF RInv, FoundOrAwaited, IsManaged, frames
  <1>3. FoundOrAwaited'
    <2>1. CASE IEStep
      BY <2>1, IEFound DEF IEStep
    <2>2. CASE HandlerStep
      BY <2>2, CreateStepFound, InsertStepFound, UpdateLinksStepFound, SetupStepFound,
         MissingStepFound, CreateTopStepFound, UnwindFound
         DEF HandlerStep, Throw, UpdateLinksFails, frames
    <2>3. CASE OnRefreshStart
      <3>1. UNCHANGED <<ie, todo>> /\ expected' = {}
        BY <2>3 DEF OnRefreshStart
      <3> QED
        BY <3>1, FoundNext
    <2>4. CASE OnDownload
      BY <1>2, <2>4 DEF OnDownload
    <2>5. CASE Event
      BY <2>3, <2>4, <2>5, CompleteFound, NavigateFound, OnProgressChangeFound DEF Event
    <2>6. CASE UNCHANGED vars
      BY <1>2, <2>6 DEF vars
    <2> QED
      BY <2>1, <2>2, <2>5, <2>6 DEF Next
  <1> QED
    BY <1>1, <1>3 DEF RInv

\* It holds at first.
LEMMA InitRInv == Init => RInv
  <1> SUFFICES ASSUME Init PROVE RInv
    OBVIOUS
  <1>1. IInv
    BY InitIInv
  <1>2. born = {} /\ shown = {} /\ expected = {} /\ parent = [d \in Docs |-> NoDoc]
    BY DEF Init
  <1> QED
    BY <1>1, <1>2 DEF RInv, ParentsShown, OneTop, FoundOrAwaited

\* A refresh misses no document that is still there when the links are updated,
\* whatever IE, scripts and events do meanwhile (UpgradrBHO.cpp:192-215).
THEOREM RefreshMissesNone == Spec => []RefreshFindsAll
  <1>1. RInv => RefreshFindsAll
    <2> SUFFICES ASSUME RInv, Doing("update links"), NEW d \in expected \cap shown
                 PROVE  IsManaged(d)
      BY DEF RefreshFindsAll
    <2>1. IInv /\ todo # <<>> /\ Head(todo).do = "update links"
      BY DEF RInv, Doing
    <2> QED
      BY <2>1, AwaitedHead DEF RInv, FoundOrAwaited, IsUpdate
  <1>2. Spec => []RInv
    BY InitRInv, NextRInv, PTL DEF Spec
  <1> QED
    BY <1>1, <1>2, PTL

=============================================================================
