-------------------------- MODULE EventGroupProofs --------------------------
(***************************************************************************)
(* Theorems about EventGroup.tla, for any number of tasks, flags, levels   *)
(* and ticks, as long as one added task never gives the processor up.      *)
(***************************************************************************)
EXTENDS EventGroup, KernelProofs, WellFoundedInduction

(***************************************************************************)
(* The loop of setEvents.  `Walk' is a recursive function: that its turns  *)
(* meet every queued task, although the queue shrinks under the index, is  *)
(* proved by induction on their number, with the principle stated for sets *)
(* of numbers.                                                             *)
(***************************************************************************)

\* A set of numbers that contains 0 and every successor contains them all.
LEMMA NatSetInduction ==
    ASSUME NEW T, T \subseteq Nat, 0 \in T, \A n \in T : n + 1 \in T
    PROVE  T = Nat
<1>1. SUFFICES ASSUME Nat \ T # {}
               PROVE  FALSE
      OBVIOUS
<1>2. \E m \in Nat \ T : \A k \in Nat \ T : ~(<<k, m>> \in OpToRel(<, Nat))
  <2>1. Nat \ T \subseteq Nat
        OBVIOUS
  <2> HIDE <1>1
  <2>2. Nat \ T # {}
        BY <1>1
  <2> QED BY <2>1, <2>2, NatLessThanWellFounded, WFMin
<1>3. \E m \in Nat \ T : \A k \in Nat \ T : ~(k < m)
  <2>1. \A k, m \in Nat : k < m => <<k, m>> \in OpToRel(<, Nat)
        BY DEF OpToRel
  <2> QED BY <1>2, <2>1
<1> HIDE <1>2
<1>4. PICK m \in Nat \ T : \A k \in Nat \ T : ~(k < m)
      BY <1>3
<1>5. m \in Nat /\ m # 0
      BY <1>4
<1>6. m - 1 \in T
      BY <1>4, <1>5
<1>7. m - 1 + 1 \in T
      BY <1>6
<1> QED BY <1>4, <1>5, <1>7

\* removeAt takes out one slot and moves those behind it.
LEMMA RemoveAtKeeps ==
    ASSUME NEW D, NEW q \in Seq(D), NEW k \in 1 .. Len(q)
    PROVE  /\ RemoveAt(q, k) \in Seq(D)
           /\ Len(RemoveAt(q, k)) = Len(q) - 1
           /\ \A j \in 1 .. k - 1 : RemoveAt(q, k)[j] = q[j]
           /\ IsInjective(q) => /\ IsInjective(RemoveAt(q, k))
                               /\ ToSet(RemoveAt(q, k)) = ToSet(q) \ {q[k]}
<1> DEFINE N == Len(q)
           a == SubSeq(q, 1, k - 1)
           b == SubSeq(q, k + 1, N)
           r == RemoveAt(q, k)
<1>1. N \in Nat /\ DOMAIN q = 1 .. N /\ \A i \in 1 .. N : q[i] \in D
      BY LenProperties, ElementOfSeq
<1>2. k \in Int /\ 1 <= k /\ k <= N
      BY <1>1
<1>3. /\ a \in Seq(D) /\ Len(a) = k - 1
      /\ \A i \in 1 .. k - 1 : a[i] = q[i]
  <2>1. 1 \in Int /\ k - 1 \in Int /\ \A i \in 1 .. k - 1 : q[i] \in D
        BY <1>1, <1>2
  <2>2. /\ a \in Seq(D) /\ Len(a) = IF 1 <= k - 1 THEN k - 1 - 1 + 1 ELSE 0
        /\ \A i \in 1 .. k - 1 - 1 + 1 : a[i] = q[1 + i - 1]
        BY <2>1, SubSeqProperties
  <2> HIDE DEF a
  <2> QED BY <1>2, <2>2
<1>4. /\ b \in Seq(D) /\ Len(b) = N - k
      /\ \A i \in 1 .. N - k : b[i] = q[k + i]
  <2>1. k + 1 \in Int /\ N \in Int /\ \A i \in k + 1 .. N : q[i] \in D
        BY <1>1, <1>2
  <2>2. /\ b \in Seq(D) /\ Len(b) = IF k + 1 <= N THEN N - (k + 1) + 1 ELSE 0
        /\ \A i \in 1 .. N - (k + 1) + 1 : b[i] = q[k + 1 + i - 1]
        BY <2>1, SubSeqProperties
  <2> HIDE DEF b, N
  <2>3. N - (k + 1) + 1 = N - k /\ (k + 1 <= N \/ N - k = 0)
        BY <1>1, <1>2
  <2>4. ASSUME NEW i \in 1 .. N - k
        PROVE  b[i] = q[k + i]
    <3>1. i \in 1 .. N - (k + 1) + 1 /\ k + 1 + i - 1 = k + i
          BY <1>1, <1>2, <2>3
    <3> QED BY <2>2, <3>1
  <2>5. Len(b) = N - k
        BY <1>1, <1>2, <2>2, <2>3
  <2> QED BY <2>2, <2>4, <2>5
<1>5. r = a \o b
      BY DEF RemoveAt
<1>6. /\ r \in Seq(D) /\ Len(r) = N - 1
      /\ \A i \in 1 .. N - 1 : r[i] = IF i < k THEN q[i] ELSE q[i + 1]
  <2> HIDE DEF a, b, r
  <2>1. /\ r \in Seq(D) /\ Len(r) = Len(a) + Len(b)
        /\ \A i \in 1 .. Len(a) + Len(b) : r[i] = IF i <= Len(a) THEN a[i] ELSE b[i - Len(a)]
        BY <1>3, <1>4, <1>5, ConcatProperties
  <2> HIDE DEF N
  <2>2. Len(a) + Len(b) = N - 1
        BY <1>1, <1>2, <1>3, <1>4
  <2>3. ASSUME NEW i \in 1 .. N - 1, i < k
        PROVE  r[i] = q[i]
    <3>1. i \in 1 .. k - 1 /\ i \in 1 .. Len(a) + Len(b) /\ i <= Len(a)
          BY <1>1, <1>2, <1>3, <2>2, <2>3
    <3> QED BY <1>3, <2>1, <3>1
  <2>4. ASSUME NEW i \in 1 .. N - 1, ~(i < k)
        PROVE  r[i] = q[i + 1]
    <3>1. i - (k - 1) \in 1 .. N - k /\ k + (i - (k - 1)) = i + 1
          BY <1>1, <1>2, <2>4
    <3>2. i \in 1 .. Len(a) + Len(b) /\ ~(i <= Len(a)) /\ Len(a) = k - 1
          BY <1>1, <1>2, <1>3, <2>2, <2>4
    <3>3. r[i] = b[i - (k - 1)]
          BY <2>1, <3>2
    <3> QED BY <1>4, <3>1, <3>3
  <2> QED BY <2>1, <2>2, <2>3, <2>4
<1>7. DOMAIN r = 1 .. N - 1
      BY <1>6, LenProperties
<1> HIDE DEF a, b, r, N
<1>8. \A j \in 1 .. k - 1 : r[j] = q[j]
      BY <1>1, <1>2, <1>6
<1>9. ASSUME IsInjective(q)
      PROVE  IsInjective(r) /\ ToSet(r) = ToSet(q) \ {q[k]}
  <2>1. \A i, j \in 1 .. N : q[i] = q[j] => i = j
        BY <1>1, <1>9 DEF IsInjective
  <2>2. \A i \in 1 .. N - 1 : \E m \in 1 .. N \ {k} : /\ r[i] = q[m]
                                                    /\ m = IF i < k THEN i ELSE i + 1
        BY <1>1, <1>2, <1>6
  <2>3. IsInjective(r)
    <3>1. ASSUME NEW i \in 1 .. N - 1, NEW j \in 1 .. N - 1, r[i] = r[j]
          PROVE  i = j
      <4>1. PICK m \in 1 .. N : r[i] = q[m] /\ m = IF i < k THEN i ELSE i + 1
            BY <2>2
      <4>2. PICK n \in 1 .. N : r[j] = q[n] /\ n = IF j < k THEN j ELSE j + 1
            BY <2>2
      <4>3. m = n
            BY <2>1, <3>1, <4>1, <4>2
      <4> QED BY <1>1, <1>2, <4>1, <4>2, <4>3
    <3> QED BY <1>7, <3>1 DEF IsInjective
  <2>4. ToSet(r) \subseteq ToSet(q) \ {q[k]}
    <3>1. ASSUME NEW i \in 1 .. N - 1
          PROVE  r[i] \in ToSet(q) \ {q[k]}
      <4>1. PICK m \in 1 .. N \ {k} : r[i] = q[m]
            BY <2>2
      <4>2. q[m] # q[k]
            BY <1>1, <1>2, <2>1, <4>1
      <4> QED BY <1>1, <4>1, <4>2 DEF ToSet
    <3> QED BY <1>7, <3>1 DEF ToSet
  <2>5. ToSet(q) \ {q[k]} \subseteq ToSet(r)
    <3>1. ASSUME NEW m \in 1 .. N, m # k
          PROVE  q[m] \in ToSet(r)
      <4>1. CASE m < k
        <5>1. m \in 1 .. N - 1 /\ r[m] = q[m]
              BY <1>1, <1>2, <1>6, <4>1
        <5> QED BY <1>7, <5>1 DEF ToSet
      <4>2. CASE ~(m < k)
        <5>1. m - 1 \in 1 .. N - 1 /\ ~(m - 1 < k) /\ m - 1 + 1 = m
              BY <1>1, <1>2, <3>1, <4>2
        <5>2. r[m - 1] = q[m]
              BY <1>6, <5>1
        <5> QED BY <1>7, <5>1, <5>2 DEF ToSet
      <4> QED BY <4>1, <4>2
    <3> QED BY <1>1, <3>1 DEF ToSet
  <2> QED BY <2>3, <2>4, <2>5
<1> QED BY <1>6, <1>8, <1>9 DEF r, N

\* Who executes is not queued, so the removal of a returning task removes nobody.
LEMMA RemoveNobody ==
    ASSUME NEW D, NEW q \in Seq(D), NEW t, t \notin ToSet(q)
    PROVE  RemoveFirst(q, t) = q
<1>1. DOMAIN q = 1 .. Len(q)
      BY LenProperties
<1> QED BY <1>1 DEF RemoveFirst, ToSet

\* Who has to be released when the flags F are set.
ReleasedBy(F) == {t \in ToSet(waitingTasks) : Hit(t, F)}

\* The loop has looked at the tasks before its index and found no flag of theirs,
\* and it has released tasks with a flag only; each turn does one or the other.
LEMMA WalkReleases ==
    ASSUME NEW D, waitingTasks \in Seq(D), IsInjective(waitingTasks), NEW F
    PROVE  /\ Walk(F).released = ReleasedBy(F)
           /\ Walk(F).queue \in Seq(D) /\ IsInjective(Walk(F).queue)
           /\ ToSet(Walk(F).queue) = ToSet(waitingTasks) \ ReleasedBy(F)
<1> DEFINE q == waitingTasks
           N == Len(q)
           Start0 == [i |-> 1, queue |-> q, released |-> {}]
           Step(f, n) == IF n = 0 THEN Start0 ELSE Turn(f[n - 1], F)
           walk == CHOOSE f : f = [n \in 0 .. N |-> Step(f, n)]
<1>1. N \in Nat /\ DOMAIN q = 1 .. N
      BY LenProperties
<1>2. \E f : f = [n \in 0 .. N |-> Step(f, n)]
  <2> DEFINE Defined == {m \in Nat : \E f : f = [n \in 0 .. m |-> Step(f, n)]}
  <2>1. 0 \in Defined
    <3>1. [n \in 0 .. 0 |-> Start0] = [n \in 0 .. 0 |-> Step([j \in 0 .. 0 |-> Start0], n)]
      <4> HIDE DEF Start0
      <4> QED OBVIOUS
    <3> HIDE DEF Step, Start0
    <3> QED BY <3>1
  <2>2. ASSUME NEW m \in Defined
        PROVE  m + 1 \in Defined
    <3>1. PICK f : f = [n \in 0 .. m |-> Step(f, n)]
          BY <2>2
    <3> DEFINE g == [n \in 0 .. m + 1 |-> IF n = m + 1 THEN Step(f, m + 1) ELSE f[n]]
    <3>2. ASSUME NEW n \in 0 .. m + 1
          PROVE  g[n] = Step(g, n)
      <4> HIDE DEF Start0
      <4>1. CASE n = 0
            BY <4>1, <3>1
      <4>2. CASE n \in 1 .. m
        <5>1. n \in 0 .. m /\ n - 1 \in 0 .. m /\ n # m + 1 /\ n - 1 # m + 1
              BY <4>2
        <5>2. f[n] = Step(f, n)
              BY <3>1, <5>1
        <5> QED BY <5>1, <5>2
      <4>3. CASE n = m + 1
            BY <4>3, <3>1
      <4> QED BY <4>1, <4>2, <4>3
    <3>3. g = [n \in 0 .. m + 1 |-> Step(g, n)]
          BY <3>2
    <3>4. \E h : h = [n \in 0 .. m + 1 |-> Step(h, n)]
      <4> HIDE DEF g, Step
      <4> QED BY <3>3
    <3>5. m + 1 \in Nat
          BY <2>2
    <3> HIDE DEF Step
    <3> QED BY <3>4, <3>5
  <2>3. Defined = Nat
        BY <2>1, <2>2, NatSetInduction
  <2> QED BY <1>1, <2>3
<1>3. walk = [n \in 0 .. N |-> Step(walk, n)]
      BY <1>2
<1>4. Walk(F) = walk[N]
      BY DEF Walk
<1> HIDE DEF walk
<1> DEFINE Good(w, n) ==
               /\ w = [i |-> w.i, queue |-> w.queue, released |-> w.released]
               /\ w.queue \in Seq(D) /\ IsInjective(w.queue)
               /\ ToSet(w.queue) = ToSet(q) \ w.released
               /\ w.released \subseteq ReleasedBy(F)
               /\ w.i \in Nat /\ w.i >= 1 /\ w.i <= Len(w.queue) + 1
               /\ w.i - 1 + N - Len(w.queue) = n
               /\ \A j \in 1 .. w.i - 1 : ~Hit(w.queue[j], F)
           Right == {n \in Nat : n <= N => Good(walk[n], n)}
<1>5. 0 \in Right
  <2>1. walk[0] = Start0
    <3>1. 0 \in 0 .. N
          BY <1>1
    <3>2. walk[0] = Step(walk, 0)
      <4> HIDE DEF Step
      <4> QED BY <1>3, <3>1
    <3> QED BY <3>2
  <2>2. Good(Start0, 0)
        BY <1>1
  <2> QED BY <2>1, <2>2
<1>6. ASSUME NEW n \in Right
      PROVE  n + 1 \in Right
  <2>1. SUFFICES ASSUME n + 1 <= N
                 PROVE  Good(walk[n + 1], n + 1)
        OBVIOUS
  <2> DEFINE w == walk[n]
             v == walk[n + 1]
  <2>2. Good(w, n) /\ n \in Nat /\ n < N
    <3> HIDE DEF Good
    <3> QED BY <1>1, <2>1
  <2>3. v = Turn(w, F)
    <3>1. n + 1 \in 0 .. N /\ n + 1 # 0 /\ n + 1 - 1 = n
          BY <1>1, <2>1, <2>2
    <3>2. v = Step(walk, n + 1)
      <4> HIDE DEF Step
      <4> QED BY <1>3, <3>1
    <3> QED BY <3>1, <3>2
  <2> HIDE DEF w, v
  <2>4. /\ Len(w.queue) \in Nat /\ DOMAIN w.queue = 1 .. Len(w.queue)
        /\ w.i \in 1 .. Len(w.queue)
        BY <1>1, <2>2, LenProperties
  <2>5. w.queue[w.i] \in ToSet(w.queue)
        BY <2>4 DEF ToSet
  <2>6. CASE Hit(w.queue[w.i], F)
    <3> DEFINE t == w.queue[w.i]
               r == RemoveAt(w.queue, w.i)
    <3>1. v = [i |-> w.i, queue |-> r, released |-> w.released \cup {t}]
          BY <2>3, <2>4, <2>6 DEF Turn
    <3>2. /\ r \in Seq(D) /\ Len(r) = Len(w.queue) - 1
          /\ \A j \in 1 .. w.i - 1 : r[j] = w.queue[j]
          /\ IsInjective(r) /\ ToSet(r) = ToSet(w.queue) \ {t}
      <4>1. w.queue \in Seq(D) /\ IsInjective(w.queue)
            BY <2>2
      <4> HIDE DEF Good
      <4> QED BY <2>4, <4>1, RemoveAtKeeps
    <3>3. t \in ReleasedBy(F)
          BY <2>2, <2>5, <2>6 DEF ReleasedBy
    <3> HIDE DEF t, r
    <3>4. v.i = w.i /\ v.queue = r /\ v.released = w.released \cup {t}
          BY <3>1
    <3>5. /\ v.queue \in Seq(D) /\ IsInjective(v.queue)
          /\ ToSet(v.queue) = ToSet(q) \ v.released
          /\ v.released \subseteq ReleasedBy(F)
          BY <2>2, <3>2, <3>3, <3>4
    <3>6. /\ v.i \in Nat /\ v.i >= 1 /\ v.i <= Len(v.queue) + 1
          /\ v.i - 1 + N - Len(v.queue) = n + 1
          BY <1>1, <2>2, <2>4, <3>2, <3>4
    <3>7. \A j \in 1 .. v.i - 1 : ~Hit(v.queue[j], F)
          BY <2>2, <3>2, <3>4
    <3> QED BY <3>1, <3>4, <3>5, <3>6, <3>7 DEF v
  <2>7. CASE ~Hit(w.queue[w.i], F)
    <3>1. v = [w EXCEPT !.i = w.i + 1]
          BY <2>3, <2>4, <2>7 DEF Turn
    <3>2. v = [i |-> w.i + 1, queue |-> w.queue, released |-> w.released]
          BY <2>2, <3>1
    <3>3. v.i = w.i + 1 /\ v.queue = w.queue /\ v.released = w.released
          BY <3>2
    <3>4. /\ v.queue \in Seq(D) /\ IsInjective(v.queue)
          /\ ToSet(v.queue) = ToSet(q) \ v.released
          /\ v.released \subseteq ReleasedBy(F)
          BY <2>2, <3>3
    <3>5. /\ v.i \in Nat /\ v.i >= 1 /\ v.i <= Len(v.queue) + 1
          /\ v.i - 1 + N - Len(v.queue) = n + 1
      <4>1. w.i \in Nat /\ w.i - 1 + N - Len(w.queue) = n
            BY <2>2
      <4>2. n \in Nat /\ Len(w.queue) \in Nat /\ w.i >= 1 /\ w.i <= Len(w.queue)
            BY <2>2, <2>4
      <4>3. Len(v.queue) = Len(w.queue)
            BY <3>3
      <4> HIDE DEF Good, Right, N
      <4>4. v.i \in Nat /\ v.i >= 1
            BY <3>3, <4>1
      <4>5. v.i <= Len(v.queue) + 1
            BY <3>3, <4>1, <4>2, <4>3
      <4>6. v.i - 1 + N - Len(v.queue) = n + 1
        <5> DEFINE L == Len(w.queue)
                   m == w.i
        <5>1. m \in Nat /\ L \in Nat /\ N \in Nat /\ m - 1 + N - L = n
              BY <1>1, <4>1, <4>2
        <5>2. v.i - 1 + N - Len(v.queue) = ((m + 1) - 1) + (N - L)
              BY <3>3, <4>3
        <5> HIDE DEF L, m
        <5>3. ((m + 1) - 1) + (N - L) = (m - 1 + N - L) + 1
              BY <5>1
        <5> QED BY <5>1, <5>2, <5>3
      <4> QED BY <4>4, <4>5, <4>6
    <3>6. \A j \in 1 .. v.i - 1 : ~Hit(v.queue[j], F)
      <4>1. \A j \in 1 .. v.i - 1 : j \in 1 .. w.i - 1 \/ j = w.i
            BY <2>4, <3>3
      <4>2. \A j \in 1 .. w.i - 1 : ~Hit(w.queue[j], F)
            BY <2>2
      <4> HIDE DEF Good, N
      <4> QED BY <2>7, <3>3, <4>1, <4>2
    <3> QED BY <3>2, <3>3, <3>4, <3>5, <3>6 DEF v
  <2> QED BY <2>6, <2>7
<1>7. Right = Nat
      BY <1>5, <1>6, NatSetInduction
<1>8. Good(walk[N], N)
  <2> HIDE DEF Good, N
  <2>1. N \in Nat /\ N <= N
        BY <1>1
  <2> QED BY <1>7, <2>1
\* The last turn leaves the index behind the queue: nobody in it has a flag set.
<1>9. \A t \in ToSet(walk[N].queue) : ~Hit(t, F)
  <2> DEFINE w == walk[N]
  <2>1. /\ w.queue \in Seq(D) /\ w.i \in Nat /\ w.i - 1 + N - Len(w.queue) = N
        /\ \A j \in 1 .. w.i - 1 : ~Hit(w.queue[j], F)
        BY <1>8
  <2> HIDE DEF w, N
  <2>2. Len(w.queue) \in Nat /\ DOMAIN w.queue = 1 .. Len(w.queue)
        BY <2>1, LenProperties
  <2>3. w.i - 1 = Len(w.queue)
        BY <1>1, <2>1, <2>2
  <2>4. \A t \in ToSet(w.queue) : ~Hit(t, F)
        BY <2>1, <2>2, <2>3 DEF ToSet
  <2> QED BY <2>4 DEF w
<1>10. walk[N].released = ReleasedBy(F)
       BY <1>8, <1>9 DEF ReleasedBy
<1> QED BY <1>4, <1>8, <1>10

-----------------------------------------------------------------------------
(***************************************************************************)
(* The inductive invariant: that of the scheduler, whose exactness tells   *)
(* that a task which executes is not blocked, and the three of the group.  *)
(***************************************************************************)
EInv == IInv /\ EventTypeOK /\ WaitersBlocked /\ NoMissedEvent

LEMMA EInvInit == EventInit => EInv
<1> SUFFICES ASSUME EventInit
             PROVE  EInv
    OBVIOUS
<1>1. IInv
      BY InvInit DEF EventInit
<1>2. waitingTasks = <<>> /\ ToSet(waitingTasks) = {}
      BY NobodyQueued DEF EventInit
<1>3. EventTypeOK
      BY <1>1, NobodyQueued DEF EventInit, EventTypeOK, IInv
<1>4. WaitersBlocked /\ NoMissedEvent
      BY <1>2 DEF WaitersBlocked, NoMissedEvent, EventInit, Init
<1> QED BY <1>1, <1>3, <1>4 DEF EInv

\* A task that is about to wait is running and has no ready bit: to the
\* scheduler waitForEvents is a call of resetTaskReady.
LEMMA WaitIsBlock ==
    ASSUME IInv, NEW t \in TaskId, NEW F, NEW n, WaitForEvents(t, F, n)
    PROVE  Block(t) /\ state[t] = "eRunning"
<1>1. Thread(t) /\ pc[t] = "run" /\ state[t] = "eRunning"
      BY DEF WaitForEvents, InCode, Thread, IInv, NoSleepwalking
<1>2. [readyTasks EXCEPT ![priority[t]] = readyTasks[priority[t]]] = readyTasks
      BY DEF IInv, TypeOK
<1> QED BY <1>1, <1>2 DEF WaitForEvents, Block, ResetTaskReady, cpuVars

\* The steps of the scheduler and of tasks outside the group do not change who
\* is blocked.
LEMMA KernelStepKeepsBlocked ==
    ASSUME IInv, KernelStep
    PROVE  /\ [Next]_vars
           /\ \A t \in TaskId : state'[t] = "eBlocked" <=> state[t] = "eBlocked"
           /\ tickCount' = tickCount \/ tickCount' = tickCount + 1
<1>1. [Next]_vars
      BY DEF KernelStep, Next
<1>2. CASE Tick
  <2>1. \A t \in DueSleepers(tickCount') : state[t] = "eSleeping"
        BY DEF DueSleepers, IInv, SleepersExact, TypeOK
  <2> QED BY <1>1, <1>2, <2>1 DEF Tick, SetTaskReady
<1>3. CASE ContextSwitch
  <2>1. ASSUME NEW p \in Priority, NEW u \in TaskId, IsNext(u, p), SwitchTo(u, p)
        PROVE  \A t \in TaskId : state'[t] = "eBlocked" <=> state[t] = "eBlocked"
    <3>1. state[u] = "eReady"
          BY <2>1 DEF IsNext, IInv, ReadyListExact
    <3> QED BY <2>1, <3>1 DEF SwitchTo, Preempted
  <2> QED BY <1>1, <1>3, <2>1 DEF ContextSwitch, SelectHighestPriorityTask, readyVars
<1>4. ASSUME NEW t \in TaskId, NEW n \in SleepTicks, Sleep(t, n)
      PROVE  /\ \A u \in TaskId : state'[u] = "eBlocked" <=> state[u] = "eBlocked"
             /\ tickCount' = tickCount
  <2>1. state[t] = "eRunning"
        BY <1>4 DEF Sleep, Thread, IInv, NoSleepwalking
  <2> QED BY <1>4, <2>1 DEF Sleep, AddSleepingTask, IInv, TypeOK
<1>5. ASSUME UNCHANGED <<state, tickCount>>
      PROVE  /\ \A u \in TaskId : state'[u] = "eBlocked" <=> state[u] = "eBlocked"
             /\ tickCount' = tickCount
      BY <1>5
<1> QED BY <1>1, <1>2, <1>3, <1>4, <1>5 DEF KernelStep, AddTask, Start, Yield, readyVars

\* What setEvents does to the queue, to the states and to the flags.
LEMMA SetFlagsFacts ==
    ASSUME EInv, NEW F \in FlagSets, SetFlags(F)
    PROVE  /\ eventFlags' = eventFlags \cup F /\ eventFlags' \subseteq Flag
           /\ ReleasedBy(eventFlags') \subseteq ToSet(waitingTasks)
           /\ \A t \in ReleasedBy(eventFlags') : t \in TaskId /\ state[t] = "eBlocked"
           /\ \A t \in ToSet(waitingTasks) :
                 t \in ReleasedBy(eventFlags') <=> wanted[t] \cap eventFlags' # {}
           /\ SetTaskReady(ReleasedBy(eventFlags'))
           /\ waitingTasks' \in Seq(TaskId) /\ IsInjective(waitingTasks')
           /\ ToSet(waitingTasks') = ToSet(waitingTasks) \ ReleasedBy(eventFlags')
           /\ flagsToWaitFor' = [t \in TaskId |-> IF t \in ReleasedBy(eventFlags')
                                                  THEN {} ELSE flagsToWaitFor[t]]
<1>1. waitingTasks \in Seq(TaskId) /\ IsInjective(waitingTasks) /\ eventFlags \subseteq Flag
      BY DEF EInv, EventTypeOK
<1>2. eventFlags' = eventFlags \cup F /\ eventFlags' \subseteq Flag
      BY <1>1, EventGroupAssumption DEF SetFlags
<1>3. /\ waitingTasks' = Walk(eventFlags').queue
      /\ SetTaskReady(ReleasedBy(eventFlags'))
      /\ flagsToWaitFor' = [t \in TaskId |-> IF t \in ReleasedBy(eventFlags')
                                             THEN {} ELSE flagsToWaitFor[t]]
  <2>1. Walk(eventFlags').released = ReleasedBy(eventFlags')
        BY <1>1, WalkReleases
  <2> QED BY <1>2, <2>1 DEF SetFlags
<1>4. ToSet(waitingTasks) \subseteq TaskId
      BY <1>1, LenProperties, ElementOfSeq DEF ToSet
<1>5. \A t \in ToSet(waitingTasks) : state[t] = "eBlocked" /\ flagsToWaitFor[t] = wanted[t]
      BY <1>4 DEF EInv, WaitersBlocked
<1>6. /\ ReleasedBy(eventFlags') \subseteq ToSet(waitingTasks)
      /\ \A t \in ToSet(waitingTasks) :
            t \in ReleasedBy(eventFlags') <=> wanted[t] \cap eventFlags' # {}
      BY <1>5 DEF ReleasedBy, Hit
<1>7. /\ waitingTasks' \in Seq(TaskId) /\ IsInjective(waitingTasks')
      /\ ToSet(waitingTasks') = ToSet(waitingTasks) \ ReleasedBy(eventFlags')
      BY <1>1, <1>3, WalkReleases
<1> QED BY <1>1, <1>2, <1>3, <1>4, <1>5, <1>6, <1>7

LEMMA EInvStep ==
    ASSUME Spinners # {}, EInv, [EventNext]_allVars
    PROVE  EInv'
<1> USE DEF EInv
<1>0. /\ waitingTasks \in Seq(TaskId) /\ IsInjective(waitingTasks)
      /\ ToSet(waitingTasks) \subseteq TaskId
  <2>1. waitingTasks \in Seq(TaskId) /\ IsInjective(waitingTasks)
        BY DEF EventTypeOK
  <2> QED BY <2>1, LenProperties, ElementOfSeq DEF ToSet
<1>1. CASE KernelStep
  <2>1. IInv'
        BY <1>1, KernelStepKeepsBlocked, InvStep
  <2>2. UNCHANGED <<eventFlags, waitingTasks, flagsToWaitFor, parked, wanted, endTime>>
        BY <1>1 DEF KernelStep, groupVars, callVars
  <2>3. \A t \in TaskId : state'[t] = "eBlocked" <=> state[t] = "eBlocked"
        BY <1>1, KernelStepKeepsBlocked
  <2>4. EventTypeOK'
        BY <2>1, <2>2 DEF EventTypeOK, IInv
  <2> QED BY <2>1, <2>2, <2>3, <2>4 DEF WaitersBlocked, NoMissedEvent
<1>2. ASSUME NEW t \in TaskId, NEW F \in FlagSets, NEW n \in Timeouts, WaitForEvents(t, F, n)
      PROVE  EInv'
  <2>1. Block(t) /\ state[t] = "eRunning"
        BY <1>2, WaitIsBlock
  <2>2. IInv'
        BY <2>1, InvStep DEF Next
  <2>3. /\ t \notin ToSet(waitingTasks)
        /\ eventFlags \cap F = {} /\ F \subseteq Flag /\ n \in Nat
        /\ state' = [state EXCEPT ![t] = "eBlocked"]
        /\ flagsToWaitFor' = [flagsToWaitFor EXCEPT ![t] = F]
        /\ wanted' = [wanted EXCEPT ![t] = F]
        /\ waitingTasks' = Append(waitingTasks, t)
        /\ parked' = parked \cup {t}
        /\ endTime' = [endTime EXCEPT ![t] = tickCount + n]
        /\ eventFlags' = eventFlags
        BY <1>2, <2>1, EventGroupAssumption DEF WaitForEvents, WaitersBlocked
  <2>4. /\ waitingTasks' \in Seq(TaskId) /\ IsInjective(waitingTasks')
        /\ ToSet(waitingTasks') = ToSet(waitingTasks) \cup {t}
        BY <1>0, <2>3, QueueAppend
  <2>5. tickCount + n \in Nat
        BY <2>3, Constants DEF IInv, TypeOK
  <2>6. EventTypeOK'
        BY <2>2, <2>3, <2>4, <2>5 DEF EventTypeOK, IInv
  <2>7. WaitersBlocked'
        BY <2>3, <2>4 DEF WaitersBlocked, EventTypeOK, TypeOK
  <2>8. NoMissedEvent'
        BY <1>0, <2>3, <2>4 DEF NoMissedEvent, EventTypeOK
  <2> QED BY <2>2, <2>6, <2>7, <2>8
<1>3. ASSUME NEW t \in TaskId, ReturnFromWait(t)
      PROVE  EInv'
  \* The caller executes, so it is not blocked and not queued.
  <2>1. state[t] = "eRunning"
        BY <1>3 DEF ReturnFromWait, Thread, IInv, NoSleepwalking
  <2>2. t \notin ToSet(waitingTasks)
        BY <2>1 DEF WaitersBlocked
  <2>3. /\ waitingTasks' = RemoveFirst(waitingTasks, t)
        /\ parked' = parked \ {t}
        /\ wanted' = [wanted EXCEPT ![t] = {}]
        /\ endTime' = [endTime EXCEPT ![t] = 0]
        /\ UNCHANGED <<vars, eventFlags, flagsToWaitFor>>
        BY <1>3 DEF ReturnFromWait
  <2>4. /\ waitingTasks' \in Seq(TaskId) /\ IsInjective(waitingTasks')
        /\ ToSet(waitingTasks') = ToSet(waitingTasks)
        BY <1>0, <2>2, <2>3, RemoveNobody
  <2>5. IInv'
        BY <2>3, InvStep
  <2>6. EventTypeOK'
        BY <2>3, <2>4, <2>5 DEF EventTypeOK, IInv
  <2>7. state' = state
        BY <2>3 DEF vars, readyVars
  <2>8. WaitersBlocked' /\ NoMissedEvent'
        BY <1>0, <2>1, <2>2, <2>3, <2>4, <2>7 DEF WaitersBlocked, NoMissedEvent, EventTypeOK
  <2> QED BY <2>5, <2>6, <2>8
<1>4. ASSUME NEW t \in TaskId, WaitOn(t)
      PROVE  EInv'
  <2>1. /\ Started /\ pc' = [pc EXCEPT ![t] = "yield"]
        /\ UNCHANGED <<taskVars, readyVars, sleepVars, cpuVars, tickCount, groupVars, callVars>>
        BY <1>4 DEF WaitOn, Thread
  <2>2. SetTaskReady({})
    <3>1. /\ state = [u \in TaskId |-> state[u]]
          /\ readyTasks = [p \in Priority |-> readyTasks[p]]
          BY DEF IInv, TypeOK
    <3> QED BY <2>1, <3>1 DEF SetTaskReady, readyVars
  <2>3. /\ pc' \in [TaskId -> ThreadPoint] /\ pendSV' \in BOOLEAN
        /\ \A u \in TaskId : pc'[u] = "run" => pc[u] = "run"
        BY <2>1 DEF IInv, TypeOK, ThreadPoint, cpuVars
  <2>4. IInv'
        BY <2>1, <2>2, <2>3, ReleaseKeepsInv DEF cpuVars
  <2>5. UNCHANGED <<state, eventFlags, waitingTasks, flagsToWaitFor, parked, wanted, endTime>>
        BY <2>1 DEF readyVars, groupVars, callVars
  <2>6. EventTypeOK'
        BY <2>4, <2>5 DEF EventTypeOK, IInv
  <2> QED BY <2>4, <2>5, <2>6 DEF WaitersBlocked, NoMissedEvent
<1>5. ASSUME NEW F \in FlagSets, SetFlags(F), Started,
             UNCHANGED <<taskVars, sleepVars, currentTask, tickCount, callVars>>,
             pendSV' \in BOOLEAN, pc' \in [TaskId -> ThreadPoint],
             \A t \in TaskId : pc'[t] = "run" => pc[t] = "run"
      PROVE  EInv'
  <2> DEFINE released == ReleasedBy(eventFlags')
  <2>1. /\ eventFlags' = eventFlags \cup F /\ eventFlags' \subseteq Flag
        /\ released \subseteq ToSet(waitingTasks)
        /\ \A t \in released : t \in TaskId /\ state[t] = "eBlocked"
        /\ \A t \in ToSet(waitingTasks) :
              t \in released <=> wanted[t] \cap eventFlags' # {}
        /\ SetTaskReady(released)
        /\ waitingTasks' \in Seq(TaskId) /\ IsInjective(waitingTasks')
        /\ ToSet(waitingTasks') = ToSet(waitingTasks) \ released
        /\ flagsToWaitFor' = [t \in TaskId |-> IF t \in released THEN {} ELSE flagsToWaitFor[t]]
        BY <1>5, SetFlagsFacts
  <2> HIDE DEF released
  <2>2. IInv'
        BY <1>5, <2>1, ReleaseKeepsInv
  <2>3. UNCHANGED <<parked, wanted, endTime>>
        BY <1>5 DEF callVars
  <2>4. EventTypeOK'
        BY <2>1, <2>2, <2>3 DEF EventTypeOK, IInv
  <2>5. state' = [u \in TaskId |-> IF u \in released THEN "eReady" ELSE state[u]]
        BY <2>1 DEF SetTaskReady
  <2>6. WaitersBlocked'
        BY <2>1, <2>3, <2>5 DEF WaitersBlocked
  <2>7. NoMissedEvent'
        BY <2>1, <2>3 DEF NoMissedEvent
  <2> QED BY <2>2, <2>4, <2>6, <2>7
<1>6. ASSUME NEW t \in TaskId, NEW F \in FlagSets, SetEvents(t, F)
      PROVE  EInv'
  <2>1. /\ pc' \in [TaskId -> ThreadPoint] /\ pendSV' \in BOOLEAN
        /\ \A u \in TaskId : pc'[u] = "run" => pc[u] = "run"
        BY <1>6 DEF SetEvents, cpuVars, IInv, TypeOK, ThreadPoint
  <2> QED BY <1>5, <1>6, <2>1 DEF SetEvents, InCode, Thread, cpuVars
<1>7. ASSUME NEW F \in FlagSets, SetEventsFromISR(F)
      PROVE  EInv'
      BY <1>5, <1>7 DEF SetEventsFromISR, IInv, TypeOK
<1>8. ASSUME NEW F \in FlagSets, ClearEvents(F)
      PROVE  EInv'
  <2>1. /\ eventFlags' = eventFlags \ F
        /\ UNCHANGED <<vars, waitingTasks, flagsToWaitFor, parked, wanted, endTime>>
        BY <1>8 DEF ClearEvents, callVars
  <2>2. IInv' /\ state' = state
        BY <2>1, InvStep DEF vars, readyVars
  <2>3. EventTypeOK'
        BY <2>1, <2>2 DEF EventTypeOK, IInv
  <2> QED BY <2>1, <2>2, <2>3 DEF WaitersBlocked, NoMissedEvent
<1>9. CASE UNCHANGED allVars
  <2>1. UNCHANGED <<vars, eventFlags, waitingTasks, flagsToWaitFor, parked, wanted, endTime>>
        BY <1>9 DEF allVars, groupVars, callVars
  <2>2. IInv' /\ state' = state
        BY <2>1, InvStep DEF vars, readyVars
  <2>3. EventTypeOK'
        BY <2>1, <2>2 DEF EventTypeOK, IInv
  <2> QED BY <2>1, <2>2, <2>3 DEF WaitersBlocked, NoMissedEvent
<1> QED BY <1>1, <1>2, <1>3, <1>4, <1>6, <1>7, <1>8, <1>9 DEF EventNext

LEMMA EventInvariance ==
    ASSUME Spinners # {}
    PROVE  EventSpec => []EInv
<1>1. EventInit => EInv
      BY EInvInit
<1>2. EInv /\ [EventNext]_allVars => EInv'
      BY EInvStep
<1> QED BY <1>1, <1>2, PTL DEF EventSpec

\* Every field stays in its range, and the queue never holds a task twice, so
\* that MAX_TASKS slots are enough for it.
THEOREM EventTypeCorrect ==
    ASSUME Spinners # {}
    PROVE  EventSpec => []EventTypeOK
<1>1. EInv => EventTypeOK
      BY DEF EInv
<1> QED BY <1>1, EventInvariance, PTL

\* A task is blocked exactly while it is queued, and setEvents then compares
\* the flags that the task asked for.
THEOREM WaitersStayBlocked ==
    ASSUME Spinners # {}
    PROVE  EventSpec => []WaitersBlocked
<1>1. EInv => WaitersBlocked
      BY DEF EInv
<1> QED BY <1>1, EventInvariance, PTL

\* No task stays queued over a flag it waits for.
THEOREM NoEventIsMissed ==
    ASSUME Spinners # {}
    PROVE  EventSpec => []NoMissedEvent
<1>1. EInv => NoMissedEvent
      BY DEF EInv
<1> QED BY <1>1, EventInvariance, PTL

-----------------------------------------------------------------------------
(***************************************************************************)
(* The event group implements AbstractEvents.                              *)
(***************************************************************************)
LEMMA EventsInit == EventInit => Events!Init
BY NobodyQueued DEF EventInit, Init, Events!Init

\* Each step is one abstract step or none.
LEMMA EventsStep ==
    ASSUME EInv, [EventNext]_allVars
    PROVE  [Events!Next]_(Events!vars)
<1> USE DEF EInv
<1>0. waitingTasks \in Seq(TaskId) /\ tickCount \in Nat
      BY Constants DEF EventTypeOK, IInv, TypeOK
<1>1. CASE KernelStep
  <2>1. UNCHANGED <<eventFlags, waitingTasks, parked, wanted, endTime>>
        BY <1>1 DEF KernelStep, groupVars, callVars
  <2>2. tickCount' = tickCount \/ tickCount' = tickCount + 1
        BY <1>1, KernelStepKeepsBlocked
  <2> QED BY <2>1, <2>2 DEF Events!Next, Events!Advance, Events!vars
<1>2. ASSUME NEW t \in TaskId, NEW F \in FlagSets, NEW n \in Timeouts, WaitForEvents(t, F, n)
      PROVE  Events!FallAsleep(t, F, n)
  <2>1. ToSet(waitingTasks') = ToSet(waitingTasks) \cup {t}
        BY <1>0, <1>2, QueueAppend DEF WaitForEvents
  <2>2. n > 0
        BY <1>2, EventGroupAssumption DEF WaitForEvents
  <2> QED BY <1>2, <2>1, <2>2 DEF WaitForEvents, InCode, Events!FallAsleep
<1>3. ASSUME NEW t \in TaskId, ReturnFromWait(t)
      PROVE  Events!Leave(t)
  <2>1. t \notin ToSet(waitingTasks)
        BY <1>3 DEF ReturnFromWait, Thread, IInv, NoSleepwalking, WaitersBlocked
  <2>2. ToSet(waitingTasks') = ToSet(waitingTasks)
        BY <1>0, <1>3, <2>1, RemoveNobody DEF ReturnFromWait
  <2> QED BY <1>3, <2>1, <2>2 DEF ReturnFromWait, vars, Events!Leave, Events!Return
<1>4. ASSUME NEW F \in FlagSets, SetFlags(F), UNCHANGED <<tickCount, callVars>>
      PROVE  Events!Set(F)
  <2>1. ToSet(waitingTasks') =
          {t \in ToSet(waitingTasks) : ~Events!Satisfied(t, eventFlags')}
        BY <1>4, SetFlagsFacts DEF Events!Satisfied
  <2> QED BY <1>4, <2>1, SetFlagsFacts DEF Events!Set, callVars
<1>5. ASSUME NEW F \in FlagSets, ClearEvents(F)
      PROVE  Events!Clear(F)
      BY <1>5 DEF ClearEvents, callVars, vars, Events!Clear
<1>6. ASSUME UNCHANGED <<eventFlags, waitingTasks, parked, wanted, endTime, tickCount>>
      PROVE  UNCHANGED Events!vars
      BY <1>6 DEF Events!vars
<1>7. CASE (\E t \in TaskId : WaitOn(t)) \/ UNCHANGED allVars
      BY <1>6, <1>7 DEF WaitOn, allVars, vars, groupVars, callVars
<1> QED BY <1>1, <1>2, <1>3, <1>4, <1>5, <1>7
        DEF EventNext, SetEvents, SetEventsFromISR, Events!Next

\* setEvents takes all those out of the queue who wait for one of the flags, and
\* nobody else; a caller returns only after it was taken out.
THEOREM EventGroupImplementsEvents ==
    ASSUME Spinners # {}
    PROVE  EventSpec => ImplementsEvents
<1>1. EventInit => Events!Init
      BY EventsInit
<1>2. EInv /\ [EventNext]_allVars => [Events!Next]_(Events!vars)
      BY EventsStep
<1> QED BY <1>1, <1>2, EventInvariance, PTL DEF EventSpec, Events!Spec, ImplementsEvents

=============================================================================
