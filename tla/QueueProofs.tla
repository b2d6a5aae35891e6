----------------------------- MODULE QueueProofs ----------------------------
(***************************************************************************)
(* Theorems about the circular buffer, Fifo.tla, for every capacity and    *)
(* every set of items, and about the message queue that is built on it,    *)
(* MessageQueue.tla, for every capacity and all sets of senders and        *)
(* receivers.                                                              *)
(***************************************************************************)
EXTENDS Fifo, MessageQueue, Sequences, SequenceTheorems, TLAPS

(***************************************************************************)
(* The index arithmetic.  Every sum of indices in the code is below twice  *)
(* the capacity, where the remainder is at most one subtraction.           *)
(***************************************************************************)
LEMMA Indices ==
    ASSUME NEW i \in Slot, NEW j \in Slot
    PROVE  /\ Succ(i) = IF i + 1 = MAX_ITEMS THEN 0 ELSE i + 1
           /\ Pred(i) = IF i = 0 THEN MAX_ITEMS - 1 ELSE i - 1
           /\ Distance(i, j) = IF j >= i THEN j - i ELSE j - i + MAX_ITEMS
<1>1. /\ MAX_ITEMS \in Nat \ {0} /\ i \in Int /\ j \in Int
      /\ 0 <= i /\ i < MAX_ITEMS /\ 0 <= j /\ j < MAX_ITEMS
      BY FifoAssumption DEF Slot
<1>2. \A x \in {i + 1, i - 1 + MAX_ITEMS, j - i + MAX_ITEMS} :
          x \in Int /\ 0 <= x /\ x < 2 * MAX_ITEMS
      BY <1>1
<1>3. Succ(i) = IF i + 1 < MAX_ITEMS THEN i + 1 ELSE i + 1 - MAX_ITEMS
      BY <1>1, <1>2 DEF Succ
<1>4. Pred(i) = IF i - 1 + MAX_ITEMS < MAX_ITEMS THEN i - 1 + MAX_ITEMS ELSE i - 1
      BY <1>1, <1>2 DEF Pred
<1>5. Distance(i, j) = IF j - i + MAX_ITEMS < MAX_ITEMS THEN j - i + MAX_ITEMS ELSE j - i
      BY <1>1, <1>2 DEF Distance
<1> QED BY <1>1, <1>3, <1>4, <1>5

\* The last index of an expression of FifoTypeOK.
LEMMA TailIndex ==
    ASSUME NEW h \in Slot, NEW s \in 0 .. MAX_ITEMS
    PROVE  (h + s) % MAX_ITEMS = IF h + s < MAX_ITEMS THEN h + s ELSE h + s - MAX_ITEMS
<1>1. /\ MAX_ITEMS \in Nat \ {0} /\ h \in Int /\ s \in Int
      /\ 0 <= h /\ h < MAX_ITEMS /\ 0 <= s /\ s <= MAX_ITEMS
      BY FifoAssumption DEF Slot
<1> QED BY <1>1

-----------------------------------------------------------------------------
(***************************************************************************)
(* The inductive invariant: besides the occupied slots, the slots before   *)
(* head were written, because head has passed them since it last was 0.    *)
(***************************************************************************)
Written == \A i \in Slot : i < head \/ Distance(head, i) < size => buffer[i] # Default

FifoInv == FifoTypeOK /\ Written

LEMMA FifoInvInit == FifoInit => FifoInv
<1> SUFFICES ASSUME FifoInit
             PROVE  FifoInv
    OBVIOUS
<1>1. MAX_ITEMS \in Nat \ {0} /\ 0 \in Slot
      BY FifoAssumption DEF Slot
<1>2. (0 + 0) % MAX_ITEMS = 0
      BY <1>1, TailIndex
<1>3. FifoTypeOK
      BY <1>1, <1>2 DEF FifoInit, FifoTypeOK
<1>4. Written
      BY <1>1, Indices DEF FifoInit, Written, Slot
<1> QED BY <1>3, <1>4 DEF FifoInv

LEMMA FifoInvStep == FifoInv /\ [FifoNext]_fifoVars => FifoInv'
<1> SUFFICES ASSUME FifoInv, [FifoNext]_fifoVars
             PROVE  FifoInv'
    OBVIOUS
<1>0. /\ MAX_ITEMS \in Nat /\ MAX_ITEMS > 0 /\ Default \notin Item
      /\ head \in Int /\ 0 <= head /\ head < MAX_ITEMS
      /\ tail \in Int /\ 0 <= tail /\ tail < MAX_ITEMS
      /\ size \in Int /\ 0 <= size /\ size <= MAX_ITEMS
      /\ tail = IF head + size < MAX_ITEMS THEN head + size ELSE head + size - MAX_ITEMS
  <2>1. /\ head \in Slot /\ tail \in Slot /\ size \in 0 .. MAX_ITEMS
        /\ tail = (head + size) % MAX_ITEMS
        BY DEF FifoInv, FifoTypeOK
  <2>2. tail = IF head + size < MAX_ITEMS THEN head + size ELSE head + size - MAX_ITEMS
        BY <2>1, TailIndex, Zenon
  <2> QED BY <2>1, <2>2, FifoAssumption DEF Slot
<1>1. ASSUME NEW x \in Item, enqueue(x)
      PROVE  FifoInv'
  <2>1. CASE size < MAX_ITEMS
    <3>1. /\ buffer' = [buffer EXCEPT ![tail] = x]
          /\ tail' = IF tail + 1 = MAX_ITEMS THEN 0 ELSE tail + 1
          /\ size' = size + 1 /\ head' = head /\ result' = result
          BY <1>1, <2>1, Indices DEF enqueue, FifoInv, FifoTypeOK
    <3>2. size' \in 0 .. MAX_ITEMS /\ head' \in Slot
          BY <1>0, <2>1, <3>1 DEF FifoInv, FifoTypeOK
    <3>3. tail' = (head' + size') % MAX_ITEMS
          BY <1>0, <2>1, <3>1, <3>2, TailIndex
    <3>4. FifoTypeOK'
          BY <1>0, <3>1, <3>2, <3>3 DEF FifoInv, FifoTypeOK, Slot
    <3>5. Written'
      <4>1. ASSUME NEW i \in Slot, i < head \/ Distance(head, i) < size + 1
            PROVE  buffer'[i] # Default
        <5>1. Distance(head, i) = IF i >= head THEN i - head ELSE i - head + MAX_ITEMS
              BY Indices DEF FifoInv, FifoTypeOK
        <5>2. i \in Int /\ 0 <= i /\ i < MAX_ITEMS
              BY <1>0 DEF Slot
        <5>3. i = tail \/ i < head \/ Distance(head, i) < size
              BY <1>0, <4>1, <5>1, <5>2
        <5> QED BY <1>0, <3>1, <5>3 DEF FifoInv, FifoTypeOK, Written
      <4> QED BY <3>1, <4>1 DEF Written, Distance
    <3> QED BY <3>4, <3>5 DEF FifoInv
  <2>2. CASE ~(size < MAX_ITEMS)
        BY <1>1, <2>2 DEF enqueue, FifoInv, FifoTypeOK, Written, Distance
  <2> QED BY <2>1, <2>2
<1>2. CASE dequeue
  <2>1. CASE size > 0
    <3>1. /\ head' = IF head + 1 = MAX_ITEMS THEN 0 ELSE head + 1
          /\ size' = size - 1 /\ buffer' = buffer /\ tail' = tail
          /\ result' = buffer[head]
          BY <1>2, <2>1, Indices DEF dequeue, FifoInv, FifoTypeOK
    <3>2. size' \in 0 .. MAX_ITEMS /\ head' \in Slot
          BY <1>0, <2>1, <3>1 DEF Slot
    <3>3. tail' = (head' + size') % MAX_ITEMS
          BY <1>0, <2>1, <3>1, <3>2, TailIndex
    <3>4. FifoTypeOK'
          BY <3>1, <3>2, <3>3 DEF FifoInv, FifoTypeOK
    <3>5. Written'
      <4>1. ASSUME NEW i \in Slot, i < head' \/ Distance(head', i) < size'
            PROVE  i < head \/ Distance(head, i) < size
        <5>1. /\ Distance(head, i) = IF i >= head THEN i - head ELSE i - head + MAX_ITEMS
              /\ Distance(head', i) = IF i >= head' THEN i - head' ELSE i - head' + MAX_ITEMS
              BY <3>2, Indices DEF FifoInv, FifoTypeOK
        <5>2. i \in Int /\ 0 <= i /\ i < MAX_ITEMS
              BY <1>0 DEF Slot
        <5> QED BY <1>0, <2>1, <3>1, <4>1, <5>1, <5>2
      <4> QED BY <3>1, <4>1 DEF FifoInv, Written, Distance
    <3> QED BY <3>4, <3>5 DEF FifoInv
  <2>2. CASE ~(size > 0)
        BY <1>2, <2>2 DEF dequeue, FifoInv, FifoTypeOK, Written, Distance
  <2> QED BY <2>1, <2>2
<1>3. ASSUME NEW pos \in Occupied, removeAt(pos)
      PROVE  FifoInv'
  <2> DEFINE last == Pred(tail)
  <2>1. /\ pos \in Slot /\ Distance(head, pos) < size
        /\ last = IF tail = 0 THEN MAX_ITEMS - 1 ELSE tail - 1
        BY Indices DEF Occupied, FifoInv, FifoTypeOK
  <2>2. /\ pos \in Int /\ 0 <= pos /\ pos < MAX_ITEMS
        /\ Distance(head, pos) = IF pos >= head THEN pos - head ELSE pos - head + MAX_ITEMS
        /\ last \in Slot /\ size > 0
    <3>1. Distance(head, pos) = IF pos >= head THEN pos - head ELSE pos - head + MAX_ITEMS
          BY <2>1, Indices DEF FifoInv, FifoTypeOK
    <3>2. pos \in Int /\ 0 <= pos /\ pos < MAX_ITEMS
          BY <1>0, <2>1 DEF Slot
    <3>3. last \in Slot
      <4> HIDE DEF last
      <4> QED BY <1>0, <2>1 DEF Slot
    <3>4. size > 0
          BY <1>0, <2>1, <3>1, <3>2
    <3> QED BY <3>1, <3>2, <3>3, <3>4
  <2>3. /\ tail' = last /\ size' = size - 1 /\ head' = head /\ result' = result
        /\ buffer' = [i \in Slot |-> IF Distance(pos, i) < Distance(pos, last)
                                     THEN buffer[Succ(i)] ELSE buffer[i]]
        BY <1>3 DEF removeAt
  <2> HIDE DEF last
  <2>4. tail' = (head' + size') % MAX_ITEMS /\ size' \in 0 .. MAX_ITEMS
        BY <1>0, <2>1, <2>2, <2>3, TailIndex DEF FifoInv, FifoTypeOK
  <2>5. \A i \in Slot : Succ(i) \in Slot
        BY <1>0, Indices DEF Slot
  <2>6. FifoTypeOK'
        BY <2>2, <2>3, <2>4, <2>5 DEF FifoInv, FifoTypeOK
  <2>7. Written'
    <3>1. ASSUME NEW i \in Slot, i < head \/ Distance(head, i) < size - 1
          PROVE  buffer'[i] # Default
      <4>1. /\ Distance(head, i) = IF i >= head THEN i - head ELSE i - head + MAX_ITEMS
            /\ Distance(pos, i) = IF i >= pos THEN i - pos ELSE i - pos + MAX_ITEMS
            /\ Distance(pos, last) = IF last >= pos THEN last - pos
                                                    ELSE last - pos + MAX_ITEMS
            /\ Succ(i) = IF i + 1 = MAX_ITEMS THEN 0 ELSE i + 1
            BY <2>1, <2>2, Indices DEF FifoInv, FifoTypeOK
      <4>2. i \in Int /\ 0 <= i /\ i < MAX_ITEMS /\ last \in Int
            BY <1>0, <2>2 DEF Slot
      <4>3. CASE Distance(pos, i) < Distance(pos, last)
        \* The item that moves to slot i was queued, one step after slot i.
        <5>1. /\ Succ(i) \in Slot
              /\ Distance(head, Succ(i)) = IF Succ(i) >= head THEN Succ(i) - head
                                           ELSE Succ(i) - head + MAX_ITEMS
              BY <2>5, Indices DEF FifoInv, FifoTypeOK
        <5>2. Distance(head, Succ(i)) < size
              BY <1>0, <2>1, <2>2, <4>1, <4>2, <4>3, <5>1
        <5>3. buffer'[i] = buffer[Succ(i)]
              BY <2>3, <4>3
        <5> QED BY <5>1, <5>2, <5>3 DEF FifoInv, Written
      <4>4. CASE ~(Distance(pos, i) < Distance(pos, last))
        <5>1. i < head \/ Distance(head, i) < size
              BY <1>0, <3>1, <4>1, <4>2
        <5> QED BY <2>3, <4>4, <5>1 DEF FifoInv, Written
      <4> QED BY <4>3, <4>4
    <3> QED BY <2>3, <3>1 DEF Written, Distance
  <2> QED BY <2>6, <2>7 DEF FifoInv
<1>4. CASE UNCHANGED fifoVars
      BY <1>4 DEF fifoVars, FifoInv, FifoTypeOK, Written, Distance
<1> QED BY <1>1, <1>2, <1>3, <1>4 DEF FifoNext

LEMMA FifoInvariance == FifoSpec => []FifoInv
<1>1. FifoInit => FifoInv
      BY FifoInvInit
<1>2. FifoInv /\ [FifoNext]_fifoVars => FifoInv'
      BY FifoInvStep
<1> QED BY <1>1, <1>2, PTL DEF FifoSpec

\* The indices stay within the buffer and tail stays size slots after head.
THEOREM IndicesConsistent == FifoSpec => []FifoTypeOK
<1>1. FifoInv => FifoTypeOK
      BY DEF FifoInv
<1> QED BY <1>1, FifoInvariance, PTL

\* A caller of getAt below getSize never gets the default value, whatever the
\* capacity: the task pointers of the waiting queues are never null.
THEOREM GetAtNeverNull == FifoSpec => []GetAtReadsWritten
<1>1. ASSUME FifoInv
      PROVE  GetAtReadsWritten
  <2>1. ASSUME NEW i \in 0 .. size - 1
        PROVE  getAt(i) # Default
    <3>1. i \in Slot /\ head \in Slot /\ i < MAX_ITEMS /\ i \in Int /\ head \in Int
          BY <1>1, FifoAssumption DEF FifoInv, FifoTypeOK, Slot
    <3>2. Distance(head, i) = IF i >= head THEN i - head ELSE i - head + MAX_ITEMS
          BY <3>1, Indices
    <3>3. i < head \/ Distance(head, i) < size
          BY <1>1, <2>1, <3>1, <3>2, FifoAssumption DEF FifoInv, FifoTypeOK, Slot
    <3> QED BY <1>1, <3>1, <3>3 DEF FifoInv, Written, getAt
  <2> QED BY <2>1 DEF GetAtReadsWritten
<1> QED BY <1>1, FifoInvariance, PTL

-----------------------------------------------------------------------------
(***************************************************************************)
(* The buffer implements BoundedQueue.                                     *)
(***************************************************************************)

Value == Item \cup {Default}

\* n items from slot h on, front first, as the refinement maps them.
Items(b, h, n) == [k \in 1 .. n |-> b[(h + k - 1) % MAX_ITEMS]]

Held == Items(buffer, head, size)

\* The slot of the k-th item counted from slot h.
Place(h, k) == IF h + k - 1 < MAX_ITEMS THEN h + k - 1 ELSE h + k - 1 - MAX_ITEMS

LEMMA PlaceIsSlot ==
    ASSUME NEW h \in Slot, NEW k \in 1 .. MAX_ITEMS
    PROVE  (h + k - 1) % MAX_ITEMS = Place(h, k) /\ Place(h, k) \in Slot
<1>1. /\ MAX_ITEMS \in Nat \ {0} /\ h \in Int /\ k \in Int
      /\ 0 <= h /\ h < MAX_ITEMS /\ 1 <= k /\ k <= MAX_ITEMS
      BY FifoAssumption DEF Slot
<1>2. k - 1 \in 0 .. MAX_ITEMS /\ h + (k - 1) = h + k - 1
      BY <1>1
<1>3. (h + (k - 1)) % MAX_ITEMS = IF h + (k - 1) < MAX_ITEMS THEN h + (k - 1)
                                  ELSE h + (k - 1) - MAX_ITEMS
      BY <1>2, TailIndex, Zenon
<1>4. Place(h, k) \in Slot
      BY <1>1 DEF Place, Slot
<1> QED BY <1>1, <1>2, <1>3, <1>4 DEF Place

\* A function on 1 .. n is a sequence of length n.
LEMMA FunctionIsSeq ==
    ASSUME NEW n \in Nat, NEW D, NEW f \in [1 .. n -> D]
    PROVE  f \in Seq(D) /\ Len(f) = n
<1>1. f \in Seq(D)
      BY SeqDef
<1>2. DOMAIN f = 1 .. Len(f) /\ Len(f) \in Nat
      BY <1>1, LenProperties
<1> QED BY <1>1, <1>2

LEMMA HeldItems ==
    ASSUME NEW b \in [Slot -> Value], NEW h \in Slot, NEW n \in 0 .. MAX_ITEMS
    PROVE  /\ Items(b, h, n) \in Seq(Value) /\ Len(Items(b, h, n)) = n
           /\ \A k \in 1 .. n : Items(b, h, n)[k] = b[Place(h, k)]
<1>1. n \in Nat /\ n <= MAX_ITEMS /\ MAX_ITEMS \in Nat
      BY FifoAssumption
<1>2. ASSUME NEW k \in 1 .. n
      PROVE  /\ Items(b, h, n)[k] = b[Place(h, k)]
             /\ b[(h + k - 1) % MAX_ITEMS] \in Value
  <2>1. k \in 1 .. MAX_ITEMS
        BY <1>1
  <2>2. (h + k - 1) % MAX_ITEMS = Place(h, k) /\ Place(h, k) \in Slot
        BY <2>1, PlaceIsSlot
  <2> QED BY <2>2 DEF Items
<1>3. Items(b, h, n) \in [1 .. n -> Value]
      BY <1>2 DEF Items
<1> QED BY <1>1, <1>2, <1>3, FunctionIsSeq

LEMMA QueueInit == FifoInit => Queue!Init
<1> SUFFICES ASSUME FifoInit
             PROVE  Queue!Init
    OBVIOUS
<1>1. FifoTypeOK
      BY FifoInvInit DEF FifoInv
<1>2. Held \in Seq(Value) /\ Len(Held) = 0
      BY <1>1, HeldItems DEF FifoInit, FifoTypeOK, Held, Value
<1>3. Held = <<>>
      BY <1>2, EmptySeq
<1> QED BY <1>3 DEF FifoInit, Queue!Init, Held, Items

\* An item goes to the slot after the last one, unless all slots are taken.
LEMMA EnqueueIsPut ==
    ASSUME FifoTypeOK, FifoTypeOK', NEW x \in Item, enqueue(x)
    PROVE  Queue!Put(x)
<1>1. /\ MAX_ITEMS \in Nat \ {0} /\ head \in Slot /\ head \in Int
      /\ 0 <= head /\ head < MAX_ITEMS
      /\ size \in Nat /\ size <= MAX_ITEMS /\ x \in Value
      /\ UNCHANGED <<head, result>>
      BY FifoAssumption DEF FifoTypeOK, Slot, Value, enqueue
<1>2. /\ Held \in Seq(Value) /\ Len(Held) = size
      /\ \A k \in 1 .. size : Held[k] = buffer[Place(head, k)]
      BY HeldItems DEF FifoTypeOK, Held, Value
<1>3. /\ Held' \in Seq(Value) /\ Len(Held') = size'
      /\ \A k \in 1 .. size' : Held'[k] = buffer'[Place(head, k)]
  <2>1. /\ Held' \in Seq(Value) /\ Len(Held') = size'
        /\ \A k \in 1 .. size' : Held'[k] = buffer'[Place(head', k)]
        BY HeldItems DEF FifoTypeOK, Held, Value
  <2> QED BY <1>1, <2>1
<1>4. CASE size < MAX_ITEMS
  <2>1. size' = size + 1 /\ buffer' = [buffer EXCEPT ![tail] = x]
        BY <1>4 DEF enqueue
  <2>2. tail = Place(head, size + 1)
    <3>1. size + 1 \in 1 .. MAX_ITEMS
          BY <1>1, <1>4
    <3>2. (head + (size + 1) - 1) % MAX_ITEMS = Place(head, size + 1)
          BY <1>1, <3>1, PlaceIsSlot
    <3> QED BY <1>1, <3>2 DEF FifoTypeOK
  <2>3. \A k \in 1 .. size : Place(head, k) \in Slot /\ Place(head, k) # tail
        BY <1>1, <1>4, <2>2 DEF Place, Slot
  <2>4. /\ Append(Held, x) \in Seq(Value) /\ Len(Append(Held, x)) = size + 1
        /\ \A k \in 1 .. size : Append(Held, x)[k] = Held[k]
        /\ Append(Held, x)[size + 1] = x
        BY <1>1, <1>2, AppendProperties
  <2>5. ASSUME NEW k \in 1 .. size + 1
        PROVE  Held'[k] = Append(Held, x)[k]
    <3>1. CASE k = size + 1
      <4>1. Held'[k] = buffer'[tail]
            BY <1>3, <2>1, <2>2, <3>1
      <4> QED BY <2>1, <2>4, <3>1, <4>1 DEF FifoTypeOK
    <3>2. CASE k \in 1 .. size
      <4>1. Held'[k] = buffer[Place(head, k)]
            BY <1>3, <2>1, <2>3, <2>5, <3>2 DEF FifoTypeOK
      <4> QED BY <1>2, <2>4, <3>2, <4>1
    <3>3. k = size + 1 \/ k \in 1 .. size
          BY <1>1, <2>5
    <3> QED BY <3>1, <3>2, <3>3
  <2>6. Held' = Append(Held, x)
        BY <1>3, <2>1, <2>4, <2>5, SeqEqual
  <2> QED BY <1>1, <1>2, <1>4, <2>6 DEF Queue!Put, Held, Items
<1>5. CASE ~(size < MAX_ITEMS)
  <2>1. UNCHANGED <<buffer, size>>
        BY <1>5 DEF enqueue
  <2>2. Held' = Held
        BY <1>1, <2>1 DEF Held, Items
  <2> QED BY <1>1, <1>2, <1>5, <2>2 DEF Queue!Put, Held, Items
<1> QED BY <1>4, <1>5

\* The item at head leaves; the next slot is the new head.
LEMMA DequeueIsTake ==
    ASSUME FifoTypeOK, FifoTypeOK', dequeue
    PROVE  Queue!Take
<1>1. /\ MAX_ITEMS \in Nat \ {0} /\ head \in Slot /\ head \in Int
      /\ 0 <= head /\ head < MAX_ITEMS
      /\ size \in Nat /\ size <= MAX_ITEMS /\ buffer' = buffer
      BY FifoAssumption DEF FifoTypeOK, Slot, dequeue
<1>2. /\ Held \in Seq(Value) /\ Len(Held) = size
      /\ \A k \in 1 .. size : Held[k] = buffer[Place(head, k)]
      BY HeldItems DEF FifoTypeOK, Held, Value
<1>3. /\ Held' \in Seq(Value) /\ Len(Held') = size'
      /\ \A k \in 1 .. size' : Held'[k] = buffer[Place(head', k)]
  <2>1. /\ Held' \in Seq(Value) /\ Len(Held') = size'
        /\ \A k \in 1 .. size' : Held'[k] = buffer'[Place(head', k)]
        BY HeldItems DEF FifoTypeOK, Held, Value
  <2> QED BY <1>1, <2>1
<1>4. CASE size > 0
  <2>1. /\ head' = IF head + 1 = MAX_ITEMS THEN 0 ELSE head + 1
        /\ size' = size - 1 /\ result' = buffer[head]
        BY <1>1, <1>4, Indices DEF dequeue
  <2>2. Held # <<>> /\ Head(Held) = Held[1]
        BY <1>2, <1>4, EmptySeq
  <2>3. Head(Held) = buffer[head]
        BY <1>1, <1>2, <1>4, <2>2 DEF Place
  <2>4. /\ Tail(Held) \in Seq(Value) /\ Len(Tail(Held)) = size - 1
        /\ \A k \in 1 .. size - 1 : Tail(Held)[k] = Held[k + 1]
        BY <1>2, <2>2, HeadTailProperties
  <2>5. ASSUME NEW k \in 1 .. size - 1
        PROVE  Held'[k] = Tail(Held)[k]
    <3>1. Place(head', k) = Place(head, k + 1) /\ k + 1 \in 1 .. size
          BY <1>1, <2>1 DEF Place
    <3> QED BY <1>2, <1>3, <2>1, <2>4, <3>1
  <2>6. Held' = Tail(Held)
        BY <1>3, <2>1, <2>4, <2>5, SeqEqual
  <2> QED BY <2>1, <2>2, <2>3, <2>6 DEF Queue!Take, Held, Items
<1>5. CASE ~(size > 0)
  <2>1. result' = Default /\ UNCHANGED <<head, size>>
        BY <1>5 DEF dequeue
  <2>2. Held' = Held /\ Held = <<>>
        BY <1>1, <1>2, <1>5, <2>1, EmptySeq DEF Held, Items
  <2> QED BY <2>1, <2>2 DEF Queue!Take, Held, Items
<1> QED BY <1>4, <1>5

\* Steps around the buffer between the items of a queue.
LEMMA PlaceDistance ==
    ASSUME NEW h \in Slot, NEW i \in 1 .. MAX_ITEMS, NEW j \in 1 .. MAX_ITEMS
    PROVE  /\ Distance(Place(h, i), Place(h, j)) = IF j >= i THEN j - i
                                                   ELSE j - i + MAX_ITEMS
           /\ i < MAX_ITEMS => Succ(Place(h, i)) = Place(h, i + 1)
<1>1. Place(h, i) \in Slot /\ Place(h, j) \in Slot
      BY PlaceIsSlot
<1>2. /\ Distance(Place(h, i), Place(h, j)) =
            IF Place(h, j) >= Place(h, i) THEN Place(h, j) - Place(h, i)
            ELSE Place(h, j) - Place(h, i) + MAX_ITEMS
      /\ Succ(Place(h, i)) = IF Place(h, i) + 1 = MAX_ITEMS THEN 0 ELSE Place(h, i) + 1
      BY <1>1, Indices
<1>3. /\ MAX_ITEMS \in Nat \ {0} /\ h \in Int /\ 0 <= h /\ h < MAX_ITEMS
      /\ i \in Int /\ 1 <= i /\ i <= MAX_ITEMS /\ j \in Int /\ 1 <= j /\ j <= MAX_ITEMS
      BY FifoAssumption DEF Slot
<1> QED BY <1>2, <1>3 DEF Place

\* The items behind the removed one move up by one.
LEMMA RemoveAtItems ==
    ASSUME NEW D, NEW q \in Seq(D), NEW k \in 1 .. Len(q)
    PROVE  /\ Queue!RemoveAt(q, k) \in Seq(D)
           /\ Len(Queue!RemoveAt(q, k)) = Len(q) - 1
           /\ \A j \in 1 .. Len(q) - 1 :
                 Queue!RemoveAt(q, k)[j] = IF j < k THEN q[j] ELSE q[j + 1]
<1> DEFINE front == SubSeq(q, 1, k - 1)
           back  == SubSeq(q, k + 1, Len(q))
<1>1. Len(q) \in Nat /\ k \in Int /\ 1 <= k /\ k <= Len(q)
      BY LenProperties
<1>2. \A i \in 1 .. Len(q) : q[i] \in D
      BY ElementOfSeq
<1>3. /\ front \in Seq(D) /\ Len(front) = k - 1
      /\ \A i \in 1 .. k - 1 : front[i] = q[i]
  <2>1. \A i \in 1 .. k - 1 : q[i] \in D
        BY <1>1, <1>2
  <2>2. /\ front \in Seq(D) /\ Len(front) = IF 1 <= k - 1 THEN (k - 1) - 1 + 1 ELSE 0
        /\ \A i \in 1 .. (k - 1) - 1 + 1 : front[i] = q[1 + i - 1]
        BY <1>1, <2>1, SubSeqProperties
  <2> HIDE DEF front
  <2> QED BY <1>1, <2>2
<1>4. /\ back \in Seq(D) /\ Len(back) = Len(q) - k
      /\ \A i \in 1 .. Len(q) - k : back[i] = q[k + i]
  <2>1. \A i \in k + 1 .. Len(q) : q[i] \in D
        BY <1>1, <1>2
  <2>2. /\ back \in Seq(D)
        /\ Len(back) = IF k + 1 <= Len(q) THEN Len(q) - (k + 1) + 1 ELSE 0
        /\ \A i \in 1 .. Len(q) - (k + 1) + 1 : back[i] = q[(k + 1) + i - 1]
        BY <1>1, <2>1, SubSeqProperties
  <2> HIDE DEF back
  <2> QED BY <1>1, <2>2
<1> HIDE DEF front, back
<1>5. /\ front \o back \in Seq(D) /\ Len(front \o back) = Len(q) - 1
      /\ \A j \in 1 .. Len(q) - 1 :
            (front \o back)[j] = IF j <= k - 1 THEN front[j] ELSE back[j - (k - 1)]
  <2>1. /\ front \o back \in Seq(D) /\ Len(front \o back) = Len(front) + Len(back)
        /\ \A j \in 1 .. Len(front) + Len(back) :
              (front \o back)[j] = IF j <= Len(front) THEN front[j]
                                  ELSE back[j - Len(front)]
        BY <1>3, <1>4, ConcatProperties
  <2>2. Len(front) = k - 1 /\ Len(front) + Len(back) = Len(q) - 1
        BY <1>1, <1>3, <1>4
  <2> QED BY <2>1, <2>2
<1>6. Queue!RemoveAt(q, k) = front \o back
      BY DEF Queue!RemoveAt, front, back
<1>7. ASSUME NEW j \in 1 .. Len(q) - 1
      PROVE  (front \o back)[j] = IF j < k THEN q[j] ELSE q[j + 1]
  <2>1. CASE j < k
        BY <1>1, <1>3, <1>5, <2>1
  <2>2. CASE ~(j < k)
    <3>1. j - (k - 1) \in 1 .. Len(q) - k /\ k + (j - (k - 1)) = j + 1
          BY <1>1, <2>2
    <3>2. back[j - (k - 1)] = q[j + 1]
          BY <1>4, <3>1
    <3> QED BY <1>1, <1>5, <2>2, <3>2
  <2> QED BY <2>1, <2>2
<1> QED BY <1>5, <1>6, <1>7

\* The items behind the removed slot are moved one slot back, around the end of
\* the buffer if need be, and nothing else that is queued is touched.
LEMMA RemoveIsDrop ==
    ASSUME FifoTypeOK, FifoTypeOK', NEW pos \in Occupied, removeAt(pos)
    PROVE  \E k \in 1 .. Len(Held) : Queue!Drop(k)
<1>1. /\ MAX_ITEMS \in Nat \ {0} /\ head \in Slot /\ head \in Int
      /\ 0 <= head /\ head < MAX_ITEMS
      /\ size \in Nat /\ size <= MAX_ITEMS
      /\ UNCHANGED <<head, result>> /\ size' = size - 1
      BY FifoAssumption DEF FifoTypeOK, Slot, removeAt
<1>2. /\ Held \in Seq(Value) /\ Len(Held) = size
      /\ \A k \in 1 .. size : Held[k] = buffer[Place(head, k)]
      BY HeldItems DEF FifoTypeOK, Held, Value
<1>3. /\ Held' \in Seq(Value) /\ Len(Held') = size'
      /\ \A k \in 1 .. size' : Held'[k] = buffer'[Place(head, k)]
  <2>1. /\ Held' \in Seq(Value) /\ Len(Held') = size'
        /\ \A k \in 1 .. size' : Held'[k] = buffer'[Place(head', k)]
        BY HeldItems DEF FifoTypeOK, Held, Value
  <2> QED BY <1>1, <2>1
<1> DEFINE k == Distance(head, pos) + 1
<1>4. k \in 1 .. size /\ pos = Place(head, k)
  <2>1. pos \in Slot /\ Distance(head, pos) < size
        BY DEF Occupied
  <2>2. Distance(head, pos) = IF pos >= head THEN pos - head ELSE pos - head + MAX_ITEMS
        BY <1>1, <2>1, Indices
  <2>3. pos \in Int /\ 0 <= pos /\ pos < MAX_ITEMS
        BY <1>1, <2>1 DEF Slot
  <2> QED BY <1>1, <2>1, <2>2, <2>3 DEF Place
<1> HIDE DEF k
<1>5. Pred(tail) = Place(head, size)
  <2>1. size \in 1 .. MAX_ITEMS
        BY <1>1, <1>4
  <2>2. tail = IF head + size < MAX_ITEMS THEN head + size ELSE head + size - MAX_ITEMS
    <3>1. tail = (head + size) % MAX_ITEMS /\ size \in 0 .. MAX_ITEMS
          BY DEF FifoTypeOK
    <3> QED BY <1>1, <3>1, TailIndex, Zenon
  <2>3. Pred(tail) = IF tail = 0 THEN MAX_ITEMS - 1 ELSE tail - 1
        BY Indices DEF FifoTypeOK
  <2> QED BY <1>1, <2>1, <2>2, <2>3 DEF Place
<1>6. /\ Queue!RemoveAt(Held, k) \in Seq(Value)
      /\ Len(Queue!RemoveAt(Held, k)) = size - 1
      /\ \A j \in 1 .. size - 1 :
            Queue!RemoveAt(Held, k)[j] = IF j < k THEN Held[j] ELSE Held[j + 1]
      BY <1>2, <1>4, RemoveAtItems
<1>7. ASSUME NEW j \in 1 .. size - 1
      PROVE  Held'[j] = Queue!RemoveAt(Held, k)[j]
  <2>1. /\ j \in 1 .. MAX_ITEMS /\ k \in 1 .. MAX_ITEMS /\ size \in 1 .. MAX_ITEMS
        /\ j < MAX_ITEMS /\ j \in 1 .. size /\ j + 1 \in 1 .. size
        BY <1>1, <1>4, <1>7
  <2>2. /\ Distance(pos, Place(head, j)) = IF j >= k THEN j - k ELSE j - k + MAX_ITEMS
        /\ Distance(pos, Place(head, size)) = IF size >= k THEN size - k
                                              ELSE size - k + MAX_ITEMS
        /\ Succ(Place(head, j)) = Place(head, j + 1)
        BY <1>1, <1>4, <2>1, PlaceDistance
  <2>3. Distance(pos, Place(head, j)) < Distance(pos, Place(head, size)) <=> j >= k
        BY <1>1, <1>4, <2>1, <2>2
  <2>4. Place(head, j) \in Slot
        BY <1>1, <2>1, PlaceIsSlot
  <2>5. Held'[j] = IF j >= k THEN buffer[Place(head, j + 1)] ELSE buffer[Place(head, j)]
        BY <1>1, <1>3, <1>5, <1>7, <2>2, <2>3, <2>4 DEF removeAt
  <2>6. CASE j >= k
        BY <1>1, <1>2, <1>4, <1>6, <1>7, <2>1, <2>5, <2>6
  <2>7. CASE ~(j >= k)
        BY <1>1, <1>2, <1>4, <1>6, <1>7, <2>1, <2>5, <2>7
  <2> QED BY <2>6, <2>7
<1>8. Held' = Queue!RemoveAt(Held, k)
      BY <1>1, <1>3, <1>6, <1>7, SeqEqual
<1> QED BY <1>1, <1>2, <1>4, <1>8 DEF Queue!Drop, Held, Items

\* Items come out in the order in which they went in, whatever the capacity
\* and wherever the indices have wrapped, and a removal keeps the others' order.
THEOREM FifoImplementsQueue == FifoSpec => ImplementsQueue
<1>1. FifoInit => Queue!Init
      BY QueueInit
<1>2. FifoInv /\ FifoInv' /\ [FifoNext]_fifoVars => [Queue!Next]_(Queue!vars)
  <2> SUFFICES ASSUME FifoTypeOK, FifoTypeOK', [FifoNext]_fifoVars
               PROVE  [Queue!Next]_(Queue!vars)
      BY DEF FifoInv
  <2>2. ASSUME NEW x \in Item, enqueue(x)
        PROVE  Queue!Next
        BY <2>2, EnqueueIsPut DEF Queue!Next
  <2>3. CASE dequeue
        BY <2>3, DequeueIsTake DEF Queue!Next
  <2>4. ASSUME NEW pos \in Occupied, removeAt(pos)
        PROVE  Queue!Next
        BY <2>4, RemoveIsDrop DEF Queue!Next, Held, Items
  <2>5. CASE UNCHANGED fifoVars
        BY <2>5 DEF fifoVars, Queue!vars
  <2> QED BY <2>2, <2>3, <2>4, <2>5 DEF FifoNext
<1> QED BY <1>1, <1>2, FifoInvariance, PTL DEF FifoSpec, Queue!Spec, ImplementsQueue

-----------------------------------------------------------------------------
(***************************************************************************)
(* The message queue.                                                      *)
(***************************************************************************)

(***************************************************************************)
(* The inductive invariant: besides the type invariant, senders are inside *)
(* send and receivers inside receive, and who is past its last look at the *)
(* queue and has not been overtaken still finds what it saw.               *)
(***************************************************************************)
Roles ==
    /\ \A t \in Sender : at[t] \in SendPoint
    /\ \A t \in Receiver : at[t] \in ReceivePoint

RoomSeen == \A t \in Sender : at[t] = "store" /\ t \notin overtaken => queued < MAX_MESSAGES

MessageSeen == \A t \in Receiver : at[t] = "fetch" /\ t \notin overtaken => queued > 0

IInv == MsgTypeOK /\ Roles /\ RoomSeen /\ MessageSeen

LEMMA InvInit == MsgInit => IInv
<1> SUFFICES ASSUME MsgInit
             PROVE  IInv
    OBVIOUS
<1>1. MsgTypeOK
      BY QueueAssumption
      DEF MsgInit, Mutex!Init, MsgTypeOK, Timeout, SendPoint, ReceivePoint, Task
<1>2. Roles /\ RoomSeen /\ MessageSeen
      BY DEF MsgInit, Roles, RoomSeen, MessageSeen, SendPoint, ReceivePoint, Task
<1> QED BY <1>1, <1>2 DEF IInv

(***************************************************************************)
(* The steps of a sender change at and timeout of that sender only.        *)
(***************************************************************************)
LEMMA SenderKeepsInv ==
    ASSUME IInv, NEW t \in Sender, SendStep(t)
    PROVE  IInv'
<1> USE QueueAssumption DEF IInv
<1>1. CASE \E n \in Timeout : BeginSend(t, n)
      BY <1>1 DEF BeginSend, Mutex!Call, mtx, Full, MsgTypeOK, Roles, RoomSeen,
                  MessageSeen, SendPoint, ReceivePoint, Task
<1>2. CASE WaitForMutex(t)
      BY <1>2 DEF WaitForMutex, Mutex!Wait, Mutex!Awake, MsgTypeOK, Roles, RoomSeen,
                  MessageSeen
<1>3. CASE MutexTimeout(t)
      BY <1>3 DEF MutexTimeout, Mutex!Quit, Mutex!Awake, Leave, MsgTypeOK, Roles,
                  RoomSeen, MessageSeen, SendPoint, ReceivePoint, Task, Timeout
<1>4. CASE MutexAcquired(t)
      BY <1>4 DEF MutexAcquired, Mutex!Take, Mutex!Awake, Goto, MsgTypeOK, Roles,
                  RoomSeen, MessageSeen, SendPoint, ReceivePoint, Task
<1>5. CASE PassCheck(t)
      BY <1>5 DEF PassCheck, Full, Goto, mtx, MsgTypeOK, Roles, RoomSeen, MessageSeen,
                  SendPoint, ReceivePoint, Task
<1>6. CASE FailCheck(t)
      BY <1>6 DEF FailCheck, Goto, mtx, MsgTypeOK, Roles, RoomSeen, MessageSeen,
                  SendPoint, ReceivePoint, Task
<1>7. CASE ReleaseMutex(t)
  <2>1. holder = t /\ line' \in Seq(Sender)
        BY <1>7 DEF ReleaseMutex, Mutex!Release, MsgTypeOK
  <2>2. at' = [at EXCEPT ![t] = "again"] \/ at' = [at EXCEPT ![t] = "out"]
        BY <1>7 DEF ReleaseMutex, Goto, Leave
  <2>3. timeout' \in [Task -> Timeout]
        BY <1>7 DEF ReleaseMutex, Goto, Leave, MsgTypeOK, Timeout
  <2> QED
        BY <1>7, <2>1, <2>2, <2>3
        DEF ReleaseMutex, Mutex!Release, MsgTypeOK, Roles, RoomSeen, MessageSeen,
            SendPoint, ReceivePoint, Task
<1>8. CASE AcquireAgain(t)
      BY <1>8 DEF AcquireAgain, Mutex!Call, Goto, MsgTypeOK, Roles, RoomSeen,
                  MessageSeen, SendPoint, ReceivePoint, Task
<1>9. CASE Store(t)
      BY <1>9 DEF Store, Enqueue, Full, Leave, mtx, MsgTypeOK, Roles, RoomSeen,
                  MessageSeen, SendPoint, ReceivePoint, Task, Timeout
<1> QED BY <1>1, <1>2, <1>3, <1>4, <1>5, <1>6, <1>7, <1>8, <1>9 DEF SendStep

LEMMA ReceiverKeepsInv ==
    ASSUME IInv, NEW t \in Receiver, ReceiveStep(t)
    PROVE  IInv'
<1> USE QueueAssumption DEF IInv
<1>1. CASE \E n \in Timeout : BeginReceive(t, n)
      BY <1>1 DEF BeginReceive, Empty, mtx, MsgTypeOK, Roles, RoomSeen, MessageSeen,
                  SendPoint, ReceivePoint, Task
<1>2. CASE Look(t)
      BY <1>2 DEF Look, Empty, Goto, mtx, MsgTypeOK, Roles, RoomSeen, MessageSeen,
                  SendPoint, ReceivePoint, Task
<1>3. CASE ReceiveTimeout(t)
      BY <1>3 DEF ReceiveTimeout, Leave, mtx, MsgTypeOK, Roles, RoomSeen, MessageSeen,
                  SendPoint, ReceivePoint, Task, Timeout
<1>4. CASE Fetch(t)
      BY <1>4 DEF Fetch, Empty, Leave, mtx, MsgTypeOK, Roles, RoomSeen, MessageSeen,
                  SendPoint, ReceivePoint, Task, Timeout
<1> QED BY <1>1, <1>2, <1>3, <1>4 DEF ReceiveStep

LEMMA InvNext == IInv /\ [MsgNext]_msgVars => IInv'
<1> SUFFICES ASSUME IInv, [MsgNext]_msgVars
             PROVE  IInv'
    OBVIOUS
<1>1. CASE \E t \in Sender : SendStep(t)
      BY <1>1, SenderKeepsInv
<1>2. CASE \E t \in Receiver : ReceiveStep(t)
      BY <1>2, ReceiverKeepsInv
<1>3. CASE SendFromISR
      BY <1>3, QueueAssumption
      DEF SendFromISR, Enqueue, Full, mtx, IInv, MsgTypeOK, Roles, RoomSeen,
          MessageSeen, Task
<1>4. CASE UNCHANGED msgVars
      BY <1>4 DEF msgVars, mtx, IInv, MsgTypeOK, Roles, RoomSeen, MessageSeen
<1> QED BY <1>1, <1>2, <1>3, <1>4 DEF MsgNext

LEMMA InvAlways == MsgSpec => []IInv
<1> QED BY InvInit, InvNext, PTL DEF MsgSpec

\* The queue never holds more than its capacity, and a task about to look at it
\* again or to release the mutex has the mutex, for any number of senders,
\* receivers and slots.
THEOREM TypeCorrect == MsgSpec => []MsgTypeOK
<1>1. IInv => MsgTypeOK
      BY DEF IInv
<1> QED BY <1>1, InvAlways, PTL

-----------------------------------------------------------------------------

\* send loses a message it reports as sent only if another sender, a task or an
\* interrupt handler, has stored one since this one had found room.
THEOREM LossHasACause == MsgSpec => LossNeedsRace
<1>1. ASSUME IInv, NEW t \in Sender, Store(t), t \notin overtaken
      PROVE  queued' = queued + 1
      BY <1>1 DEF Store, Enqueue, Full, IInv, MsgTypeOK, RoomSeen
<1>2. IInv /\ [MsgNext]_msgVars =>
        [\A t \in Sender : Store(t) /\ t \notin overtaken => queued' = queued + 1]_msgVars
      BY <1>1
<1> QED BY <1>2, InvAlways, PTL DEF MsgSpec, LossNeedsRace

\* receive delivers no message and reports success only if another receiver has
\* taken one since this one had seen it.
THEOREM NothingHasACause == MsgSpec => NothingNeedsRace
<1>1. ASSUME IInv, NEW t \in Receiver, Fetch(t), t \notin overtaken
      PROVE  queued' = queued - 1
      BY <1>1 DEF Fetch, Empty, IInv, MsgTypeOK, MessageSeen
<1>2. IInv /\ [MsgNext]_msgVars =>
        [\A t \in Receiver : Fetch(t) /\ t \notin overtaken => queued' = queued - 1]_msgVars
      BY <1>1
<1> QED BY <1>2, InvAlways, PTL DEF MsgSpec, NothingNeedsRace

=============================================================================
