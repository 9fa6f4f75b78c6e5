------------------------- MODULE StatusQueue_proofs -------------------------
(***************************************************************************)
(* Proofs about StatusQueue, for every capacity, every modulus that the    *)
(* capacity divides and any number of snapshots.  Snapshot k stays in its  *)
(* slot until the push that comes round to it begins, Capacity later       *)
(* (Kept); the rest follows the reader through its copy.                   *)
(***************************************************************************)
EXTENDS StatusQueue, Integers, TLAPS

Types ==
    /\ writeIndex \in 0 .. MaxPush /\ tail \in Nat /\ tailSeen \in Nat
    /\ buf \in [Slots -> Snapshots \cup {Torn}]
    /\ pushPc \in {"idle", "copying", "copied", "published"}
    /\ readPc \in {"idle", "head", "copying", "empty", "found"}
    /\ lapped \in BOOLEAN

\* The tail follows the write index, and the reader the tail.
Order ==
    /\ tail = IF pushPc \in {"copying", "copied"} THEN writeIndex - 1 ELSE writeIndex
    /\ tailSeen <= tail

\* The snapshots that are whole in the ring.
Whole(k) == (k <= tail \/ (pushPc = "copied" /\ k = writeIndex)) /\ writeIndex < k + Capacity

Kept == \A k \in 1 .. MaxPush : Whole(k) => buf[Slot(k)] = k

\* The reader's copy, and what the page has been shown.
Copied ==
    /\ readPc = "copying" => tailSeen >= 1 /\ (~Lapped => item = tailSeen)
    /\ readPc = "found" => (~Lapped => lastStatus = tailSeen)
    /\ ~lapped => lastStatus \in Nat /\ lastStatus <= tailSeen

Inv == Types /\ Order /\ Kept /\ Copied

-----------------------------------------------------------------------------
(* The slots *)

\* Division with remainder.
LEMMA DivMod ==
    ASSUME NEW n \in Int, NEW c \in Int, c > 0
    PROVE  /\ n \div c \in Int /\ n % c \in Int
           /\ n % c >= 0 /\ n % c < c
           /\ n = c * (n \div c) + (n % c)
<1>1. n = c * (n \div c) + (n % c)
  BY Z3T(30)
<1>2. n \div c \in Int /\ n % c \in Int /\ n % c >= 0 /\ n % c < c
  BY Z3T(30)
<1> QED BY <1>1, <1>2

\* A product with a positive factor keeps its order.
LEMMA FactorOrder ==
    ASSUME NEW c \in Int, c > 0, NEW p \in Int, NEW q \in Int, p < q
    PROVE  c * q >= c * p + c
<1>1. c * (q - p - 1) >= 0
  OBVIOUS
<1>2. c * (q - p - 1) = c * q - c * p - c
  OBVIOUS
<1> QED BY <1>1, <1>2

\* The remainder is the only one.
LEMMA RemainderUnique ==
    ASSUME NEW c \in Int, c > 0, NEW p \in Int, NEW q \in Int, NEW r \in Int, NEW s \in Int,
           0 <= r, r < c, 0 <= s, s < c, c * q + r = c * p + s
    PROVE  r = s
<1>1. CASE q = p
  BY <1>1
<1>2. CASE q < p
  <2>1. c * p >= c * q + c
    BY <1>2, FactorOrder
  <2>2. c * p \in Int /\ c * q \in Int
    OBVIOUS
  <2> QED BY <2>1, <2>2
<1>3. CASE p < q
  <2>1. c * q >= c * p + c
    BY <1>3, FactorOrder
  <2>2. c * p \in Int /\ c * q \in Int
    OBVIOUS
  <2> QED BY <2>1, <2>2
<1> QED BY <1>1, <1>2, <1>3

\* Reducing a counter to 32 bits does not change its slot.
LEMMA ModMod ==
    ASSUME NEW n \in Int, NEW m \in Int, m > 0, NEW c \in Int, c > 0, m % c = 0
    PROVE  (n % m) % c = n % c
<1>1. PICK k \in Int : m = c * k
  <2>1. m \div c \in Int /\ m = c * (m \div c) + 0
    BY DivMod
  <2>2. c * (m \div c) \in Int
    BY <2>1
  <2> QED BY <2>1, <2>2
<1>2. PICK a \in Int, x \in Int : x = n % m /\ n = m * a + x
  <2>1. n \div m \in Int /\ n % m \in Int /\ n = m * (n \div m) + (n % m)
    BY DivMod
  <2> QED BY <2>1, Zenon
<1>3. PICK y \in Int, r \in Int : r = x % c /\ 0 <= r /\ r < c /\ x = c * y + r
  <2>1. /\ x \div c \in Int /\ x % c \in Int /\ 0 <= x % c /\ x % c < c
        /\ x = c * (x \div c) + (x % c)
    BY DivMod
  <2> QED BY <2>1, Zenon
<1>4. PICK z \in Int, s \in Int : s = n % c /\ 0 <= s /\ s < c /\ n = c * z + s
  <2>1. /\ n \div c \in Int /\ n % c \in Int /\ 0 <= n % c /\ n % c < c
        /\ n = c * (n \div c) + (n % c)
    BY DivMod
  <2> QED BY <2>1, Zenon
<1>5. m * a = c * (k * a)
  BY <1>1
<1>6. c * (k * a + y) = c * (k * a) + c * y
  OBVIOUS
<1>7. k * a + y \in Int /\ c * (k * a) \in Int /\ c * y \in Int
  OBVIOUS
<1>8. c * (k * a + y) + r = c * z + s
  <2> DEFINE f == c * (k * a)
             g == c * y
             h == c * (k * a + y)
  <2>1. f \in Int /\ g \in Int /\ h = f + g
    BY <1>6, <1>7
  <2>2. n = f + x /\ x = g + r
    BY <1>2, <1>3, <1>5
  <2> HIDE DEF f, g, h
  <2>3. n = h + r
    BY <2>1, <2>2
  <2> QED BY <1>4, <2>3 DEF h
<1>9. r = s
  BY <1>3, <1>4, <1>7, <1>8, RemainderUnique
<1> QED BY <1>2, <1>3, <1>4, <1>9

\* Equal remainders are at least the divisor apart.
LEMMA SameRemainder ==
    ASSUME NEW a \in Int, NEW b \in Int, NEW c \in Int, c > 0, a % c = b % c, a < b
    PROVE  b >= a + c
<1>1. PICK p \in Int, r \in Int : r = a % c /\ a = c * p + r
  BY DivMod
<1>2. PICK q \in Int : b = c * q + r
  BY <1>1, DivMod
<1>3. c * p \in Int /\ c * q \in Int
  OBVIOUS
<1>4. p < q
  <2>1. ASSUME q < p PROVE FALSE
    <3>1. c * p >= c * q + c
      BY <2>1, FactorOrder
    <3> QED BY <1>1, <1>2, <1>3, <3>1
  <2>2. p # q
    BY <1>1, <1>2
  <2> QED BY <2>1, <2>2
<1>5. c * q >= c * p + c
  BY <1>4, FactorOrder
<1> QED BY <1>1, <1>2, <1>3, <1>5

\* Every snapshot has a slot, and two in the same slot are a lap apart.
LEMMA SlotsApart ==
    ASSUME NEW j \in Nat, NEW k \in Nat, j >= 1
    PROVE  /\ Slot(j) \in Slots
           /\ j < k /\ Slot(j) = Slot(k) => k >= j + Capacity
<1>1. /\ Capacity \in Int /\ Capacity > 0 /\ Modulus \in Int /\ Modulus > 0
      /\ Modulus % Capacity = 0
  BY StatusQueueAssumption
<1>2. Slot(j) = (j - 1) % Capacity /\ Slot(k) = (k - 1) % Capacity
  BY <1>1, ModMod DEF Slot, Word
<1>3. Slot(j) \in Slots
  BY <1>1, <1>2, DivMod DEF Slots
<1>4. ASSUME j < k, Slot(j) = Slot(k) PROVE k >= j + Capacity
  <2>1. (k - 1) >= (j - 1) + Capacity
    BY <1>1, <1>2, <1>4, SameRemainder
  <2> QED BY <1>1, <2>1
<1> QED BY <1>3, <1>4

-----------------------------------------------------------------------------
LEMMA InitInv == Init => Inv
<1> SUFFICES ASSUME Init PROVE Inv
  OBVIOUS
<1>1. MaxPush \in Nat /\ Capacity \in Nat
  BY StatusQueueAssumption
<1>2. buf \in [Slots -> Snapshots \cup {Torn}]
  BY <1>1 DEF Init, Snapshots
<1>3. lapped \in BOOLEAN
  BY Zenon DEF Init
<1>4. Types /\ Order
  BY <1>1, <1>2, <1>3 DEF Init, Types, Order
<1>5. Kept
  BY <1>1 DEF Init, Kept, Whole
<1>6. Copied
  BY DEF Init, Copied
<1> QED BY <1>4, <1>5, <1>6 DEF Inv

LEMMA PushBeginInv == Inv /\ PushBegin => Inv'
<1> SUFFICES ASSUME Inv, PushBegin PROVE Inv'
  OBVIOUS
<1>1. /\ pushPc = "idle" /\ pushPc' = "copying"
      /\ writeIndex < MaxPush /\ writeIndex' = writeIndex + 1
      /\ buf' = [buf EXCEPT ![Slot(writeIndex + 1)] = Torn]
      /\ UNCHANGED <<tail, readPc, tailSeen, item, lastStatus, lapped>>
  BY DEF PushBegin, reader
<1>2. Capacity \in Nat /\ MaxPush \in Nat /\ writeIndex \in Nat
  BY StatusQueueAssumption DEF Inv, Types
<1>3. Types'
  <2>1. buf' \in [Slots -> Snapshots \cup {Torn}]
    BY <1>1 DEF Inv, Types
  <2>2. writeIndex' \in 0 .. MaxPush
    BY <1>1, <1>2
  <2> QED BY <1>1, <2>1, <2>2 DEF Inv, Types
<1>4. Order'
  BY <1>1, <1>2 DEF Inv, Order
<1>5. Kept'
  <2> SUFFICES ASSUME NEW k \in 1 .. MaxPush, Whole(k)' PROVE buf'[Slot(k)] = k
    BY DEF Kept
  <2>1. k <= tail /\ writeIndex + 1 < k + Capacity /\ tail = writeIndex
    BY <1>1 DEF Whole, Inv, Order
  <2>2. buf[Slot(k)] = k
    BY <1>2, <2>1 DEF Inv, Kept, Whole
  <2>3. Slot(k) # Slot(writeIndex + 1) /\ Slot(k) \in Slots
    BY <1>2, <2>1, SlotsApart
  <2> QED BY <1>1, <2>2, <2>3 DEF Inv, Types
<1>6. Copied'
  BY <1>1, <1>2 DEF Inv, Types, Copied, Lapped
<1> QED BY <1>3, <1>4, <1>5, <1>6 DEF Inv

LEMMA PushCopyEndInv == Inv /\ PushCopyEnd => Inv'
<1> SUFFICES ASSUME Inv, PushCopyEnd PROVE Inv'
  OBVIOUS
<1>1. /\ pushPc = "copying" /\ pushPc' = "copied"
      /\ buf' = [buf EXCEPT ![Slot(writeIndex)] = writeIndex]
      /\ UNCHANGED <<writeIndex, tail, readPc, tailSeen, item, lastStatus, lapped>>
  BY DEF PushCopyEnd, reader, counters
<1>2. Capacity \in Nat /\ MaxPush \in Nat /\ writeIndex \in Nat /\ writeIndex >= 1
  BY <1>1, StatusQueueAssumption DEF Inv, Types, Order
<1>3. Types'
  BY <1>1, <1>2 DEF Inv, Types, Snapshots
<1>4. Order'
  BY <1>1 DEF Inv, Order
<1>5. Kept'
  <2> SUFFICES ASSUME NEW k \in 1 .. MaxPush, Whole(k)' PROVE buf'[Slot(k)] = k
    BY DEF Kept
  <2>1. Slot(k) \in Slots
    BY SlotsApart, <1>2
  <2>2. CASE k = writeIndex
    BY <1>1, <2>1, <2>2 DEF Inv, Types
  <2>3. CASE k # writeIndex
    <3>1. k <= tail /\ writeIndex < k + Capacity /\ k < writeIndex
      BY <1>1, <1>2, <2>3 DEF Whole, Inv, Order
    <3>2. buf[Slot(k)] = k
      BY <3>1 DEF Inv, Kept, Whole
    <3>3. Slot(k) # Slot(writeIndex)
      BY <1>2, <3>1, SlotsApart
    <3> QED BY <1>1, <2>1, <3>2, <3>3 DEF Inv, Types
  <2> QED BY <2>2, <2>3
<1>6. Copied'
  BY <1>1 DEF Inv, Copied, Lapped
<1> QED BY <1>3, <1>4, <1>5, <1>6 DEF Inv

LEMMA PushPublishInv == Inv /\ PushPublish => Inv'
<1> SUFFICES ASSUME Inv, PushPublish PROVE Inv'
  OBVIOUS
<1>1. /\ pushPc = "copied" /\ pushPc' = "published" /\ tail' = writeIndex
      /\ UNCHANGED <<writeIndex, buf, readPc, tailSeen, item, lastStatus, lapped>>
  BY DEF PushPublish, reader
<1>2. writeIndex \in Nat /\ tail = writeIndex - 1
  BY <1>1, StatusQueueAssumption DEF Inv, Types, Order
<1>3. Kept'
  BY <1>1, <1>2 DEF Inv, Kept, Whole
<1> QED BY <1>1, <1>2, <1>3 DEF Inv, Types, Order, Copied, Lapped

LEMMA PushAdvanceHeadInv == Inv /\ PushAdvanceHead => Inv'
<1> SUFFICES ASSUME Inv, PushAdvanceHead PROVE Inv'
  OBVIOUS
<1>1. /\ pushPc = "published" /\ pushPc' = "idle"
      /\ UNCHANGED <<writeIndex, tail, buf, readPc, tailSeen, item, lastStatus, lapped>>
  BY DEF PushAdvanceHead, reader
<1>2. Kept'
  BY <1>1 DEF Inv, Kept, Whole
<1> QED BY <1>1, <1>2 DEF Inv, Types, Order, Copied, Lapped

LEMMA LoadTailInv ==
    ASSUME Inv, NEW t \in Snapshots, LoadTail(t)
    PROVE  Inv'
<1>1. /\ readPc = "idle" /\ readPc' = "head" /\ tailSeen' = t
      /\ UNCHANGED <<writeIndex, tail, buf, pushPc, item, lastStatus, lapped>>
  BY DEF LoadTail, counters
<1>2. t \in Nat /\ tailSeen <= t /\ t <= tail
  BY StatusQueueAssumption DEF LoadTail, Snapshots, Inv, Types
<1>3. Kept'
  BY <1>1 DEF Inv, Kept, Whole
<1> QED BY <1>1, <1>2, <1>3 DEF Inv, Types, Order, Copied

LEMMA LoadHeadInv ==
    ASSUME Inv, NEW h \in Snapshots, LoadHead(h)
    PROVE  Inv'
<1>1. UNCHANGED <<writeIndex, tail, buf, pushPc, tailSeen, lastStatus, lapped>>
  BY DEF LoadHead, counters
<1>2. Kept' /\ Order'
  BY <1>1 DEF Inv, Kept, Whole, Order
<1>3. CASE readPc' = "empty"
  BY <1>1, <1>2, <1>3 DEF Inv, Types, Copied
<1>4. CASE readPc' = "copying" /\ item' = buf[Slot(tailSeen)] /\ Word(h) < Word(tailSeen)
  <2>1. tailSeen >= 1 /\ tailSeen \in 1 .. MaxPush
    <3>1. h \in Int /\ Modulus \in Int /\ Modulus > 0
      BY StatusQueueAssumption DEF Snapshots
    <3>2. Word(h) \in Int /\ Word(h) >= 0
      BY <3>1, DivMod DEF Word
    <3>3. tailSeen = 0 => Word(tailSeen) = 0
      BY <3>1 DEF Word
    <3>4. tailSeen # 0
      BY <1>4, <3>2, <3>3
    <3> QED BY <3>4, StatusQueueAssumption DEF Inv, Types, Order
  <2>2. ~Lapped => item' = tailSeen
    BY <1>4, <2>1, StatusQueueAssumption DEF Inv, Types, Order, Kept, Whole, Lapped
  <2>3. Copied'
    BY <1>1, <1>4, <2>1, <2>2 DEF Inv, Copied, Lapped
  <2> QED BY <1>1, <1>2, <1>4, <2>3 DEF Inv, Types
<1>5. /\ Word(h) \in Int /\ Word(tailSeen) \in Int
  BY StatusQueueAssumption, DivMod DEF Word, Snapshots, Inv, Types
<1> QED BY <1>3, <1>4, <1>5 DEF LoadHead

LEMMA ReadCopyEndInv ==
    ASSUME Inv, ReadCopyEnd
    PROVE  /\ Inv'
           /\ ~lapped' => lastStatus' = tailSeen
<1>1. /\ readPc = "copying" /\ readPc' = "found"
      /\ item' = IF buf[Slot(tailSeen)] = item THEN item ELSE Torn
      /\ lastStatus' = item' /\ lapped' = (lapped \/ Lapped)
      /\ UNCHANGED <<writeIndex, tail, buf, pushPc, tailSeen>>
  BY DEF ReadCopyEnd, counters
<1>2. tailSeen \in 1 .. MaxPush /\ writeIndex \in Nat
  BY <1>1, StatusQueueAssumption DEF Inv, Types, Order, Copied
<1>3. ASSUME ~Lapped PROVE lastStatus' = tailSeen
  <2>1. Whole(tailSeen)
    BY <1>2, <1>3, StatusQueueAssumption DEF Inv, Types, Order, Whole, Lapped
  <2>2. buf[Slot(tailSeen)] = tailSeen
    BY <1>2, <2>1 DEF Inv, Kept
  <2>3. item = tailSeen
    BY <1>1, <1>3 DEF Inv, Copied
  <2> QED BY <1>1, <2>2, <2>3
<1>4. lapped' \in BOOLEAN /\ (~lapped' => ~Lapped)
  BY <1>1
<1>5. Kept' /\ Order'
  BY <1>1 DEF Inv, Kept, Whole, Order
<1>6. Lapped' <=> Lapped
  BY <1>1 DEF Lapped
<1>7. Copied'
  BY <1>1, <1>2, <1>3, <1>4, <1>6 DEF Copied
<1> QED BY <1>1, <1>3, <1>4, <1>5, <1>7 DEF Inv, Types

LEMMA AnswerInv == Inv /\ Answer => Inv'
<1> SUFFICES ASSUME Inv, Answer PROVE Inv'
  OBVIOUS
<1>1. /\ readPc' = "idle"
      /\ UNCHANGED <<writeIndex, tail, buf, pushPc, tailSeen, item, lastStatus, lapped>>
  BY DEF Answer, counters
<1>2. Kept'
  BY <1>1 DEF Inv, Kept, Whole
<1> QED BY <1>1, <1>2 DEF Inv, Types, Order, Copied

LEMMA StutterInv == Inv /\ UNCHANGED vars => Inv'
BY DEF vars, counters, reader, Inv, Types, Order, Kept, Whole, Copied, Lapped

\* Inv is inductive.
THEOREM Invariance == Spec => []Inv
<1>1. Inv /\ [Next]_vars => Inv'
  BY PushBeginInv, PushCopyEndInv, PushPublishInv, PushAdvanceHeadInv, LoadTailInv, LoadHeadInv,
     ReadCopyEndInv, AnswerInv, StutterInv DEF Next, Pushing, Reading
<1> QED BY InitInv, <1>1, PTL DEF Spec

-----------------------------------------------------------------------------
\* What latest hands out is the snapshot its tail announced, whole, unless a
\* full lap of pushes began since; for every capacity and any wrap.
THEOREM SnapshotsWhole == Spec => []SnapshotWhole
<1>1. Inv => SnapshotWhole
  BY DEF Inv, Copied, SnapshotWhole
<1> QED BY Invariance, <1>1, PTL

\* As long as no copy was lapped, the page never goes back.
THEOREM NoStepBack == Spec => NeverBackwards
<1>1. Inv /\ [Next]_vars
        => [~lapped' /\ lastStatus' # lastStatus => lastStatus' > lastStatus]_vars
  <2> SUFFICES ASSUME Inv, Next, ~lapped', lastStatus' # lastStatus
               PROVE  lastStatus' > lastStatus
    OBVIOUS
  <2>1. ReadCopyEnd
    BY DEF Next, Pushing, Reading, PushBegin, PushCopyEnd, PushPublish, PushAdvanceHead,
           LoadTail, LoadHead, Answer, reader
  <2>2. lastStatus' = tailSeen /\ ~lapped
    BY <2>1, ReadCopyEndInv DEF ReadCopyEnd
  <2> QED BY <2>2 DEF Inv, Types, Copied
<1> QED BY Invariance, <1>1, PTL DEF Spec, NeverBackwards
=============================================================================
