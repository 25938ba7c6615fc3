--------------------------- MODULE SpscRing_proofs ---------------------------
(***************************************************************************)
(* The ring of exercises/03/sol/e3 never has a slot race and is a FIFO of  *)
(* BUFFER_SIZE - 1 transactions, for every size of the array, every number *)
(* of operations, every depth of the store buffers and whatever a killed   *)
(* run left behind.                                                        *)
(***************************************************************************)
EXTENDS SpscRing, Lemmas

\* A position counts operations and grows without bound; an index is the
\* slot of a position.
Slot(p) == p % BUFFER_SIZE

Issued  == NUM_OPERATIONS - pops        \* stores of write_index issued
Busy    == IF ppc = "advance" THEN 1 ELSE 0
Drained == 2 * Issued + Busy - Len(psb) \* stores of the producer in memory
Read    == IF seen = "new" THEN NUM_OPERATIONS - cops ELSE 0
Held    == IF seen = "new" THEN Len(csb) ELSE 0
Freed   == Read - Held                  \* stores of read_index in memory

\* The producer's k-th store, in program order: odd ones are values, even
\* ones indexes.
Odd(s, p)  == s[1] = "buf" /\ s[2] \in Amounts /\ s[3] = Slot(p)
Even(s, p) == s[1] = "index" /\ s[2] = Slot(p + 1)
IsStore(s, k) == \A p \in Nat : /\ k = 2 * p + 1 => Odd(s, p)
                                /\ k = 2 * p + 2 => Even(s, p)

\* A store buffer holds the stores that follow the first d in program order.
Waiting(sb, d) == \A i \in 1 .. Len(sb) : IsStore(sb[i], d + i)
Returns(sb, f) == \A i \in 1 .. Len(sb) : sb[i][1] = "index" /\ sb[i][2] = Slot(f + i)

Indexes == {"index"} \X Slots
Stores  == ({"buf"} \X Amounts \X Slots) \cup Indexes

TypeOK ==
    /\ name \in {"none", "old", "new"} /\ sized \in SUBSET Objects
    /\ buf \in [Objects -> [Slots -> Int]]
    /\ read_index \in [Objects -> Slots] /\ write_index \in [Objects -> Slots]
    /\ ppc \in {"unlink", "create", "truncate", "produce", "spin", "write",
                "advance", "sleep", "exit"}
    /\ mine \in {"none", "new"} /\ value \in Amounts \cup {0}
    /\ pops \in 0 .. NUM_OPERATIONS /\ psb \in Seq(Stores)
    /\ cpc \in {"open", "spin", "read", "advance", "done", "failed"}
    /\ seen \in {"none", "old", "new"}
    /\ cops \in 0 .. NUM_OPERATIONS /\ csb \in Seq(Indexes)
    /\ published \in Nat

\* The producer's object is the new one, and nobody has it before the producer.
Names ==
    /\ mine = "none" <=> ppc \in {"unlink", "create"}
    /\ name = "old" => ppc = "unlink"
    /\ name = "new" \/ seen = "new" => mine = "new"
    /\ "new" \in sized <=> ppc \notin {"unlink", "create", "truncate"}

\* What is still as it was at the start, and what is left to do.
Starts ==
    /\ ppc \in {"unlink", "create", "truncate"} =>
           pops = NUM_OPERATIONS /\ psb = <<>> /\ published = 0
    /\ ppc \in {"produce", "spin", "write", "advance"} => pops > 0
    /\ ppc \in {"spin", "write", "advance"} => value \in Amounts
    /\ seen = "none" \/ (seen = "new" /\ "new" \notin sized) =>
           /\ cpc \in {"open", "spin", "failed"} /\ csb = <<>>
           /\ cops = NUM_OPERATIONS /\ localSum = 0
    /\ cpc = "open" => seen = "none"
    /\ cpc \in {"spin", "read", "advance"} => cops > 0 /\ seen # "none"

\* Memory and the store buffers stand for positions.
Positions ==
    /\ write_index["new"] = Slot(published) /\ read_index["new"] = Slot(Freed)
    /\ Waiting(psb, Drained) /\ Drained \in {2 * published, 2 * published + 1}
    /\ seen = "new" => Returns(csb, Freed)

\* The order of the positions: nothing is read before it is visible, nothing
\* written before it is visible that the slot is free.
Order ==
    /\ Freed >= 0 /\ Read <= published /\ published <= Issued
    /\ Issued <= Freed + BUFFER_SIZE - 1
    /\ ppc \in {"write", "advance"} => Issued < Freed + BUFFER_SIZE - 1
    /\ seen = "new" /\ cpc \in {"read", "advance"} => Read < published

\* The values on their way.
Values ==
    /\ Drained = 2 * published + 1 => buf["new"][Slot(published)] \in Amounts
    /\ seen = "new" /\ cpc = "advance" => got = buf["new"][Slot(Read)]

IInv == TypeOK /\ Names /\ Starts /\ Positions /\ Order /\ Values

-----------------------------------------------------------------------------
(* Slots and positions. *)

\* The slot of a position is a slot, advancing an index advances its position,
\* and positions less than a lap apart have different slots.
LEMMA SlotFacts ==
    /\ \A p \in Int : Slot(p) \in Slots
    /\ \A p \in Int : Following(Slot(p)) = Slot(p + 1)
    /\ \A p, q \in Int : p < q /\ q < p + BUFFER_SIZE => Slot(p) # Slot(q)
    /\ \A p \in Int : Slot(p + BUFFER_SIZE) = Slot(p)
    /\ Slot(0) = 0
<1>0. BUFFER_SIZE \in Nat \ {0}
  BY SpscAssumption
<1>1. \A p \in Int : Slot(p) \in Slots
  BY <1>0, ModDef DEF Slot, Slots
<1>2. \A p \in Int : Following(Slot(p)) = Slot(p + 1)
  BY <1>0, ModAdvance DEF Slot, Following
<1>3. \A p, q \in Int : p < q /\ q < p + BUFFER_SIZE => Slot(p) # Slot(q)
  BY <1>0, ModDistinct DEF Slot
<1>4. \A p \in Int : Slot(p + BUFFER_SIZE) = Slot(p)
  <2> SUFFICES ASSUME NEW p \in Int PROVE Slot(p + BUFFER_SIZE) = Slot(p)
    OBVIOUS
  <2> DEFINE B == BUFFER_SIZE
             q == p \div B
             r == p % B
             q2 == (p + B) \div B
             r2 == (p + B) % B
  <2>1. q \in Int /\ r \in 0 .. B-1 /\ p = q * B + r
    BY <1>0, ModDef
  <2>2. q2 \in Int /\ r2 \in 0 .. B-1 /\ p + B = q2 * B + r2
    <3>1. p + B \in Int
      BY <1>0
    <3> HIDE DEF B
    <3> QED BY <1>0, <3>1, ModDef DEF B
  <2> HIDE DEF q, r, q2, r2
  <2>3. (q + 1) * B + r = q2 * B + r2
    <3>1. (q + 1) * B = q * B + B
      BY <1>0, <2>1, SMT
    <3> QED BY <1>0, <2>1, <2>2, <3>1, SMT
  <2>4. q + 1 \in Int
    BY <2>1
  <2>5. r = r2
    BY <1>0, <2>1, <2>2, <2>3, <2>4, DivisionUnique
  <2> QED BY <2>5 DEF r, r2, Slot
<1>5. Slot(0) = 0
  BY <1>0, SMT DEF Slot
<1> QED BY <1>1, <1>2, <1>3, <1>4, <1>5

\* The values and index stores are what the store buffers hold.
LEMMA StoreFacts ==
    /\ \A v \in Amounts, x \in Slots :
          /\ <<"buf", v, x>> \in Stores /\ <<"buf", v, x>>[1] = "buf"
          /\ <<"buf", v, x>>[2] = v /\ <<"buf", v, x>>[3] = x
    /\ \A x \in Slots :
          /\ <<"index", x>> \in Stores /\ <<"index", x>> \in Indexes
          /\ <<"index", x>>[1] = "index" /\ <<"index", x>>[2] = x
    /\ \A s \in Indexes : s[1] = "index" /\ s[2] \in Slots
    /\ \A s \in Stores : \/ s[1] = "index" /\ s[2] \in Slots
                         \/ s[1] = "buf" /\ s[2] \in Amounts /\ s[3] \in Slots
BY DEF Stores, Indexes

\* Every store is the value or the index store of one position.
LEMMA Parity ==
    ASSUME NEW k \in Nat, k > 0
    PROVE  \E p \in Nat : k = 2 * p + 1 \/ k = 2 * p + 2
<1> DEFINE p == (k - 1) \div 2
<1>1. p \in Nat /\ (k = 2 * p + 1 \/ k = 2 * p + 2)
  BY SMT
<1> QED BY <1>1

-----------------------------------------------------------------------------
(* Store buffers. *)

\* Issuing a store.
LEMMA WaitingIssue ==
    ASSUME NEW sb \in Seq(Stores), NEW d \in Int, NEW s \in Stores,
           Waiting(sb, d), IsStore(s, d + Len(sb) + 1)
    PROVE  /\ Append(sb, s) \in Seq(Stores) /\ Len(Append(sb, s)) = Len(sb) + 1
           /\ Waiting(Append(sb, s), d)
<1> DEFINE t == Append(sb, s)
<1>1. /\ t \in Seq(Stores) /\ Len(t) = Len(sb) + 1 /\ Len(sb) \in Nat
      /\ \A i \in 1 .. Len(sb) : t[i] = sb[i]
      /\ t[Len(sb) + 1] = s
  BY AppendProperties, LenProperties
<1> HIDE DEF t
<1>2. \A i \in 1 .. Len(t) : IsStore(t[i], d + i)
  <2> SUFFICES ASSUME NEW i \in 1 .. Len(t) PROVE IsStore(t[i], d + i)
    OBVIOUS
  <2>1. CASE i \in 1 .. Len(sb)
    BY <1>1, <2>1 DEF Waiting
  <2>2. CASE i = Len(sb) + 1
    <3>1. d + i = d + Len(sb) + 1
      BY <1>1, <2>2
    <3> QED BY <1>1, <2>2, <3>1
  <2> QED BY <1>1, <2>1, <2>2
<1> QED BY <1>1, <1>2 DEF t, Waiting

\* The oldest store reaches memory.
LEMMA WaitingDrain ==
    ASSUME NEW sb \in Seq(Stores), NEW d \in Int, Waiting(sb, d), sb # <<>>
    PROVE  /\ Tail(sb) \in Seq(Stores) /\ Len(Tail(sb)) = Len(sb) - 1
           /\ Len(sb) \in Nat /\ Len(sb) > 0
           /\ Head(sb) \in Stores /\ IsStore(Head(sb), d + 1)
           /\ Waiting(Tail(sb), d + 1)
<1> DEFINE t == Tail(sb)
<1>1. /\ t \in Seq(Stores) /\ Len(t) = Len(sb) - 1
      /\ Len(sb) \in Nat /\ Len(sb) > 0
      /\ Head(sb) = sb[1] /\ sb[1] \in Stores
      /\ \A i \in 1 .. Len(t) : t[i] = sb[i + 1]
  BY HeadTailProperties, LenProperties, EmptySeq, ElementOfSeq
<1> HIDE DEF t
<1>2. IsStore(sb[1], d + 1)
  BY <1>1 DEF Waiting
<1>3. \A i \in 1 .. Len(t) : IsStore(t[i], (d + 1) + i)
  <2> SUFFICES ASSUME NEW i \in 1 .. Len(t) PROVE IsStore(t[i], (d + 1) + i)
    OBVIOUS
  <2>1. i + 1 \in 1 .. Len(sb) /\ d + (i + 1) = (d + 1) + i
    BY <1>1
  <2>2. IsStore(sb[i + 1], d + (i + 1))
    BY <2>1 DEF Waiting
  <2> QED BY <1>1, <2>1, <2>2
<1> QED BY <1>1, <1>2, <1>3 DEF t, Waiting

\* A processor sees its last index store, or the one in memory: the index of
\* the operation it is at, however many stores still wait.
LEMMA OwnIndexLast ==
    ASSUME NEW sb \in Seq(Stores), NEW d \in Int, NEW w \in Nat, NEW e \in {0, 1},
           NEW p \in Nat, d \in {2 * p, 2 * p + 1},
           d + Len(sb) = 2 * w + e, p <= w, Waiting(sb, d)
    PROVE  OwnIndex(sb, Slot(p)) = Slot(w)
<1> DEFINE held == {i \in 1 .. Len(sb) : sb[i][1] = "index"}
           last == CHOOSE i \in held : \A j \in held : j <= i
<1>0. Len(sb) \in Nat
  BY LenProperties
<1>1. CASE p = w
  <2>1. held = {}
    <3> SUFFICES ASSUME NEW i \in 1 .. Len(sb), sb[i][1] = "index" PROVE FALSE
      OBVIOUS
    <3>1. d + i = 2 * w + 1
      BY <1>0, <1>1
    <3>2. sb[i][1] = "buf"
      BY <3>1 DEF Waiting, IsStore, Odd
    <3> QED BY <3>2
  <2> QED BY <1>1, <2>1 DEF OwnIndex
<1>2. CASE p < w
  <2> DEFINE k == 2 * w - d
  <2>1. k \in 1 .. Len(sb) /\ w - 1 \in Nat
        /\ d + k = 2 * (w - 1) + 2
    BY <1>0, <1>2
  <2>2. Even(sb[k], w - 1)
    BY <2>1 DEF Waiting, IsStore
  <2>3. sb[k][1] = "index" /\ sb[k][2] = Slot(w)
    <3>1. w - 1 + 1 = w
      OBVIOUS
    <3> QED BY <2>2, <3>1 DEF Even
  <2>4. k \in held
    BY <2>1, <2>3
  <2>5. \A j \in held : j <= k
    <3> SUFFICES ASSUME NEW j \in 1 .. Len(sb), sb[j][1] = "index", j > k
                 PROVE FALSE
      BY <1>0, <2>1
    <3>1. d + j = 2 * w + 1
      BY <1>0, <2>1
    <3>2. sb[j][1] = "buf"
      BY <3>1 DEF Waiting, IsStore, Odd
    <3> QED BY <3>2
  <2>6. last \in held /\ \A j \in held : j <= last
    BY <2>4, <2>5
  <2>7. last = k
    BY <1>0, <2>1, <2>4, <2>5, <2>6
  <2>8. OwnIndex(sb, Slot(p)) = sb[last][2]
    BY <2>4 DEF OwnIndex
  <2> QED BY <2>3, <2>7, <2>8
<1> QED BY <1>1, <1>2

\* The same for the consumer, whose store buffer holds indexes only.
LEMMA ReturnsIssue ==
    ASSUME NEW sb \in Seq(Indexes), NEW f \in Int, Returns(sb, f)
    PROVE  Returns(Append(sb, <<"index", Slot(f + Len(sb) + 1)>>), f)
<1> DEFINE s == <<"index", Slot(f + Len(sb) + 1)>>
           t == Append(sb, s)
<1>1. Len(sb) \in Nat
  BY LenProperties
<1>2. s \in Indexes /\ s[1] = "index" /\ s[2] = Slot(f + Len(sb) + 1)
  <2>1. Slot(f + Len(sb) + 1) \in Slots
    BY <1>1, SlotFacts
  <2> QED BY <2>1, StoreFacts
<1> HIDE DEF s
<1>3. /\ Len(t) = Len(sb) + 1
      /\ \A i \in 1 .. Len(sb) : t[i] = sb[i]
      /\ t[Len(sb) + 1] = s
  BY <1>2, AppendProperties
<1> HIDE DEF t
<1>4. \A i \in 1 .. Len(t) : t[i][1] = "index" /\ t[i][2] = Slot(f + i)
  <2> SUFFICES ASSUME NEW i \in 1 .. Len(t)
               PROVE  t[i][1] = "index" /\ t[i][2] = Slot(f + i)
    OBVIOUS
  <2>1. CASE i \in 1 .. Len(sb)
    BY <1>3, <2>1 DEF Returns
  <2>2. CASE i = Len(sb) + 1
    <3>1. f + i = f + Len(sb) + 1
      BY <1>1, <2>2
    <3> QED BY <1>2, <1>3, <2>2, <3>1
  <2> QED BY <1>1, <1>3, <2>1, <2>2
<1> QED BY <1>4 DEF Returns, t, s

\* The oldest index store of the consumer reaches memory.
LEMMA ReturnsDrain ==
    ASSUME NEW sb \in Seq(Indexes), sb # <<>>
    PROVE  /\ Tail(sb) \in Seq(Indexes) /\ Len(Tail(sb)) = Len(sb) - 1
           /\ Len(sb) \in Nat /\ Len(sb) > 0
           /\ Head(sb)[2] \in Slots
           /\ \A f \in Int : Returns(sb, f) => /\ Head(sb)[2] = Slot(f + 1)
                                               /\ Returns(Tail(sb), f + 1)
<1> DEFINE t == Tail(sb)
<1>1. /\ t \in Seq(Indexes) /\ Len(t) = Len(sb) - 1
      /\ Len(sb) \in Nat /\ Len(sb) > 0
      /\ Head(sb) = sb[1] /\ sb[1] \in Indexes
      /\ \A i \in 1 .. Len(t) : t[i] = sb[i + 1]
  BY HeadTailProperties, LenProperties, EmptySeq, ElementOfSeq
<1> HIDE DEF t
<1>2. Head(sb)[2] \in Slots
  BY <1>1, StoreFacts
<1>3. ASSUME NEW f \in Int, Returns(sb, f)
      PROVE  /\ Head(sb)[2] = Slot(f + 1)
             /\ Returns(t, f + 1)
  <2>1. Head(sb)[2] = Slot(f + 1)
    BY <1>1, <1>3 DEF Returns
  <2>2. ASSUME NEW i \in 1 .. Len(t)
        PROVE  t[i][1] = "index" /\ t[i][2] = Slot((f + 1) + i)
    <3>1. i + 1 \in 1 .. Len(sb) /\ f + (i + 1) = (f + 1) + i
      BY <1>1
    <3>2. sb[i + 1][1] = "index" /\ sb[i + 1][2] = Slot(f + (i + 1))
      BY <1>3, <3>1 DEF Returns
    <3> QED BY <1>1, <3>1, <3>2
  <2> QED BY <2>1, <2>2 DEF Returns
<1> QED BY <1>1, <1>2, <1>3 DEF t

\* What the consumer sees of its own index.
LEMMA OwnIndexReturns ==
    ASSUME NEW sb \in Seq(Indexes), NEW mem \in Slots
    PROVE  /\ OwnIndex(sb, mem) \in Slots
           /\ \A f \in Int : mem = Slot(f) /\ Returns(sb, f) =>
                  OwnIndex(sb, mem) = Slot(f + Len(sb))
<1> DEFINE held == {i \in 1 .. Len(sb) : sb[i][1] = "index"}
           last == CHOOSE i \in held : \A j \in held : j <= i
<1>0. Len(sb) \in Nat
  BY LenProperties
<1>1. held = 1 .. Len(sb)
  <2>1. \A i \in 1 .. Len(sb) : sb[i][1] = "index"
    BY ElementOfSeq, StoreFacts
  <2> QED BY <2>1
<1>2. CASE Len(sb) = 0
  <2>1. held = {}
    BY <1>1, <1>2
  <2>2. OwnIndex(sb, mem) = mem
    BY <2>1 DEF OwnIndex
  <2> QED BY <1>2, <2>2
<1>3. CASE Len(sb) > 0
  <2>1. Len(sb) \in held /\ \A j \in held : j <= Len(sb)
    BY <1>0, <1>1, <1>3
  <2>2. last \in held /\ \A j \in held : j <= last
    BY <2>1
  <2>3. last = Len(sb)
    BY <1>0, <1>1, <2>1, <2>2
  <2>4. OwnIndex(sb, mem) = sb[last][2]
    BY <2>1 DEF OwnIndex
  <2>5. sb[Len(sb)] \in Indexes
    BY <1>1, <2>1, ElementOfSeq
  <2>6. sb[Len(sb)][2] \in Slots
    BY <2>5, StoreFacts
  <2>7. \A f \in Int : Returns(sb, f) => sb[Len(sb)][2] = Slot(f + Len(sb))
    BY <1>1, <2>1 DEF Returns
  <2> QED BY <2>3, <2>4, <2>6, <2>7
<1> QED BY <1>0, <1>2, <1>3

-----------------------------------------------------------------------------
(* The invariant. *)

\* The numbers of the invariant are integers.
LEMMA Numbers ==
    ASSUME TypeOK
    PROVE  /\ NUM_OPERATIONS \in Nat /\ BUFFER_SIZE \in Nat /\ BUFFER_SIZE > 1
           /\ Issued \in Nat /\ Busy \in {0, 1} /\ Len(psb) \in Nat /\ Drained \in Int
           /\ Read \in Nat /\ Len(csb) \in Nat /\ Held \in Nat /\ Freed \in Int
<1>1. Len(psb) \in Nat /\ Len(csb) \in Nat
  BY LenProperties DEF TypeOK
<1>2. NUM_OPERATIONS \in Nat /\ BUFFER_SIZE \in Nat /\ BUFFER_SIZE > 1
  BY SpscAssumption
<1>3. Issued \in Nat /\ Busy \in {0, 1} /\ Read \in Nat /\ Held \in Nat
  BY <1>1, <1>2 DEF TypeOK, Issued, Busy, Read, Held
<1> QED BY <1>1, <1>2, <1>3 DEF Drained, Freed

\* What the two processors see of their own indexes.
LEMMA Seen ==
    ASSUME IInv
    PROVE  /\ mine = "new" => MyWrite = Slot(Issued)
           /\ seen = "new" => MyRead = Slot(Read)
           /\ seen # "none" => MyRead \in Slots
<1>1. TypeOK
  BY DEF IInv
<1>2. ASSUME mine = "new" PROVE MyWrite = Slot(Issued)
  <2>1. Drained + Len(psb) = 2 * Issued + Busy
    BY <1>1, Numbers DEF Drained
  <2>2. /\ published \in Nat /\ published <= Issued
        /\ Drained \in {2 * published, 2 * published + 1}
        /\ Waiting(psb, Drained) /\ psb \in Seq(Stores)
    BY DEF IInv, TypeOK, Positions, Order
  <2>3. write_index[mine] = Slot(published)
    BY <1>2 DEF IInv, Positions
  <2>4. OwnIndex(psb, Slot(published)) = Slot(Issued)
    BY <1>1, <2>1, <2>2, Numbers, OwnIndexLast
  <2> QED BY <2>3, <2>4 DEF MyWrite
<1>3. ASSUME seen # "none" PROVE read_index[seen] \in Slots /\ csb \in Seq(Indexes)
  BY <1>1, <1>3 DEF TypeOK, Objects
<1>4. ASSUME seen = "new" PROVE MyRead = Slot(Read)
  <2>1. read_index[seen] = Slot(Freed) /\ Returns(csb, Freed)
    BY <1>4 DEF IInv, Positions
  <2>2. Freed \in Int /\ Freed + Len(csb) = Read
    BY <1>1, <1>4, Numbers DEF Freed, Held
  <2>3. read_index[seen] \in Slots /\ csb \in Seq(Indexes)
    BY <1>3, <1>4
  <2> QED BY <2>1, <2>2, <2>3, OwnIndexReturns DEF MyRead
<1>5. ASSUME seen # "none" PROVE MyRead \in Slots
  BY <1>3, <1>5, OwnIndexReturns DEF MyRead
<1> QED BY <1>2, <1>4, <1>5

\* What any initial state leaves behind is in the other object.
LEMMA InitIInv == Init => IInv
<1> SUFFICES ASSUME Init PROVE IInv
  OBVIOUS
<1>1. NUM_OPERATIONS \in Nat /\ BUFFER_SIZE \in Nat /\ BUFFER_SIZE > 1
      /\ MAX_TRANSACTION \in Nat /\ 0 \in Slots
  BY SpscAssumption DEF Slots
<1>2. <<>> \in Seq(Stores) /\ <<>> \in Seq(Indexes)
  OBVIOUS
<1>3. TypeOK
  <2>1. buf \in [Objects -> [Slots -> Int]]
    BY <1>1 DEF Init, Objects, Zeros
  <2>2. read_index \in [Objects -> Slots] /\ write_index \in [Objects -> Slots]
    BY <1>1 DEF Init, Objects
  <2> QED BY <1>1, <1>2, <2>1, <2>2 DEF Init, TypeOK, Objects
<1>4. Names /\ Starts
  BY <1>1 DEF Init, Names, Starts
<1>5. Issued = 0 /\ Busy = 0 /\ Drained = 0 /\ Read = 0 /\ Held = 0 /\ Freed = 0
  BY <1>1 DEF Init, Issued, Busy, Drained, Read, Held, Freed
<1>6. Positions
  BY <1>5, SlotFacts DEF Init, Positions, Waiting
<1>7. Order /\ Values
  BY <1>1, <1>5 DEF Init, Order, Values
<1> QED BY <1>3, <1>4, <1>6, <1>7 DEF IInv

\* The derived numbers, in the steps that do not move them.
LEMMA Unmoved ==
    ASSUME TypeOK
    PROVE  /\ UNCHANGED <<pops, psb>> /\ Busy' = Busy
                  => Issued' = Issued /\ Drained' = Drained
           /\ UNCHANGED <<seen, cops, csb>>
                  => Read' = Read /\ Held' = Held /\ Freed' = Freed
BY DEF Issued, Busy, Drained, Read, Held, Freed

\* The positions after a step, in terms of the variables after it.
LEMMA PositionsAfter ==
    ASSUME write_index'["new"] = Slot(published'), read_index'["new"] = Slot(Freed'),
           Waiting(psb', Drained'), Drained' \in {2 * published', 2 * published' + 1},
           seen' = "new" => Returns(csb', Freed')
    PROVE  Positions'
<1>1. Waiting(psb, Drained)' /\ (seen' = "new" => Returns(csb, Freed)')
  BY DEF Waiting, Returns, IsStore, Odd, Even, Slot
<1>2. Slot(published)' = Slot(published') /\ Slot(Freed)' = Slot(Freed')
  BY DEF Slot
<1> QED BY <1>1, <1>2 DEF Positions

\* The steps of the producer that touch nothing but what it is about to do.
LEMMA ProducerPrepares ==
    ASSUME IInv, PreventiveUnlink \/ CreateMemory \/ ChooseValue \/ NotFull \/ CloseMemory
    PROVE  IInv'
<1>0. TypeOK
  BY DEF IInv
<1>1. UNCHANGED <<buf, read_index, write_index, published, pops, psb, sized,
                  seen, got, localSum, cops, csb, cpc>>
  BY DEF PreventiveUnlink, CreateMemory, ChooseValue, NotFull, CloseMemory,
         objVars, memVars, consVars
<1>2. Busy' = Busy
  BY DEF PreventiveUnlink, CreateMemory, ChooseValue, NotFull, CloseMemory, PStep, Busy
<1>3. /\ Issued' = Issued /\ Drained' = Drained
      /\ Read' = Read /\ Held' = Held /\ Freed' = Freed
  BY <1>0, <1>1, <1>2, Unmoved
<1>4. TypeOK'
  BY <1>0, <1>1 DEF TypeOK, PreventiveUnlink, CreateMemory, ChooseValue, NotFull,
         CloseMemory, PStep, objVars, memVars, consVars, IInv, Names
<1>5. Names'
  BY <1>1 DEF PreventiveUnlink, CreateMemory, ChooseValue, NotFull,
         CloseMemory, PStep, objVars, memVars, consVars, IInv, Names, TypeOK
<1>6. Starts'
  BY <1>1 DEF PreventiveUnlink, CreateMemory, ChooseValue, NotFull,
         CloseMemory, PStep, objVars, memVars, consVars, IInv, Starts
<1>7. Positions'
  BY <1>1, <1>3, PositionsAfter DEF IInv, Positions
<1>8. Order'
  <2>1. CASE NotFull
    <3>1. mine = "new" /\ read_index[mine] = Slot(Freed)
      BY <2>1 DEF NotFull, PStep, IInv, Names, TypeOK, Positions
    <3>2. MyWrite = Slot(Issued) /\ Following(Slot(Issued)) = Slot(Issued + 1)
      BY <1>0, <3>1, Seen, Numbers, SlotFacts
    <3>3. Slot(Issued + 1) # Slot(Freed)
      BY <2>1, <3>1, <3>2 DEF NotFull
    <3>4. Issued + 1 # Freed + BUFFER_SIZE
      BY <1>0, <3>3, Numbers, SlotFacts
    <3>5. Issued < Freed + BUFFER_SIZE - 1
      BY <1>0, <3>4, Numbers DEF IInv, Order
    <3> QED BY <1>1, <1>3, <3>5 DEF IInv, Order
  <2>2. CASE ~NotFull
    <3>1. ppc' \notin {"write", "advance"}
      BY <2>2 DEF PreventiveUnlink, CreateMemory, ChooseValue, CloseMemory, PStep
    <3> QED BY <1>1, <1>3, <3>1 DEF IInv, Order
  <2> QED BY <2>1, <2>2
<1>9. Values'
  BY <1>1, <1>3 DEF IInv, Values
<1> QED BY <1>4, <1>5, <1>6, <1>7, <1>8, <1>9 DEF IInv

\* The new object has its size before the producer issues any store.
LEMMA ProducerSizes ==
    ASSUME IInv, SizeMemory
    PROVE  IInv'
<1>0. TypeOK
  BY DEF IInv
<1>1. UNCHANGED <<name, published, mine, value, pops, psb,
                  seen, got, localSum, cops, csb, cpc>>
  BY DEF SizeMemory, consVars
<1>2. mine = "new" /\ ppc = "truncate" /\ ppc' = "produce" /\ Busy' = Busy
  BY DEF SizeMemory, PStep, IInv, Names, TypeOK, Busy
<1>3. /\ Issued' = Issued /\ Drained' = Drained
      /\ Read' = Read /\ Held' = Held /\ Freed' = Freed
  BY <1>0, <1>1, <1>2, Unmoved
<1>4. /\ "new" \notin sized /\ sized' = sized \cup {"new"}
      /\ pops = NUM_OPERATIONS /\ psb = <<>> /\ published = 0
  BY <1>2 DEF SizeMemory, IInv, Names, Starts
<1>5. seen = "new" => cpc \in {"open", "spin", "failed"} /\ csb = <<>>
                      /\ cops = NUM_OPERATIONS
  BY <1>4 DEF IInv, Starts
<1>6. Issued = 0 /\ Drained = 0 /\ Read = 0 /\ Freed = 0
  BY <1>0, <1>2, <1>4, <1>5, Numbers DEF Issued, Busy, Drained, Read, Held, Freed
<1>7. BUFFER_SIZE > 1 /\ BUFFER_SIZE \in Nat /\ NUM_OPERATIONS > 0
  BY SpscAssumption
<1>8. 0 \in Slots /\ Zeros \in [Slots -> Int] /\ "new" \in Objects
  BY <1>7 DEF Slots, Zeros, Objects
<1>9. TypeOK'
  <2>1. /\ buf' \in [Objects -> [Slots -> Int]]
        /\ read_index' \in [Objects -> Slots] /\ write_index' \in [Objects -> Slots]
    BY <1>0, <1>2, <1>8 DEF SizeMemory, TypeOK
  <2>2. sized' \in SUBSET Objects
    BY <1>0, <1>4, <1>8 DEF TypeOK
  <2> QED BY <1>0, <1>1, <1>2, <2>1, <2>2 DEF TypeOK
<1>10. Names'
  BY <1>1, <1>2, <1>4 DEF IInv, Names
<1>11. Starts'
  BY <1>1, <1>2, <1>4, <1>7 DEF IInv, Starts
<1>12. Positions'
  <2>1. write_index'["new"] = 0 /\ read_index'["new"] = 0
    BY <1>0, <1>2, <1>8 DEF SizeMemory, TypeOK
  <2> QED BY <1>1, <1>3, <1>4, <1>6, <2>1, SlotFacts
             DEF IInv, Positions
<1>13. Order'
  BY <1>1, <1>2, <1>3 DEF IInv, Order
<1>14. Values'
  BY <1>1, <1>2, <1>3, <1>4, <1>5, <1>6 DEF IInv, Values
<1> QED BY <1>9, <1>10, <1>11, <1>12, <1>13, <1>14 DEF IInv

\* The producer issues a value and then the index that makes it visible.
LEMMA ProducerIssues ==
    ASSUME IInv, WriteSlot \/ AdvanceWrite
    PROVE  IInv'
<1>0. TypeOK
  BY DEF IInv
<1>1. UNCHANGED <<objVars, memVars, mine, value, consVars>>
  BY DEF WriteSlot, AdvanceWrite
<1>2. Read' = Read /\ Held' = Held /\ Freed' = Freed
  BY <1>0, <1>1, Unmoved DEF consVars
<1>3. mine = "new" /\ "new" \in sized
  BY DEF WriteSlot, AdvanceWrite, PStep, IInv, Names, TypeOK
<1>4. MyWrite = Slot(Issued) /\ Issued \in Nat /\ Slot(Issued) \in Slots
      /\ Following(Slot(Issued)) = Slot(Issued + 1) /\ Slot(Issued + 1) \in Slots
  <2>1. Issued \in Int /\ Issued + 1 \in Int /\ Issued \in Nat
    BY <1>0, Numbers
  <2>2. MyWrite = Slot(Issued)
    BY <1>3, Seen
  <2> QED BY <2>1, <2>2, SlotFacts
<1>5. psb \in Seq(Stores) /\ Drained \in Int /\ Waiting(psb, Drained)
      /\ NUM_OPERATIONS \in Nat /\ BUFFER_SIZE \in Nat /\ Len(psb) \in Nat
  BY <1>0, Numbers DEF IInv, TypeOK, Positions
<1>6. /\ psb' \in Seq(Stores) /\ Drained' = Drained /\ Waiting(psb', Drained)
      /\ Issued' = Issued + (IF ppc = "write" THEN 0 ELSE 1)
  <2>1. CASE WriteSlot
    <3> DEFINE s == <<"buf", value, MyWrite>>
    <3>1. value \in Amounts
      BY <2>1 DEF WriteSlot, PStep, IInv, Starts
    <3>2. s \in Stores /\ Odd(s, Issued)
      BY <1>4, <3>1, StoreFacts DEF Odd
    <3> HIDE DEF s
    <3>3. Drained + Len(psb) + 1 = 2 * Issued + 1
      BY <1>4, <1>5, <2>1 DEF Drained, Busy, WriteSlot, PStep
    <3>4. IsStore(s, Drained + Len(psb) + 1)
      BY <1>4, <3>2, <3>3 DEF IsStore
    <3>5. psb' = Append(psb, s)
      BY <2>1 DEF WriteSlot, s
    <3>6. psb' \in Seq(Stores) /\ Len(psb') = Len(psb) + 1 /\ Waiting(psb', Drained)
      BY <1>5, <3>2, <3>4, <3>5, WaitingIssue
    <3>7. Issued' = Issued /\ Drained' = Drained
      BY <1>4, <1>5, <2>1, <3>6 DEF Issued, Drained, Busy, WriteSlot, PStep
    <3>8. ppc = "write"
      BY <2>1 DEF WriteSlot, PStep
    <3> QED BY <1>4, <3>6, <3>7, <3>8
  <2>2. CASE AdvanceWrite
    <3> DEFINE s == <<"index", Following(MyWrite)>>
    <3>1. s \in Stores /\ Even(s, Issued)
      BY <1>4, StoreFacts DEF Even
    <3> HIDE DEF s
    <3>2. Drained + Len(psb) + 1 = 2 * Issued + 2
      BY <1>4, <1>5, <2>2 DEF Drained, Busy, AdvanceWrite, PStep
    <3>3. IsStore(s, Drained + Len(psb) + 1)
      BY <1>4, <3>1, <3>2 DEF IsStore
    <3>4. psb' = Append(psb, s)
      BY <2>2 DEF AdvanceWrite, s
    <3>5. psb' \in Seq(Stores) /\ Len(psb') = Len(psb) + 1 /\ Waiting(psb', Drained)
      BY <1>5, <3>1, <3>3, <3>4, WaitingIssue
    <3>6. Issued' = Issued + 1
      BY <1>0, <1>5, <2>2 DEF Issued, AdvanceWrite, TypeOK
    <3>7. Busy = 1 /\ Busy' = 0
      BY <2>2 DEF Busy, AdvanceWrite, PStep
    <3>8. Drained' = Drained
      BY <1>4, <1>5, <3>5, <3>6, <3>7 DEF Drained
    <3>9. ppc = "advance"
      BY <2>2 DEF AdvanceWrite, PStep
    <3> QED BY <3>5, <3>6, <3>8, <3>9
  <2> QED BY <2>1, <2>2
<1>7. TypeOK'
  BY <1>0, <1>1, <1>5, <1>6 DEF TypeOK, WriteSlot, AdvanceWrite, PStep,
         objVars, memVars, consVars, IInv, Starts
<1>8. Names'
  BY <1>1, <1>3 DEF IInv, Names, WriteSlot, AdvanceWrite, PStep, objVars, consVars
<1>9. Starts'
  BY <1>0, <1>1, <1>3, <1>5 DEF IInv, Starts, TypeOK, WriteSlot, AdvanceWrite, PStep,
         objVars, memVars, consVars
<1>10. Positions'
  BY <1>1, <1>2, <1>6, PositionsAfter DEF IInv, Positions, memVars, consVars
<1>11. Order'
  <2>1. /\ Freed' >= 0 /\ Read' <= published' /\ published' = published
        /\ seen' = "new" /\ cpc' \in {"read", "advance"} => Read' < published'
    BY <1>1, <1>2 DEF IInv, Order, memVars, consVars
  <2>2. published <= Issued /\ Issued < Freed + BUFFER_SIZE - 1
    BY DEF WriteSlot, AdvanceWrite, PStep, IInv, Order
  <2>3. Freed \in Int /\ Issued \in Int /\ BUFFER_SIZE \in Int /\ published \in Int
    BY <1>0, Numbers DEF TypeOK
  <2>4. Issued' = Issued \/ (Issued' = Issued + 1 /\ ppc' \notin {"write", "advance"})
    BY <1>4, <1>6 DEF WriteSlot, AdvanceWrite, PStep
  <2> QED BY <1>2, <2>1, <2>2, <2>3, <2>4 DEF Order
<1>12. Values'
  BY <1>1, <1>2, <1>6 DEF IInv, Values, memVars, consVars
<1> QED BY <1>7, <1>8, <1>9, <1>10, <1>11, <1>12 DEF IInv

\* The consumer opens what the name denotes, or gives up.
LEMMA ConsumerOpens ==
    ASSUME IInv, OpenFails \/ OpenMemory \/ BusError
    PROVE  IInv'
<1>0. TypeOK
  BY DEF IInv
<1>1. UNCHANGED <<objVars, memVars, prodVars, got, localSum, cops, csb>>
  BY DEF OpenFails, OpenMemory, BusError
<1>2. Busy' = Busy /\ Issued' = Issued /\ Drained' = Drained
  BY <1>1 DEF prodVars, Busy, Issued, Drained
<1>3. seen' = seen \/ (OpenMemory /\ seen = "none" /\ cops = NUM_OPERATIONS /\ csb = <<>>)
  BY DEF OpenFails, OpenMemory, BusError, CStep, IInv, Starts
<1>4. Read' = Read /\ Held' = Held /\ Freed' = Freed
  <2>1. CASE seen' = seen
    BY <1>0, <1>1, <2>1, Unmoved
  <2>2. CASE seen # seen'
    BY <1>0, <1>1, <1>3, <2>2, SpscAssumption DEF Read, Held, Freed
  <2> QED BY <2>1, <2>2
<1>5. TypeOK'
  BY <1>0, <1>1 DEF TypeOK, OpenFails, OpenMemory, BusError, CStep,
         objVars, memVars, prodVars
<1>6. Names'
  BY <1>1 DEF IInv, Names, OpenFails, OpenMemory, BusError, CStep, objVars, prodVars
<1>7. Starts'
  <2>1. NUM_OPERATIONS > 0
    BY SpscAssumption
  <2> QED BY <1>1, <2>1 DEF IInv, Starts, OpenFails, OpenMemory, BusError, CStep,
                objVars, prodVars, memVars
<1>8. Positions'
  <2>1. seen' = "new" => Returns(csb, Freed)
    BY <1>3, EmptySeq DEF IInv, Positions, Returns
  <2> QED BY <1>1, <1>2, <1>4, <2>1, PositionsAfter DEF IInv, Positions, memVars, prodVars
<1>9. cpc' \notin {"read", "advance"}
  BY DEF OpenFails, OpenMemory, BusError, CStep
<1>10. Order' /\ Values'
  BY <1>1, <1>2, <1>4, <1>9 DEF IInv, Order, Values, memVars, prodVars
<1> QED BY <1>5, <1>6, <1>7, <1>8, <1>10 DEF IInv

\* The consumer finds a transaction and reads its slot.
LEMMA ConsumerReads ==
    ASSUME IInv, NotEmpty \/ ReadSlot
    PROVE  IInv'
<1>0. TypeOK
  BY DEF IInv
<1>1. UNCHANGED <<objVars, memVars, prodVars, seen, localSum, cops, csb>>
  BY DEF NotEmpty, ReadSlot
<1>2. Busy' = Busy /\ Issued' = Issued /\ Drained' = Drained
  BY <1>1 DEF prodVars, Busy, Issued, Drained
<1>3. Read' = Read /\ Held' = Held /\ Freed' = Freed
  BY <1>0, <1>1, Unmoved
<1>4. TypeOK'
  BY <1>0, <1>1 DEF TypeOK, NotEmpty, ReadSlot, CStep, objVars, memVars, prodVars
<1>5. Names' /\ Starts'
  BY <1>1 DEF IInv, Names, Starts, NotEmpty, ReadSlot, CStep, objVars, prodVars, memVars
<1>6. Positions'
  BY <1>1, <1>2, <1>3, PositionsAfter DEF IInv, Positions, memVars, prodVars
<1>7. seen = "new" => Read < published
  <2>1. CASE NotEmpty /\ seen = "new"
    <3>1. MyRead = Slot(Read) /\ write_index["new"] = Slot(published)
      BY <2>1, Seen DEF IInv, Positions
    <3>2. Slot(Read) # Slot(published)
      BY <2>1, <3>1 DEF NotEmpty
    <3> QED BY <1>0, <3>2, Numbers DEF IInv, Order, TypeOK
  <2>2. CASE ReadSlot
    BY <2>2 DEF ReadSlot, CStep, IInv, Order
  <2> QED BY <2>1, <2>2
<1>8. Order'
  BY <1>1, <1>2, <1>3, <1>7 DEF IInv, Order, memVars, prodVars
<1>9. Values'
  <2>1. seen = "new" => MyRead = Slot(Read)
    BY Seen
  <2> QED BY <1>1, <1>2, <1>3, <2>1 DEF IInv, Values, NotEmpty, ReadSlot, CStep,
                memVars, prodVars
<1> QED BY <1>4, <1>5, <1>6, <1>8, <1>9 DEF IInv

\* The consumer gives the slot back.
LEMMA ConsumerAdvances ==
    ASSUME IInv, AdvanceRead
    PROVE  IInv'
<1>0. TypeOK
  BY DEF IInv
<1>1. UNCHANGED <<objVars, memVars, prodVars, seen, got>> /\ cops' = cops - 1
      /\ csb' = Append(csb, <<"index", Following(MyRead)>>)
  BY DEF AdvanceRead
<1>2. Busy' = Busy /\ Issued' = Issued /\ Drained' = Drained
  BY <1>1 DEF prodVars, Busy, Issued, Drained
<1>3. seen # "none" /\ cops \in 1 .. NUM_OPERATIONS
  BY <1>0 DEF AdvanceRead, CStep, IInv, Starts, TypeOK
<1>4. MyRead \in Slots /\ Following(MyRead) \in Slots
  <2>1. MyRead \in Slots
    BY <1>3, Seen
  <2>2. MyRead + 1 \in Int
    BY <2>1, SpscAssumption DEF Slots
  <2>3. Following(MyRead) = Slot(MyRead + 1)
    BY DEF Following, Slot
  <2> QED BY <2>1, <2>2, <2>3, SlotFacts
<1>5. csb \in Seq(Indexes) /\ <<"index", Following(MyRead)>> \in Indexes
  BY <1>0, <1>4, StoreFacts DEF TypeOK
<1>6. csb' \in Seq(Indexes) /\ Len(csb') = Len(csb) + 1 /\ Len(csb) \in Nat
  BY <1>1, <1>5, AppendProperties, LenProperties
<1>7. /\ Freed' = Freed
      /\ Read' = IF seen = "new" THEN Read + 1 ELSE Read
  <2>1. /\ Read' = IF seen = "new" THEN Read + 1 ELSE Read
        /\ Held' = IF seen = "new" THEN Held + 1 ELSE Held
    BY <1>1, <1>3, <1>6, SpscAssumption DEF Read, Held
  <2>2. Read \in Int /\ Held \in Int
    BY <1>0, Numbers
  <2> QED BY <2>1, <2>2 DEF Freed
<1>8. TypeOK'
  <2>1. cops' \in 0 .. NUM_OPERATIONS
    BY <1>1, <1>3, SpscAssumption
  <2> QED BY <1>0, <1>1, <1>6, <2>1 DEF TypeOK, AdvanceRead, CStep,
                objVars, memVars, prodVars
<1>9. Names'
  BY <1>1 DEF IInv, Names, objVars, prodVars
<1>10. Starts'
  <2>1. seen = "new" => "new" \in sized
    BY DEF IInv, Starts, AdvanceRead, CStep
  <2>2. cpc' \in {"spin", "done"} /\ (cpc' = "spin" => cops' > 0)
    BY <1>1, <1>3 DEF AdvanceRead, CStep
  <2> QED BY <1>1, <1>3, <2>1, <2>2 DEF IInv, Starts, objVars, prodVars, memVars
<1>11. Positions'
  <2>1. ASSUME seen = "new" PROVE Returns(csb', Freed)
    <3>1. Freed \in Int /\ Read \in Int /\ Freed + Len(csb) = Read
      BY <1>0, <2>1, Numbers DEF Freed, Held
    <3>2. MyRead = Slot(Read) /\ Following(MyRead) = Slot(Read + 1)
      BY <2>1, <3>1, Seen, SlotFacts
    <3>3. Returns(csb, Freed)
      BY <2>1 DEF IInv, Positions
    <3>4. Following(MyRead) = Slot(Freed + Len(csb) + 1)
      BY <3>1, <3>2
    <3> QED BY <1>1, <1>5, <3>1, <3>3, <3>4, ReturnsIssue
  <2> QED BY <1>1, <1>2, <1>7, <2>1, PositionsAfter DEF IInv, Positions, memVars, prodVars
<1>12. Order'
  <2>1. seen = "new" => Read < published
    BY DEF IInv, Order, AdvanceRead, CStep
  <2>2. cpc' \notin {"read", "advance"}
    BY DEF AdvanceRead, CStep
  <2>3. Read \in Int /\ published \in Int
    BY <1>0, Numbers DEF TypeOK
  <2>4. Read' <= published
    BY <1>7, <2>1, <2>3 DEF IInv, Order
  <2> QED BY <1>1, <1>2, <1>7, <2>2, <2>4 DEF IInv, Order, memVars, prodVars
<1>13. Values'
  <2>1. cpc' # "advance"
    BY DEF AdvanceRead, CStep
  <2> QED BY <1>1, <1>2, <2>1 DEF IInv, Values, memVars, prodVars
<1> QED BY <1>8, <1>9, <1>10, <1>11, <1>12, <1>13 DEF IInv

\* The consumer's processor gives a slot back in memory.
LEMMA ConsumerDrains ==
    ASSUME IInv, DrainConsumer
    PROVE  IInv'
<1>0. TypeOK
  BY DEF IInv
<1>1. /\ UNCHANGED <<objVars, buf, write_index, published, prodVars,
                     cpc, seen, got, localSum, cops>>
      /\ csb # <<>> /\ csb' = Tail(csb)
      /\ read_index' = [read_index EXCEPT ![seen] = Head(csb)[2]]
  BY DEF DrainConsumer
<1>2. Busy' = Busy /\ Issued' = Issued /\ Drained' = Drained
  BY <1>1 DEF prodVars, Busy, Issued, Drained
<1>3. seen \in Objects
  BY <1>0, <1>1 DEF IInv, TypeOK, Starts, Objects
<1>4. /\ csb' \in Seq(Indexes) /\ Len(csb') = Len(csb) - 1
      /\ Len(csb) \in Nat /\ Len(csb) > 0 /\ Head(csb)[2] \in Slots
  BY <1>0, <1>1, ReturnsDrain DEF TypeOK
<1>5. Read' = Read /\ Freed' = IF seen = "new" THEN Freed + 1 ELSE Freed
  <2>1. Read' = Read /\ Held' = IF seen = "new" THEN Held - 1 ELSE Held
    BY <1>1, <1>4 DEF Read, Held
  <2> QED BY <1>0, <2>1, Numbers DEF Freed
<1>6. TypeOK'
  <2>1. read_index' \in [Objects -> Slots]
    BY <1>0, <1>1, <1>4 DEF TypeOK
  <2> QED BY <1>0, <1>1, <1>4, <2>1 DEF TypeOK, objVars, prodVars
<1>7. Names'
  BY <1>1 DEF IInv, Names, objVars, prodVars
<1>8. Starts'
  BY <1>1 DEF IInv, Starts, objVars, prodVars
<1>9. Positions'
  <2>1. ASSUME seen = "new"
        PROVE  Head(csb)[2] = Slot(Freed + 1) /\ Returns(csb', Freed + 1)
    <3>1. Freed \in Int /\ Returns(csb, Freed) /\ csb \in Seq(Indexes)
      BY <1>0, <2>1, Numbers DEF IInv, Positions, TypeOK
    <3> QED BY <1>1, <3>1, ReturnsDrain
  <2>2. read_index'["new"] = Slot(Freed')
    BY <1>0, <1>1, <1>3, <1>5, <2>1 DEF TypeOK, Objects, IInv, Positions
  <2> QED BY <1>1, <1>2, <1>5, <2>1, <2>2, PositionsAfter DEF IInv, Positions, prodVars
<1>10. Order'
  <2>1. /\ Freed \in Int /\ Issued \in Int /\ BUFFER_SIZE \in Int
        /\ Freed' \in Int /\ Freed' >= Freed
    <3>1. Freed \in Int /\ Issued \in Int /\ BUFFER_SIZE \in Int
      BY <1>0, Numbers
    <3> QED BY <1>5, <3>1
  <2>0. /\ Freed >= 0 /\ Issued <= Freed + BUFFER_SIZE - 1
        /\ ppc \in {"write", "advance"} => Issued < Freed + BUFFER_SIZE - 1
    BY DEF IInv, Order
  <2>2. \A f \in Int : f >= Freed =>
            /\ f >= 0 /\ Issued <= f + BUFFER_SIZE - 1
            /\ ppc \in {"write", "advance"} => Issued < f + BUFFER_SIZE - 1
    BY <2>0, <2>1
  <2>3. /\ Freed' >= 0 /\ Issued <= Freed' + BUFFER_SIZE - 1
        /\ ppc \in {"write", "advance"} => Issued < Freed' + BUFFER_SIZE - 1
    BY <2>1, <2>2
  <2> QED BY <1>1, <1>2, <1>5, <2>3 DEF IInv, Order, prodVars
<1>11. Values'
  BY <1>1, <1>2, <1>5 DEF IInv, Values, prodVars
<1> QED BY <1>6, <1>7, <1>8, <1>9, <1>10, <1>11 DEF IInv

\* What the oldest store of the producer is, by what memory holds already.
LEMMA OldestStore ==
    ASSUME IInv, psb # <<>>
    PROVE  /\ mine = "new" /\ Head(psb) \in Stores
           /\ Drained = 2 * published => Odd(Head(psb), published)
           /\ Drained = 2 * published + 1 => Even(Head(psb), published)
           /\ Tail(psb) \in Seq(Stores) /\ Len(Tail(psb)) = Len(psb) - 1
           /\ Waiting(Tail(psb), Drained + 1)
           /\ published + 1 <= Issued + Busy
           /\ Drained = 2 * published + 1 => published + 1 <= Issued
           /\ published < Freed + BUFFER_SIZE - 1
<1>0. TypeOK
  BY DEF IInv
<1>1. mine = "new"
  BY <1>0 DEF IInv, Names, Starts, TypeOK
<1>2. Drained \in Int /\ Waiting(psb, Drained) /\ psb \in Seq(Stores) /\ published \in Nat
  BY <1>0, Numbers DEF IInv, Positions, TypeOK
<1>3. /\ Tail(psb) \in Seq(Stores) /\ Len(Tail(psb)) = Len(psb) - 1
      /\ Len(psb) \in Nat /\ Len(psb) > 0
      /\ Head(psb) \in Stores /\ IsStore(Head(psb), Drained + 1)
      /\ Waiting(Tail(psb), Drained + 1)
  BY <1>2, WaitingDrain
<1>4. /\ Drained = 2 * published => Odd(Head(psb), published)
      /\ Drained = 2 * published + 1 => Even(Head(psb), published)
  BY <1>2, <1>3 DEF IsStore
<1>5. Drained + Len(psb) = 2 * Issued + Busy /\ Issued \in Nat /\ Busy \in {0, 1}
  BY <1>0, Numbers DEF Drained
<1>6. Drained \in {2 * published, 2 * published + 1}
  BY DEF IInv, Positions
<1>7. /\ published + 1 <= Issued + Busy
      /\ Drained = 2 * published + 1 => published + 1 <= Issued
  BY <1>2, <1>3, <1>5, <1>6
<1>8. published < Freed + BUFFER_SIZE - 1
  <2>1. Freed \in Int /\ BUFFER_SIZE \in Int
    BY <1>0, Numbers
  <2>2. CASE Busy = 0
    BY <1>2, <1>5, <1>7, <2>1, <2>2 DEF IInv, Order
  <2>3. CASE Busy = 1
    <3>1. ppc = "advance"
      BY <2>3 DEF Busy
    <3> QED BY <1>2, <1>5, <1>7, <2>1, <2>3, <3>1 DEF IInv, Order
  <2> QED BY <1>5, <2>2, <2>3
<1> QED BY <1>1, <1>3, <1>4, <1>7, <1>8

\* The producer's processor writes a value, and then the index, to memory.
LEMMA ProducerDrains ==
    ASSUME IInv, DrainProducer
    PROVE  IInv'
<1>0. TypeOK
  BY DEF IInv
<1>1. /\ UNCHANGED <<objVars, read_index, ppc, mine, value, pops, consVars>>
      /\ psb # <<>> /\ psb' = Tail(psb)
  BY DEF DrainProducer
<1>2. Busy' = Busy /\ Issued' = Issued /\ Read' = Read /\ Held' = Held /\ Freed' = Freed
  BY <1>1 DEF consVars, Busy, Issued, Read, Held, Freed
<1>3. /\ Drained \in Int /\ Issued \in Int /\ Read \in Int /\ Freed \in Int
      /\ published \in Nat /\ BUFFER_SIZE \in Int /\ Len(psb) \in Int /\ Busy \in Int
  BY <1>0, Numbers DEF TypeOK
<1>4. psb' \in Seq(Stores) /\ Waiting(psb', Drained + 1) /\ Len(psb') = Len(psb) - 1
  BY <1>1, OldestStore
<1>5. Drained' = Drained + 1
  BY <1>2, <1>3, <1>4 DEF Drained
<1>6. mine = "new" /\ "new" \in sized /\ Slot(published) \in Slots
  <2>1. mine = "new"
    BY <1>1, OldestStore
  <2>2. "new" \in sized
    BY <1>1 DEF IInv, Names, Starts
  <2> QED BY <1>3, <2>1, <2>2, SlotFacts
<1>7. Names' /\ Starts'
  <2>1. ppc \notin {"unlink", "create", "truncate"}
    BY <1>1 DEF IInv, Starts
  <2> QED BY <1>1, <2>1 DEF IInv, Names, Starts, objVars, consVars
<1>8. CASE Drained = 2 * published
  <2>1. Odd(Head(psb), published)
    BY <1>1, <1>8, OldestStore
  <2>2. Head(psb)[2] \in Amounts /\ Head(psb)[3] = Slot(published) /\ Head(psb)[1] = "buf"
    BY <2>1 DEF Odd
  <2>3. /\ buf' = [buf EXCEPT !["new"][Slot(published)] = Head(psb)[2]]
        /\ UNCHANGED <<write_index, published>>
    BY <1>6, <2>2 DEF DrainProducer
  <2>4. /\ buf' \in [Objects -> [Slots -> Int]]
        /\ buf'["new"][Slot(published)] = Head(psb)[2]
        /\ \A k \in Slots : k # Slot(published) => buf'["new"][k] = buf["new"][k]
    <3>1. Head(psb)[2] \in Int
      BY <2>2 DEF Amounts
    <3>2. "new" \in Objects /\ buf["new"] \in [Slots -> Int]
      BY <1>0 DEF TypeOK, Objects
    <3>3. buf'["new"] = [buf["new"] EXCEPT ![Slot(published)] = Head(psb)[2]]
      BY <1>0, <2>3, <3>2 DEF TypeOK
    <3>4. buf' \in [Objects -> [Slots -> Int]]
      BY <1>0, <1>6, <2>3, <3>1, <3>2 DEF TypeOK
    <3> QED BY <1>6, <3>1, <3>2, <3>3, <3>4
  <2>5. TypeOK'
    BY <1>0, <1>1, <1>4, <2>3, <2>4 DEF TypeOK, objVars, consVars
  <2>6. Positions'
    BY <1>1, <1>2, <1>3, <1>4, <1>5, <1>8, <2>3, PositionsAfter DEF IInv, Positions, consVars
  <2>7. Order'
    BY <1>1, <1>2, <2>3 DEF IInv, Order, consVars
  <2>8. Values'
    <3>1. buf'["new"][Slot(published)] \in Amounts
      BY <2>2, <2>4
    <3>2. ASSUME seen = "new", cpc = "advance"
          PROVE  buf'["new"][Slot(Read)] = buf["new"][Slot(Read)]
      <4>1. Read < published
        BY <3>2 DEF IInv, Order
      <4>2. published < Freed + BUFFER_SIZE /\ Freed <= Read
        <5>1. published < Freed + BUFFER_SIZE
          BY <1>1, <1>3, OldestStore
        <5>2. Held >= 0 /\ Held \in Int
          BY <1>0, Numbers
        <5> QED BY <1>3, <5>1, <5>2 DEF Freed
      <4>3. Slot(Read) # Slot(published) /\ Slot(Read) \in Slots
        BY <1>3, <4>1, <4>2, SlotFacts
      <4> QED BY <2>4, <4>3
    <3> QED BY <1>1, <1>2, <1>5, <2>3, <3>1, <3>2 DEF IInv, Values, consVars
  <2> QED BY <1>7, <2>5, <2>6, <2>7, <2>8 DEF IInv
<1>9. CASE Drained = 2 * published + 1
  <2>1. Even(Head(psb), published) /\ published + 1 <= Issued
    BY <1>1, <1>9, OldestStore
  <2>2. Head(psb)[2] = Slot(published + 1) /\ Head(psb)[1] = "index"
    BY <2>1 DEF Even
  <2>3. /\ write_index' = [write_index EXCEPT !["new"] = Slot(published + 1)]
        /\ published' = published + 1 /\ buf' = buf
    BY <1>6, <2>2 DEF DrainProducer
  <2>4. Slot(published + 1) \in Slots
    BY <1>3, SlotFacts
  <2>5. write_index' \in [Objects -> Slots] /\ write_index'["new"] = Slot(published + 1)
    BY <1>0, <2>3, <2>4 DEF TypeOK, Objects
  <2>6. TypeOK'
    BY <1>0, <1>1, <1>3, <1>4, <2>3, <2>5 DEF TypeOK, objVars, consVars
  <2>7. Positions'
    BY <1>1, <1>2, <1>3, <1>4, <1>5, <1>9, <2>3, <2>5, PositionsAfter DEF IInv, Positions, consVars
  <2>8. Order'
    <3>1. Read <= published' /\ published' <= Issued
      BY <1>3, <2>1, <2>3 DEF IInv, Order
    <3>2. seen = "new" /\ cpc \in {"read", "advance"} => Read < published'
      BY <1>3, <2>3 DEF IInv, Order
    <3> QED BY <1>1, <1>2, <3>1, <3>2 DEF IInv, Order, consVars
  <2>9. Values'
    <3>1. Drained' # 2 * published' + 1
      BY <1>3, <1>5, <1>9, <2>3
    <3> QED BY <1>1, <1>2, <2>3, <3>1 DEF IInv, Values, consVars
  <2> QED BY <1>7, <2>6, <2>7, <2>8, <2>9 DEF IInv
<1> QED BY <1>8, <1>9 DEF IInv, Positions

\* A step that changes nothing.
LEMMA NothingMoves ==
    ASSUME IInv, UNCHANGED vars
    PROVE  IInv'
<1>1. /\ UNCHANGED <<name, sized, buf, read_index, write_index, published>>
      /\ UNCHANGED <<ppc, mine, value, pops, psb>>
      /\ UNCHANGED <<cpc, seen, got, localSum, cops, csb>>
  BY DEF vars, objVars, memVars, prodVars, consVars
<1>2. /\ Busy' = Busy /\ Issued' = Issued /\ Drained' = Drained
      /\ Read' = Read /\ Held' = Held /\ Freed' = Freed
  BY <1>1 DEF Busy, Issued, Drained, Read, Held, Freed
<1> QED BY <1>1, <1>2, PositionsAfter DEF IInv, TypeOK, Names, Starts, Positions, Order, Values

\* Every state of every behaviour satisfies the invariant.
THEOREM Invariant == Spec => []IInv
<1>1. Init => IInv
  BY InitIInv
<1>2. IInv /\ [Next]_vars => IInv'
  <2> SUFFICES ASSUME IInv, [Next]_vars PROVE IInv'
    OBVIOUS
  <2>1. CASE Producer
    BY <2>1, ProducerPrepares, ProducerSizes, ProducerIssues DEF Producer
  <2>2. CASE Consumer
    BY <2>2, ConsumerOpens, ConsumerReads, ConsumerAdvances DEF Consumer
  <2>3. CASE DrainProducer
    BY <2>3, ProducerDrains
  <2>4. CASE DrainConsumer
    BY <2>4, ConsumerDrains
  <2>5. CASE Terminated \/ UNCHANGED vars
    BY <2>5, NothingMoves DEF Terminated
  <2> QED BY <2>1, <2>2, <2>3, <2>4, <2>5 DEF Next
<1> QED BY <1>1, <1>2, PTL DEF Spec

-----------------------------------------------------------------------------
(* What the invariant shows. *)

\* Between its last look at the other index and its own store of an index,
\* neither side ever meets the other in a slot.
THEOREM SlotsApart == Spec => []NoSlotRace
<1>1. IInv => NoSlotRace
  <2> SUFFICES ASSUME IInv, cpc = "read", seen = mine
               PROVE  /\ \A i \in DOMAIN psb : psb[i][1] = "buf" => psb[i][3] # MyRead
                      /\ ppc = "write" => MyWrite # MyRead
    BY DEF NoSlotRace
  <2>0. TypeOK
    BY DEF IInv
  <2>1. seen = "new" /\ mine = "new"
    BY <2>0 DEF IInv, TypeOK, Starts
  <2>2. MyRead = Slot(Read) /\ MyWrite = Slot(Issued)
    BY <2>1, Seen
  <2>3. /\ Freed \in Int /\ Issued \in Int /\ Read \in Int /\ Drained \in Int
        /\ Len(psb) \in Nat /\ BUFFER_SIZE \in Int /\ published \in Nat
    BY <2>0, Numbers DEF TypeOK
  <2>4. /\ Read < published /\ Freed <= Read /\ published <= Issued
        /\ Issued <= Freed + BUFFER_SIZE - 1
    <3>1. Held \in Nat
      BY <2>0, Numbers
    <3>2. Freed <= Read
      BY <2>3, <3>1 DEF Freed
    <3> QED BY <2>1, <3>2 DEF IInv, Order
  <2>5. \A q \in Int : published <= q /\ q <= Issued => Slot(q) # Slot(Read)
    <3> SUFFICES ASSUME NEW q \in Int, published <= q, q <= Issued
                 PROVE  Slot(q) # Slot(Read)
      OBVIOUS
    <3>1. Read < q /\ q < Read + BUFFER_SIZE
      BY <2>3, <2>4
    <3> QED BY <2>3, <3>1, SlotFacts
  <2>6. ASSUME NEW i \in DOMAIN psb, psb[i][1] = "buf"
        PROVE  psb[i][3] # MyRead
    <3>1. i \in 1 .. Len(psb) /\ IsStore(psb[i], Drained + i)
      <4>1. psb \in Seq(Stores)
        BY <2>0 DEF TypeOK
      <4>2. DOMAIN psb = 1 .. Len(psb)
        BY <4>1
      <4> QED BY <4>2 DEF IInv, Positions, Waiting
    <3>2. Drained \in {2 * published, 2 * published + 1}
      BY DEF IInv, Positions
    <3>3. Drained + i \in Nat /\ Drained + i > 0
      BY <2>3, <3>1, <3>2
    <3>4. PICK q \in Nat : Drained + i = 2 * q + 1 \/ Drained + i = 2 * q + 2
      BY <3>3, Parity
    <3>5. Drained + i # 2 * q + 2
      BY <2>6, <3>1 DEF IsStore, Even
    <3>6. psb[i][3] = Slot(q)
      BY <3>1, <3>4, <3>5 DEF IsStore, Odd
    <3>7. published <= q /\ q <= Issued
      <4>1. Drained + Len(psb) = 2 * Issued + Busy /\ Busy \in {0, 1}
        BY <2>0, <2>3, Numbers DEF Drained
      <4>2. Drained + i <= 2 * Issued + 1
        BY <2>3, <3>1, <4>1
      <4> QED BY <2>3, <3>1, <3>2, <3>4, <3>5, <4>2
    <3> QED BY <2>2, <2>5, <3>6, <3>7
  <2>7. MyWrite # MyRead
    BY <2>2, <2>3, <2>4, <2>5
  <2> QED BY <2>6, <2>7
<1> QED BY <1>1, Invariant, PTL

-----------------------------------------------------------------------------
(* The refinement of TransactionQueue. *)

Contents == Window(buf["new"], BUFFER_SIZE, Read, published - Read)
Balance  == IF seen = "new" THEN localSum ELSE 0

\* The refinement mapping of SpscRing.
MappedQueue   == IF mine = "none" THEN <<>>
                 ELSE Window(buf[mine], BUFFER_SIZE, Taken, published - Taken)
MappedDeposit == IF seen = mine THEN localSum ELSE 0

\* Before the producer has its object, and before the consumer has opened it,
\* nothing has been put or taken: the mapping is the window of the new object.
Mapped == MappedQueue = Contents /\ MappedDeposit = Balance

LEMMA Mapping == IInv => Mapped
<1> SUFFICES ASSUME IInv PROVE MappedQueue = Contents /\ MappedDeposit = Balance
  BY DEF Mapped
<1>0. TypeOK
  BY DEF IInv
<1>1. MappedDeposit = Balance
  BY DEF MappedDeposit, Balance, IInv, TypeOK, Names, Starts
<1>2. CASE mine = "none"
  <2>1. seen # "new" /\ published = 0
    BY <1>2 DEF IInv, Names, Starts
  <2>2. Read = 0 /\ published - Read = 0
    BY <2>1 DEF Read
  <2>3. Contents = <<>>
    BY <2>2, WindowEmpty DEF Contents
  <2> QED BY <1>1, <1>2, <2>3 DEF MappedQueue
<1>3. CASE mine = "new"
  <2>1. Taken = Read
    BY <1>3 DEF Taken, Read
  <2> QED BY <1>1, <1>3, <2>1 DEF MappedQueue, Contents
<1> QED BY <1>0, <1>2, <1>3 DEF TypeOK

\* The window of the new object and its positions.
LEMMA ContentsFacts ==
    ASSUME IInv
    PROVE  /\ buf["new"] \in [0 .. BUFFER_SIZE - 1 -> Int]
           /\ Read \in Nat /\ published - Read \in Nat /\ published \in Nat
           /\ BUFFER_SIZE \in Nat \ {0}
           /\ Len(Contents) = published - Read /\ Contents \in Seq(Int)
<1>1. TypeOK
  BY DEF IInv
<1>2. buf["new"] \in [0 .. BUFFER_SIZE - 1 -> Int]
  BY <1>1 DEF TypeOK, Objects, Slots
<1>3. Read \in Nat /\ published \in Nat /\ BUFFER_SIZE \in Nat \ {0} /\ Read <= published
  BY <1>1, Numbers DEF TypeOK, IInv, Order
<1>4. published - Read \in Nat
  BY <1>3
<1>5. Contents \in Seq(Int) /\ Len(Contents) = published - Read
  <2> DEFINE count == published - Read
             array == buf["new"]
  <2>1. array \in [0 .. BUFFER_SIZE - 1 -> Int] /\ count \in Nat
    BY <1>2, <1>4
  <2> HIDE DEF count, array
  <2>2. Window(array, BUFFER_SIZE, Read, count) \in Seq(Int)
    BY <1>3, <2>1, WindowType
  <2>3. Len(Window(array, BUFFER_SIZE, Read, count)) = count
    BY <2>1, WindowLen
  <2> QED BY <2>2, <2>3 DEF Contents, count, array
<1> QED BY <1>2, <1>3, <1>4, <1>5

\* A value that reaches memory is outside the queue; the index that follows it
\* puts it, and there is room for it.
LEMMA DrainPuts ==
    ASSUME IInv, IInv', DrainProducer
    PROVE  \/ Contents' = Contents /\ Balance' = Balance
           \/ \E x \in Amounts : /\ Contents' = Append(Contents, x)
                                 /\ Len(Contents) < BUFFER_SIZE - 1
                                 /\ Balance' = Balance
<1> DEFINE count == published - Read
<1>0. TypeOK
  BY DEF IInv
<1>1. psb # <<>> /\ Read' = Read /\ Balance' = Balance
  BY DEF DrainProducer, consVars, Read, Balance
<1>2. /\ buf["new"] \in [0 .. BUFFER_SIZE - 1 -> Int]
      /\ buf'["new"] \in [0 .. BUFFER_SIZE - 1 -> Int]
      /\ Read \in Nat /\ count \in Nat /\ published \in Nat
      /\ BUFFER_SIZE \in Nat \ {0} /\ Len(Contents) = count
  <2>1. buf'["new"] \in [0 .. BUFFER_SIZE - 1 -> Int]
    BY DEF IInv, TypeOK, Objects, Slots
  <2> QED BY <2>1, ContentsFacts
<1>3. count < BUFFER_SIZE - 1
  <2>1. published < Freed + BUFFER_SIZE - 1
    BY <1>1, OldestStore
  <2>2. Freed = Read - Held /\ Held \in Nat /\ BUFFER_SIZE \in Nat
    BY <1>0, Numbers DEF Freed
  <2> QED BY <1>2, <2>1, <2>2
<1>4. /\ mine = "new" /\ Slot(published) \in Slots
      /\ Read + count = published /\ Slot(published) = (Read + count) % BUFFER_SIZE
  <2>1. published \in Int /\ Read + count = published
    BY <1>2
  <2> QED BY <1>1, <2>1, OldestStore, SlotFacts DEF Slot
<1>5. CASE Drained = 2 * published
  <2>1. Odd(Head(psb), published)
    BY <1>1, <1>5, OldestStore
  <2>2. Head(psb)[2] \in Amounts /\ Head(psb)[3] = Slot(published) /\ Head(psb)[1] = "buf"
    BY <2>1 DEF Odd
  <2>3. /\ buf' = [buf EXCEPT !["new"][Slot(published)] = Head(psb)[2]]
        /\ published' = published
    BY <1>4, <2>2 DEF DrainProducer
  <2>4. buf'["new"] = [buf["new"] EXCEPT ![Slot(published)] = Head(psb)[2]]
    BY <1>0, <2>3 DEF TypeOK, Objects
  <2>5. Stored(buf["new"], buf'["new"], BUFFER_SIZE, Slot(published), Head(psb)[2])
    BY <1>2, <1>4, <2>4 DEF Stored, StoredIn, Slots
  <2>6. Window(buf'["new"], BUFFER_SIZE, Read, count)
            = Window(buf["new"], BUFFER_SIZE, Read, count)
    <3> DEFINE array == buf["new"]
               new == buf'["new"]
               slot == Slot(published)
               x == Head(psb)[2]
    <3>1. count < BUFFER_SIZE
      BY <1>2, <1>3
    <3>2. /\ Stored(array, new, BUFFER_SIZE, slot, x)
          /\ slot = (Read + count) % BUFFER_SIZE
          /\ BUFFER_SIZE \in Nat \ {0} /\ Read \in Nat /\ count \in Nat
      BY <1>2, <1>4, <2>5
    <3> HIDE DEF count, array, new, slot, x
    <3>3. Keeps(array, new, BUFFER_SIZE, Read, count)
      BY <3>1, <3>2, WindowKeep
    <3> QED BY <3>3 DEF array, new, Keeps
  <2> QED BY <1>1, <2>3, <2>6 DEF Contents
<1>6. CASE Drained = 2 * published + 1
  <2>1. Even(Head(psb), published)
    BY <1>1, <1>6, OldestStore
  <2>2. buf' = buf /\ published' = published + 1
    BY <2>1 DEF DrainProducer, Even
  <2> DEFINE x == buf["new"][Slot(published)]
  <2>3. x \in Amounts
    BY <1>6 DEF IInv, Values
  <2>4. x \in Int
    BY <2>3 DEF Amounts
  <2>5. Stored(buf["new"], buf["new"], BUFFER_SIZE, Slot(published), x)
    BY <1>2 DEF Stored, StoredIn
  <2>6. Window(buf["new"], BUFFER_SIZE, Read, count + 1) = Append(Contents, x)
    <3>1. count < BUFFER_SIZE
      BY <1>2, <1>3
    <3> HIDE DEF count, x
    <3>2. Grows(buf["new"], buf["new"], BUFFER_SIZE, Read, count, x)
      BY <1>2, <1>4, <2>4, <2>5, <3>1, WindowPut
    <3> QED BY <3>2 DEF Grows, Contents, count
  <2>7. published' - Read' = count + 1
    BY <1>1, <1>2, <2>2
  <2>8. Contents' = Append(Contents, x)
    BY <1>1, <2>2, <2>6, <2>7 DEF Contents
  <2> QED BY <1>1, <1>2, <1>3, <2>3, <2>8
<1> QED BY <1>5, <1>6 DEF IInv, Positions

\* The consumer's store of read_index takes the oldest transaction, the one
\* it read before.
LEMMA AdvanceTakes ==
    ASSUME IInv, IInv', AdvanceRead
    PROVE  \/ Contents' = Contents /\ Balance' = Balance
           \/ /\ Contents # <<>> /\ Contents' = Tail(Contents)
              /\ Balance' = Balance + Head(Contents)
<1>0. TypeOK
  BY DEF IInv
<1>1. buf' = buf /\ published' = published /\ seen' = seen
      /\ localSum' = localSum + got /\ cops' = cops - 1
  BY DEF AdvanceRead, memVars
<1>2. CASE seen # "new"
  BY <1>1, <1>2 DEF Contents, Balance, Read
<1>3. CASE seen = "new"
  <2>1. Read < published /\ got = buf["new"][Slot(Read)]
    BY <1>3 DEF AdvanceRead, CStep, IInv, Order, Values
  <2>2. Read' = Read + 1
    BY <1>0, <1>1, <1>3, SpscAssumption DEF Read, TypeOK
  <2> DEFINE count == published - Read
  <2>3. count \in Nat /\ count > 0 /\ published' - Read' = count - 1
    BY <1>1, <2>1, <2>2, ContentsFacts
  <2> HIDE DEF count
  <2>4. /\ Contents # <<>>
        /\ Head(Contents) = buf["new"][Read % BUFFER_SIZE]
        /\ Tail(Contents) = Window(buf["new"], BUFFER_SIZE, Read + 1, count - 1)
    <3>1. Contents = Window(buf["new"], BUFFER_SIZE, Read, count)
      BY DEF Contents, count
    <3>2. /\ Contents # <<>> /\ Head(Contents) = buf["new"][Read % BUFFER_SIZE]
          /\ Shrinks(buf["new"], BUFFER_SIZE, Read, count)
      BY <2>3, <3>1, ContentsFacts, WindowTake
    <3> QED BY <3>1, <3>2 DEF Shrinks
  <2>5. Contents' = Tail(Contents)
    BY <1>1, <2>2, <2>3, <2>4 DEF Contents
  <2>6. Balance' = Balance + Head(Contents)
    BY <1>1, <1>3, <2>1, <2>4 DEF Balance, Slot
  <2> QED BY <2>4, <2>5, <2>6
<1> QED BY <1>2, <1>3

\* No other step touches the queue.
LEMMA OthersKeepQueue ==
    ASSUME IInv, IInv', [Next]_vars, ~DrainProducer, ~AdvanceRead
    PROVE  Contents' = Contents /\ Balance' = Balance
<1>0. TypeOK
  BY DEF IInv
<1>1. published' = published
  BY DEF Next, Producer, Consumer, Terminated, vars, memVars, PreventiveUnlink,
     CreateMemory, SizeMemory, ChooseValue, NotFull, WriteSlot, AdvanceWrite,
     CloseMemory, OpenFails, OpenMemory, BusError, NotEmpty, ReadSlot, DrainConsumer
<1>2. Read' = Read /\ Balance' = Balance
  <2>1. CASE OpenMemory
    <3>1. seen = "none" /\ cops' = cops /\ cops = NUM_OPERATIONS
          /\ localSum' = localSum /\ localSum = 0
      BY <2>1 DEF OpenMemory, CStep, IInv, Starts
    <3> QED BY <3>1, SpscAssumption DEF Read, Balance
  <2>2. CASE ~OpenMemory
    BY <2>2 DEF Next, Producer, Consumer, Terminated, vars, consVars, PreventiveUnlink,
       CreateMemory, SizeMemory, ChooseValue, NotFull, WriteSlot, AdvanceWrite,
       CloseMemory, OpenFails, BusError, NotEmpty, ReadSlot, DrainConsumer, Read, Balance
  <2> QED BY <2>1, <2>2
<1>3. CASE SizeMemory
  <2>1. published = 0 /\ Read <= published /\ Read \in Nat
    BY <1>0, <1>3, Numbers DEF SizeMemory, PStep, IInv, Starts, Order
  <2>2. Read = 0 /\ published - Read = 0 /\ published' - Read' = 0
    BY <1>1, <1>2, <2>1
  <2>3. Contents = <<>> /\ Contents' = <<>>
    BY <2>2, WindowEmpty DEF Contents
  <2> QED BY <1>2, <2>3
<1>4. CASE ~SizeMemory
  <2>1. buf' = buf
    BY <1>4 DEF Next, Producer, Consumer, Terminated, vars, memVars, PreventiveUnlink,
       CreateMemory, ChooseValue, NotFull, WriteSlot, AdvanceWrite, CloseMemory,
       OpenFails, OpenMemory, BusError, NotEmpty, ReadSlot, DrainConsumer
  <2> QED BY <1>1, <1>2, <2>1 DEF Contents
<1> QED BY <1>3, <1>4

\* Every step is a put, a take, or nothing to the queue.
LEMMA StepImplements ==
    ASSUME IInv, IInv', Mapped, Mapped', [Next]_vars
    PROVE  [Queue!QueueNext]_Queue!queueVars
<1>1. /\ MappedQueue = Contents /\ MappedDeposit = Balance
      /\ MappedQueue' = Contents' /\ MappedDeposit' = Balance'
  BY DEF Mapped
<1>2. ASSUME Contents' = Contents, Balance' = Balance
      PROVE  UNCHANGED Queue!queueVars
  BY <1>1, <1>2 DEF Queue!queueVars, MappedQueue, MappedDeposit
<1>3. ASSUME NEW x \in Amounts, Contents' = Append(Contents, x),
             Len(Contents) < BUFFER_SIZE - 1, Balance' = Balance
      PROVE  Queue!QueueNext
  <2>1. Queue!Put(x)
    BY <1>1, <1>3 DEF Queue!Put, MappedQueue, MappedDeposit
  <2> QED BY <2>1 DEF Queue!QueueNext
<1>4. ASSUME Contents # <<>>, Contents' = Tail(Contents),
             Balance' = Balance + Head(Contents)
      PROVE  Queue!QueueNext
  <2>1. Queue!Take
    BY <1>1, <1>4 DEF Queue!Take, MappedQueue, MappedDeposit
  <2> QED BY <2>1 DEF Queue!QueueNext
<1>5. CASE DrainProducer
  BY <1>2, <1>3, <1>5, DrainPuts
<1>6. CASE AdvanceRead
  BY <1>2, <1>4, <1>6, AdvanceTakes
<1>7. CASE ~DrainProducer /\ ~AdvanceRead
  BY <1>2, <1>7, OthersKeepQueue
<1> QED BY <1>5, <1>6, <1>7

\* At the beginning the queue is empty, whatever a killed run left.
LEMMA InitImplements == Init => Queue!QueueInit
<1> SUFFICES ASSUME Init PROVE Queue!QueueInit
  OBVIOUS
<1> QED BY DEF Init, Queue!QueueInit

\* The producer's object is a FIFO of BUFFER_SIZE - 1 transactions, each put
\* when its index reaches memory and taken once, in order, by the consumer.
THEOREM Refinement == Spec => ImplementsQueue
<1>1. Init => Queue!QueueInit
  BY InitImplements
<1>2. IInv => Mapped
  BY Mapping
<1>3. IInv /\ IInv' /\ Mapped /\ Mapped' /\ [Next]_vars
          => [Queue!QueueNext]_Queue!queueVars
  BY StepImplements
<1> QED BY <1>1, <1>2, <1>3, Invariant, PTL DEF Spec, ImplementsQueue, Queue!QueueSpec
=============================================================================
