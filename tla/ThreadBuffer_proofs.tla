------------------------ MODULE ThreadBuffer_proofs ------------------------
(***************************************************************************)
(* ThreadBuffer for any number of threads and slots: IInv is inductive,    *)
(* hence no slot race, and the array implements TransactionQueue.  DInv    *)
(* adds the counts of operations and the balance after each transaction,   *)
(* hence main prints the sum of all that was stored.                       *)
(***************************************************************************)
EXTENDS ThreadBuffer, Lemmas

-----------------------------------------------------------------------------
(* Counting the two kinds of threads by position. *)

\* The assumptions on the constants that the proofs use most.
LEMMA Parameters ==
    /\ IsFiniteSet(Producers) /\ IsFiniteSet(Consumers)
    /\ BUFFER_SIZE \in Nat \ {0}
BY BufferAssumption DEF BufferAssumption

\* A producer moves: each count of producers changes by at most that one.
LEMMA ProducerMove ==
    ASSUME TypeOK, NEW p \in Producers, NEW from, NEW to, PStep(p, from, to), NEW T
    PROVE  /\ to \in T /\ from \notin T => ProducersAt(T)' = ProducersAt(T) + 1
           /\ to \notin T /\ from \in T => ProducersAt(T)' = ProducersAt(T) - 1
           /\ (to \in T <=> from \in T) => ProducersAt(T)' = ProducersAt(T)
<1>1. /\ ppc[p] = from /\ ppc'[p] = to
      /\ \A y \in Producers \ {p} : ppc'[y] = ppc[y]
  BY DEF PStep, TypeOK
<1>2. /\ to \in T /\ from \notin T =>
            Count(Producers, ppc', T) = Count(Producers, ppc, T) + 1
      /\ to \notin T /\ from \in T =>
            Count(Producers, ppc', T) = Count(Producers, ppc, T) - 1
      /\ (to \in T <=> from \in T) =>
            Count(Producers, ppc', T) = Count(Producers, ppc, T)
  BY <1>1, CountMove, Parameters
<1> QED BY <1>2 DEF ProducersAt, Count

\* The same for a consumer.
LEMMA ConsumerMove ==
    ASSUME TypeOK, NEW c \in Consumers, NEW from, NEW to, CStep(c, from, to), NEW T
    PROVE  /\ to \in T /\ from \notin T => ConsumersAt(T)' = ConsumersAt(T) + 1
           /\ to \notin T /\ from \in T => ConsumersAt(T)' = ConsumersAt(T) - 1
           /\ (to \in T <=> from \in T) => ConsumersAt(T)' = ConsumersAt(T)
<1>1. /\ cpc[c] = from /\ cpc'[c] = to
      /\ \A y \in Consumers \ {c} : cpc'[y] = cpc[y]
  BY DEF CStep, TypeOK
<1>2. /\ to \in T /\ from \notin T =>
            Count(Consumers, cpc', T) = Count(Consumers, cpc, T) + 1
      /\ to \notin T /\ from \in T =>
            Count(Consumers, cpc', T) = Count(Consumers, cpc, T) - 1
      /\ (to \in T <=> from \in T) =>
            Count(Consumers, cpc', T) = Count(Consumers, cpc, T)
  BY <1>1, CountMove, Parameters
<1> QED BY <1>2 DEF ConsumersAt, Count

\* A step that moves no producer changes no count of producers.
LEMMA ProducersStay ==
    ASSUME UNCHANGED ppc, NEW T
    PROVE  ProducersAt(T)' = ProducersAt(T)
BY DEF ProducersAt, Count

\* The same for consumers.
LEMMA ConsumersStay ==
    ASSUME UNCHANGED cpc, NEW T
    PROVE  ConsumersAt(T)' = ConsumersAt(T)
BY DEF ConsumersAt, Count

\* Counts of producers and consumers are natural numbers.
LEMMA CountsAreNat ==
    /\ \A T : ProducersAt(T) \in Nat
    /\ \A T : ConsumersAt(T) \in Nat
BY CountType, Parameters DEF ProducersAt, ConsumersAt

\* A producer inside s1 is the only one there, and holds an empty slot that
\* no stored transaction fills.
LEMMA WriterAlone ==
    ASSUME IInv, NEW p \in Producers
    PROVE  /\ ppc[p] = "write" => /\ WriteLag = 0
                                  /\ Pending < BUFFER_SIZE
           /\ ppc[p] = "advance" => WriteLag = 1
           /\ ppc[p] \in PInside => s1 = 0
<1> USE Parameters
<1>1. Writers = ProducersAt({"write"}) + WriteLag
                               + ProducersAt({"post_s1"})
  <2>1. ProducersAt({"write", "advance"}) =
          ProducersAt({"write"}) + WriteLag
    <3>1. {"write", "advance"} = {"write"} \cup {"advance"}
      OBVIOUS
    <3> QED BY <3>1, CountSplit, {"write"} \cap {"advance"} = {} DEF ProducersAt, EmptyHeld, JustStored, Writers, WriteLag
  <2>2. PInside = {"write", "advance"} \cup {"post_s1"}
    BY DEF PInside
  <2> QED BY <2>1, <2>2, CountSplit, {"write", "advance"} \cap {"post_s1"} = {}
          DEF ProducersAt, EmptyHeld, JustStored, Writers, WriteLag
<1>2. EmptyHeld = JustStored + ProducersAt({"wait_s1", "write"})
  <2>1. PHolding = PStored \cup {"wait_s1", "write"}
    BY DEF PHolding, PStored
  <2> QED BY <2>1, CountSplit, PStored \cap {"wait_s1", "write"} = {}
          DEF ProducersAt, PStored, EmptyHeld, JustStored, Writers, WriteLag
<1>3. FilledHeld = Reading
                                + ConsumersAt({"advance", "post_s2", "post_e"})
  <2>1. CHolding = CReading \cup {"advance", "post_s2", "post_e"}
    BY DEF CHolding, CReading
  <2> QED BY <2>1, CountSplit, CReading \cap {"advance", "post_s2", "post_e"} = {}
          DEF ConsumersAt, CReading, FilledHeld, Reading, Readers, ReadLag
<1>4. \A T : ppc[p] \in T => ProducersAt(T) >= 1
  BY CountOne DEF ProducersAt, EmptyHeld, JustStored, Writers, WriteLag
<1>5. s1 + Writers = 1 /\ s1 \in Nat
  BY DEF IInv, OneWriter, TypeOK
<1>6. /\ e \in Nat /\ n \in Nat /\ Pending = n + JustStored + Reading
      /\ e + EmptyHeld + n + FilledHeld = BUFFER_SIZE
  BY DEF IInv, TypeOK, FilledMatches, TokensConserved
<1>7. ppc[p] \in PInside => s1 = 0
  BY <1>4, <1>5, CountsAreNat DEF Writers
<1>8. CASE ppc[p] = "write"
  <2>1. ProducersAt({"write"}) >= 1 /\ ProducersAt({"wait_s1", "write"}) >= 1
    BY <1>4, <1>8
  <2> QED BY <1>1, <1>2, <1>3, <1>5, <1>6, <1>7, <1>8, <2>1, CountsAreNat DEF EmptyHeld, JustStored, Writers, WriteLag,
              FilledHeld, Reading, Readers, ReadLag
<1>9. CASE ppc[p] = "advance"
  <2>1. WriteLag >= 1
    BY <1>4, <1>9 DEF WriteLag
  <2> QED BY <1>1, <1>5, <1>7, <1>9, <2>1, CountsAreNat DEF EmptyHeld, JustStored, Writers, WriteLag,
              FilledHeld, Reading, Readers, ReadLag
<1> QED BY <1>7, <1>8, <1>9

\* A consumer inside s2 is the only one there, and what it reads is stored.
LEMMA ReaderAlone ==
    ASSUME IInv, NEW c \in Consumers
    PROVE  /\ cpc[c] \in {"load", "add"} => /\ ReadLag = 0
                                            /\ Pending > 0
           /\ cpc[c] = "advance" => ReadLag = 1
           /\ cpc[c] \in CInside => s2 = 0
<1> USE Parameters
<1>1. Readers = ConsumersAt({"load", "add"}) + ReadLag
                               + ConsumersAt({"post_s2"})
  <2>1. ConsumersAt({"load", "add", "advance"}) =
          ConsumersAt({"load", "add"}) + ReadLag
    <3>1. {"load", "add", "advance"} = {"load", "add"} \cup {"advance"}
      OBVIOUS
    <3> QED BY <3>1, CountSplit, {"load", "add"} \cap {"advance"} = {} DEF ConsumersAt, FilledHeld, Reading, Readers, ReadLag
  <2>2. CInside = {"load", "add", "advance"} \cup {"post_s2"}
    BY DEF CInside
  <2> QED BY <2>1, <2>2, CountSplit, {"load", "add", "advance"} \cap {"post_s2"} = {}
          DEF ConsumersAt, FilledHeld, Reading, Readers, ReadLag
<1>2. \A T : cpc[c] \in T => ConsumersAt(T) >= 1
  BY CountOne DEF ConsumersAt, FilledHeld, Reading, Readers, ReadLag
<1>3. s2 + Readers = 1 /\ s2 \in Nat
  BY DEF IInv, OneReader, TypeOK
<1>4. n \in Nat /\ Pending = n + JustStored + Reading
  BY DEF IInv, TypeOK, FilledMatches
<1>5. CASE cpc[c] \in {"load", "add"}
  <2>1. ConsumersAt({"load", "add"}) >= 1 /\ Reading >= 1
    BY <1>2, <1>5 DEF CReading, Reading
  <2> QED BY <1>1, <1>3, <1>4, <1>5, <2>1, CountsAreNat DEF EmptyHeld, JustStored, Writers, WriteLag,
              FilledHeld, Reading, Readers, ReadLag
<1>6. CASE cpc[c] = "advance"
  <2>1. ReadLag >= 1
    BY <1>2, <1>6 DEF ReadLag
  <2> QED BY <1>1, <1>3, <1>6, <2>1, CountsAreNat DEF EmptyHeld, JustStored, Writers, WriteLag,
              FilledHeld, Reading, Readers, ReadLag
<1>7. cpc[c] \in CInside => s2 = 0
  BY <1>2, <1>3, CountsAreNat DEF Readers
<1> QED BY <1>5, <1>6, <1>7
-----------------------------------------------------------------------------
(* Preservation of the invariant, one lemma per kind of step. *)

\* The eight counts of the invariant.
CountsOK ==
    /\ EmptyHeld \in Nat /\ JustStored \in Nat
    /\ Writers \in Nat /\ WriteLag \in Nat
    /\ FilledHeld \in Nat /\ Reading \in Nat
    /\ Readers \in Nat /\ ReadLag \in Nat

\* They are natural numbers before and after every step.
LEMMA CountsAreOK == CountsOK /\ CountsOK'
<1>1. CountsOK
  BY CountsAreNat DEF CountsOK, EmptyHeld, JustStored, Writers, WriteLag,
              FilledHeld, Reading, Readers, ReadLag
<1>2. \A T : Count(Producers, ppc', T) \in Nat /\ Count(Consumers, cpc', T) \in Nat
  BY CountType, Parameters
<1>3. CountsOK'
  BY <1>2 DEF CountsOK, ProducersAt, ConsumersAt, EmptyHeld, JustStored, Writers,
              WriteLag, FilledHeld, Reading, Readers, ReadLag,
              PHolding, PStored, PInside, CHolding, CReading, CInside
<1> QED BY <1>1, <1>3

\* A producer draws integers.
LEMMA AmountsAreInt == Amounts \subseteq Int
BY BufferAssumption DEF BufferAssumption, Amounts, RandomTransaction

\* The arithmetic of the invariant.
Arith ==
    /\ e \in Nat /\ n \in Nat /\ s1 \in Nat /\ s2 \in Nat
    /\ taken \in Nat /\ Len(stored) \in Nat
    /\ e + EmptyHeld + n + FilledHeld = BUFFER_SIZE
    /\ Len(stored) - taken = n + JustStored + Reading
    /\ s1 + Writers = 1 /\ s2 + Readers = 1

\* What the invariant says of numbers only.
LEMMA Facts == IInv => Arith
BY DEF IInv, Arith, TypeOK, TokensConserved, FilledMatches, OneWriter, OneReader, Pending

\* The producer's store and the consumer's read are of different slots.
LEMMA SlotRaceFree == IInv => NoSlotRace
<1> SUFFICES ASSUME IInv, NEW p \in Producers, NEW c \in Consumers,
                    ppc[p] = "write", cpc[c] \in {"load", "add"}
             PROVE  write_index # read_index
  BY DEF NoSlotRace
<1>0. Arith
  BY Facts
<1>1. WriteLag = 0 /\ Pending < BUFFER_SIZE
  BY WriterAlone
<1>2. ReadLag = 0 /\ Pending > 0
  BY ReaderAlone
<1>3. write_index = Len(stored) % BUFFER_SIZE /\ read_index = taken % BUFFER_SIZE
  BY <1>0, <1>1, <1>2 DEF Arith, IInv, WriteIndexAt, ReadIndexAt
<1>4. taken < Len(stored) /\ Len(stored) < taken + BUFFER_SIZE
  <2>1. Len(stored) - taken < BUFFER_SIZE /\ Len(stored) - taken > 0
    BY <1>1, <1>2 DEF Pending
  <2>2. taken \in Nat /\ Len(stored) \in Nat
    BY <1>0 DEF Arith
  <2> QED BY <2>1, <2>2, Parameters
<1>5. taken \in Int /\ Len(stored) \in Int
  BY <1>0 DEF Arith
<1> QED BY <1>3, <1>4, <1>5, Parameters, ModDistinct

\* s2 lets one consumer in at a time.
LEMMA OneReaderOnly ==
    ASSUME IInv, NEW c \in Consumers, NEW d \in Consumers, d # c, cpc[c] \in CInside
    PROVE  cpc[d] \notin CInside
<1> SUFFICES ASSUME cpc[d] \in CInside PROVE FALSE
  OBVIOUS
<1>1. Readers >= 2
  BY CountTwo, Parameters DEF ConsumersAt, Readers
<1>2. Arith /\ CountsOK
  BY Facts, CountsAreOK
<1> QED BY <1>1, <1>2 DEF Arith, CountsOK

\* The state main has set up satisfies the invariant.
LEMMA InitIInv == Init => IInv
<1> SUFFICES ASSUME Init PROVE IInv
  OBVIOUS
<1> USE Parameters
<1>1. TypeOK
  BY BufferAssumption DEF BufferAssumption, Init, TypeOK, Slots, PPcs, CPcs
<1>2. ASSUME NEW T, "none" \notin T
      PROVE  ProducersAt(T) = 0 /\ ConsumersAt(T) = 0
  <2>1. /\ \A p \in Producers : ppc[p] \notin T
        /\ \A c \in Consumers : cpc[c] \notin T
    BY <1>2 DEF Init
  <2> QED BY <2>1, CountNone DEF ProducersAt, ConsumersAt
<1>3. /\ EmptyHeld = 0 /\ JustStored = 0
      /\ Writers = 0 /\ WriteLag = 0
  BY <1>2 DEF PHolding, PStored, PInside, EmptyHeld, JustStored, Writers, WriteLag
<1>4. /\ FilledHeld = 0 /\ Reading = 0
      /\ Readers = 0 /\ ReadLag = 0
  BY <1>2 DEF CHolding, CReading, CInside, FilledHeld, Reading, Readers, ReadLag
<1>5. 0 % BUFFER_SIZE = 0
  BY SMT
<1>6. TokensConserved /\ FilledMatches /\ OneWriter /\ OneReader
  BY <1>3, <1>4 DEF Init, TokensConserved, FilledMatches, OneWriter, OneReader, Pending
<1>7. WriteIndexAt /\ ReadIndexAt
  BY <1>3, <1>4, <1>5 DEF Init, WriteIndexAt, ReadIndexAt
<1>8. RegisterFresh /\ ItemsDrawn /\ OpsLeft
  BY DEF Init, RegisterFresh, ItemsDrawn, OpsLeft, PHolding
<1> QED BY <1>1, <1>6, <1>7, <1>8 DEF IInv

\* The invariant survives the draw of an amount.
LEMMA ProduceKeeps == ASSUME IInv, NEW p \in Producers, Produce(p) PROVE IInv'
<1> USE Parameters
<1>1. PStep(p, "produce", "wait_e")
  BY DEF Produce
<1>2. /\ EmptyHeld' = EmptyHeld
      /\ JustStored' = JustStored
      /\ Writers' = Writers
      /\ WriteLag' = WriteLag
  BY <1>1, ProducerMove DEF IInv, EmptyHeld, JustStored, Writers, WriteLag,
     PHolding, PStored, PInside, PLoop
<1>3. /\ FilledHeld' = FilledHeld
      /\ Reading' = Reading
      /\ Readers' = Readers
      /\ ReadLag' = ReadLag
  BY ConsumersStay DEF Produce, consVars,
     FilledHeld, Reading, Readers, ReadLag
<1>4. CountsOK /\ CountsOK' /\ Arith
  BY CountsAreOK, Facts
<1>5. /\ e' = e /\ n' = n /\ s1' = s1 /\ s2' = s2
      /\ Len(stored)' = Len(stored) /\ taken' = taken
  BY DEF Produce, IInv, TypeOK
<1>6. TokensConserved' /\ FilledMatches' /\ OneWriter' /\ OneReader'
  BY <1>2, <1>3, <1>4, <1>5
     DEF CountsOK, Arith, Pending, TokensConserved, FilledMatches, OneWriter, OneReader
<1>7. TypeOK'
  <2>1. /\ e' \in 0 .. BUFFER_SIZE /\ n' \in 0 .. BUFFER_SIZE
        /\ s1' \in 0 .. 1 /\ s2' \in 0 .. 1
    BY <1>2, <1>3, <1>4, <1>5 DEF CountsOK, Arith
  <2> QED BY <2>1, AmountsAreInt DEF IInv, Produce, PStep, consVars, TypeOK,
                     Slots, PPcs, CPcs, PLoop
<1>8. WriteIndexAt' /\ ReadIndexAt'
  BY <1>2, <1>3 DEF IInv, Produce, WriteIndexAt, ReadIndexAt
<1>9. RegisterFresh' /\ ItemsDrawn' /\ OpsLeft'
  BY DEF IInv, TypeOK, Produce, PStep, consVars, RegisterFresh, ItemsDrawn,
         OpsLeft, PHolding, PLoop
<1> QED BY <1>6, <1>7, <1>8, <1>9 DEF IInv

\* The invariant survives sem_wait(&e).
LEMMA WaitEmptyKeeps == ASSUME IInv, NEW p \in Producers, WaitEmpty(p) PROVE IInv'
<1> USE Parameters
<1>1. PStep(p, "wait_e", "wait_s1")
  BY DEF WaitEmpty
<1>2. /\ EmptyHeld' = EmptyHeld + 1
      /\ JustStored' = JustStored
      /\ Writers' = Writers
      /\ WriteLag' = WriteLag
  BY <1>1, ProducerMove DEF IInv, EmptyHeld, JustStored, Writers, WriteLag,
     PHolding, PStored, PInside, PLoop
<1>3. /\ FilledHeld' = FilledHeld
      /\ Reading' = Reading
      /\ Readers' = Readers
      /\ ReadLag' = ReadLag
  BY ConsumersStay DEF WaitEmpty, consVars,
     FilledHeld, Reading, Readers, ReadLag
<1>4. CountsOK /\ CountsOK' /\ Arith
  BY CountsAreOK, Facts
<1>5. /\ e' = e - 1 /\ n' = n /\ s1' = s1 /\ s2' = s2
      /\ Len(stored)' = Len(stored) /\ taken' = taken /\ e > 0
  BY DEF WaitEmpty, IInv, TypeOK
<1>6. TokensConserved' /\ FilledMatches' /\ OneWriter' /\ OneReader'
  BY <1>2, <1>3, <1>4, <1>5
     DEF CountsOK, Arith, Pending, TokensConserved, FilledMatches, OneWriter, OneReader
<1>7. TypeOK'
  <2>1. /\ e' \in 0 .. BUFFER_SIZE /\ n' \in 0 .. BUFFER_SIZE
        /\ s1' \in 0 .. 1 /\ s2' \in 0 .. 1
    BY <1>2, <1>3, <1>4, <1>5 DEF CountsOK, Arith
  <2> QED BY <2>1 DEF IInv, WaitEmpty, PStep, consVars, TypeOK,
                     Slots, PPcs, CPcs, PLoop
<1>8. WriteIndexAt' /\ ReadIndexAt'
  BY <1>2, <1>3 DEF IInv, WaitEmpty, WriteIndexAt, ReadIndexAt
<1>9. RegisterFresh' /\ ItemsDrawn' /\ OpsLeft'
  BY DEF IInv, TypeOK, WaitEmpty, PStep, consVars, RegisterFresh, ItemsDrawn,
         OpsLeft, PHolding, PLoop
<1> QED BY <1>6, <1>7, <1>8, <1>9 DEF IInv

\* The invariant survives sem_wait(&s1).
LEMMA WaitWriteKeeps == ASSUME IInv, NEW p \in Producers, WaitWrite(p) PROVE IInv'
<1> USE Parameters
<1>1. PStep(p, "wait_s1", "write")
  BY DEF WaitWrite
<1>2. /\ EmptyHeld' = EmptyHeld
      /\ JustStored' = JustStored
      /\ Writers' = Writers + 1
      /\ WriteLag' = WriteLag
  BY <1>1, ProducerMove DEF IInv, EmptyHeld, JustStored, Writers, WriteLag,
     PHolding, PStored, PInside, PLoop
<1>3. /\ FilledHeld' = FilledHeld
      /\ Reading' = Reading
      /\ Readers' = Readers
      /\ ReadLag' = ReadLag
  BY ConsumersStay DEF WaitWrite, consVars,
     FilledHeld, Reading, Readers, ReadLag
<1>4. CountsOK /\ CountsOK' /\ Arith
  BY CountsAreOK, Facts
<1>5. /\ e' = e /\ n' = n /\ s1' = s1 - 1 /\ s2' = s2
      /\ Len(stored)' = Len(stored) /\ taken' = taken /\ s1 > 0
  BY DEF WaitWrite, IInv, TypeOK
<1>6. TokensConserved' /\ FilledMatches' /\ OneWriter' /\ OneReader'
  BY <1>2, <1>3, <1>4, <1>5
     DEF CountsOK, Arith, Pending, TokensConserved, FilledMatches, OneWriter, OneReader
<1>7. TypeOK'
  <2>1. /\ e' \in 0 .. BUFFER_SIZE /\ n' \in 0 .. BUFFER_SIZE
        /\ s1' \in 0 .. 1 /\ s2' \in 0 .. 1
    BY <1>2, <1>3, <1>4, <1>5 DEF CountsOK, Arith
  <2> QED BY <2>1 DEF IInv, WaitWrite, PStep, consVars, TypeOK,
                     Slots, PPcs, CPcs, PLoop
<1>8. WriteIndexAt' /\ ReadIndexAt'
  BY <1>2, <1>3 DEF IInv, WaitWrite, WriteIndexAt, ReadIndexAt
<1>9. RegisterFresh' /\ ItemsDrawn' /\ OpsLeft'
  BY DEF IInv, TypeOK, WaitWrite, PStep, consVars, RegisterFresh, ItemsDrawn,
         OpsLeft, PHolding, PLoop
<1> QED BY <1>6, <1>7, <1>8, <1>9 DEF IInv

\* The invariant survives the store into the slot.
LEMMA WriteKeeps == ASSUME IInv, NEW p \in Producers, Write(p) PROVE IInv'
<1> USE Parameters
<1>1. PStep(p, "write", "advance")
  BY DEF Write
<1>2. /\ EmptyHeld' = EmptyHeld
      /\ JustStored' = JustStored + 1
      /\ Writers' = Writers
      /\ WriteLag' = WriteLag + 1
  BY <1>1, ProducerMove DEF IInv, EmptyHeld, JustStored, Writers, WriteLag,
     PHolding, PStored, PInside, PLoop
<1>3. /\ FilledHeld' = FilledHeld
      /\ Reading' = Reading
      /\ Readers' = Readers
      /\ ReadLag' = ReadLag
  BY ConsumersStay DEF Write, consVars,
     FilledHeld, Reading, Readers, ReadLag
<1>4. CountsOK /\ CountsOK' /\ Arith
  BY CountsAreOK, Facts
<1>5. /\ e' = e /\ n' = n /\ s1' = s1 /\ s2' = s2
      /\ Len(stored)' = Len(stored) + 1 /\ taken' = taken
  BY DEF Write, IInv, TypeOK
<1>6. TokensConserved' /\ FilledMatches' /\ OneWriter' /\ OneReader'
  BY <1>2, <1>3, <1>4, <1>5
     DEF CountsOK, Arith, Pending, TokensConserved, FilledMatches, OneWriter, OneReader
<1>7. TypeOK'
  <2>1. /\ e' \in 0 .. BUFFER_SIZE /\ n' \in 0 .. BUFFER_SIZE
        /\ s1' \in 0 .. 1 /\ s2' \in 0 .. 1
    BY <1>2, <1>3, <1>4, <1>5 DEF CountsOK, Arith
  <2> QED BY <2>1 DEF IInv, Write, PStep, consVars, TypeOK,
                     Slots, PPcs, CPcs, PLoop
<1>8. WriteIndexAt' /\ ReadIndexAt'
  <2>1. WriteLag = 0 /\ Len(stored)' = Len(stored) + 1
    BY <1>1, WriterAlone DEF PStep, Write, IInv, TypeOK
  <2>2. Len(stored)' - WriteLag' = Len(stored) - WriteLag
    BY <1>2, <1>4, <2>1 DEF Arith
  <2> QED BY <1>3, <2>2 DEF IInv, Write, WriteIndexAt, ReadIndexAt
<1>9. RegisterFresh' /\ ItemsDrawn' /\ OpsLeft'
  <2>1. \A c \in Consumers : cpc[c] = "add" => write_index # read_index
    BY <1>1, SlotRaceFree DEF NoSlotRace, PStep
  <2>2. transactions'[read_index] = transactions[read_index] \/ read_index = write_index
    BY DEF Write, IInv, TypeOK
  <2>3. RegisterFresh'
    BY <2>1, <2>2 DEF IInv, Write, consVars, RegisterFresh
  <2>4. ItemsDrawn' /\ OpsLeft'
    BY DEF IInv, TypeOK, Write, PStep, consVars, ItemsDrawn, OpsLeft, PHolding
  <2> QED BY <2>3, <2>4
<1> QED BY <1>6, <1>7, <1>8, <1>9 DEF IInv

\* The invariant survives the update of write_index.
LEMMA AdvanceWriteKeeps == ASSUME IInv, NEW p \in Producers, AdvanceWrite(p) PROVE IInv'
<1> USE Parameters
<1>1. PStep(p, "advance", "post_s1")
  BY DEF AdvanceWrite
<1>2. /\ EmptyHeld' = EmptyHeld
      /\ JustStored' = JustStored
      /\ Writers' = Writers
      /\ WriteLag' = WriteLag - 1
  BY <1>1, ProducerMove DEF IInv, EmptyHeld, JustStored, Writers, WriteLag,
     PHolding, PStored, PInside, PLoop
<1>3. /\ FilledHeld' = FilledHeld
      /\ Reading' = Reading
      /\ Readers' = Readers
      /\ ReadLag' = ReadLag
  BY ConsumersStay DEF AdvanceWrite, consVars,
     FilledHeld, Reading, Readers, ReadLag
<1>4. CountsOK /\ CountsOK' /\ Arith
  BY CountsAreOK, Facts
<1>5. /\ e' = e /\ n' = n /\ s1' = s1 /\ s2' = s2
      /\ Len(stored)' = Len(stored) /\ taken' = taken
  BY DEF AdvanceWrite, IInv, TypeOK
<1>6. TokensConserved' /\ FilledMatches' /\ OneWriter' /\ OneReader'
  BY <1>2, <1>3, <1>4, <1>5
     DEF CountsOK, Arith, Pending, TokensConserved, FilledMatches, OneWriter, OneReader
<1>7. TypeOK'
  <2>1. /\ e' \in 0 .. BUFFER_SIZE /\ n' \in 0 .. BUFFER_SIZE
        /\ s1' \in 0 .. 1 /\ s2' \in 0 .. 1
    BY <1>2, <1>3, <1>4, <1>5 DEF CountsOK, Arith
  <2> QED BY <2>1 DEF IInv, AdvanceWrite, PStep, consVars, TypeOK,
                     Slots, PPcs, CPcs, PLoop
<1>8. WriteIndexAt' /\ ReadIndexAt'
  <2>1. WriteLag = 1 /\ WriteLag' = 0
    BY <1>1, <1>2, WriterAlone DEF PStep
  <2>2. write_index = (Len(stored) - 1) % BUFFER_SIZE
    BY <2>1 DEF IInv, WriteIndexAt
  <2>3. write_index' = ((Len(stored) - 1) + 1) % BUFFER_SIZE
    <3>1. Len(stored) - 1 \in Int
      BY <1>4 DEF Arith
    <3>2. write_index' = (write_index + 1) % BUFFER_SIZE
      BY DEF AdvanceWrite
    <3> QED BY <2>2, <3>1, <3>2, ModAdvance
  <2>4. (Len(stored) - 1) + 1 = Len(stored)' - WriteLag'
    BY <1>4, <1>5, <2>1 DEF Arith, AdvanceWrite
  <2> QED BY <1>3, <2>3, <2>4 DEF IInv, AdvanceWrite, WriteIndexAt, ReadIndexAt
<1>9. RegisterFresh' /\ ItemsDrawn' /\ OpsLeft'
  BY DEF IInv, TypeOK, AdvanceWrite, PStep, consVars, RegisterFresh, ItemsDrawn,
         OpsLeft, PHolding
<1> QED BY <1>6, <1>7, <1>8, <1>9 DEF IInv

\* The invariant survives sem_post(&s1).
LEMMA PostWriteKeeps == ASSUME IInv, NEW p \in Producers, PostWrite(p) PROVE IInv'
<1> USE Parameters
<1>1. PStep(p, "post_s1", "post_n")
  BY DEF PostWrite
<1>2. /\ EmptyHeld' = EmptyHeld
      /\ JustStored' = JustStored
      /\ Writers' = Writers - 1
      /\ WriteLag' = WriteLag
  BY <1>1, ProducerMove DEF IInv, EmptyHeld, JustStored, Writers, WriteLag,
     PHolding, PStored, PInside, PLoop
<1>3. /\ FilledHeld' = FilledHeld
      /\ Reading' = Reading
      /\ Readers' = Readers
      /\ ReadLag' = ReadLag
  BY ConsumersStay DEF PostWrite, consVars,
     FilledHeld, Reading, Readers, ReadLag
<1>4. CountsOK /\ CountsOK' /\ Arith
  BY CountsAreOK, Facts
<1>5. /\ e' = e /\ n' = n /\ s1' = s1 + 1 /\ s2' = s2
      /\ Len(stored)' = Len(stored) /\ taken' = taken
  BY DEF PostWrite, IInv, TypeOK
<1>6. TokensConserved' /\ FilledMatches' /\ OneWriter' /\ OneReader'
  BY <1>2, <1>3, <1>4, <1>5
     DEF CountsOK, Arith, Pending, TokensConserved, FilledMatches, OneWriter, OneReader
<1>7. TypeOK'
  <2>1. /\ e' \in 0 .. BUFFER_SIZE /\ n' \in 0 .. BUFFER_SIZE
        /\ s1' \in 0 .. 1 /\ s2' \in 0 .. 1
    BY <1>2, <1>3, <1>4, <1>5 DEF CountsOK, Arith
  <2> QED BY <2>1 DEF IInv, PostWrite, PStep, consVars, TypeOK,
                     Slots, PPcs, CPcs, PLoop
<1>8. WriteIndexAt' /\ ReadIndexAt'
  BY <1>2, <1>3 DEF IInv, PostWrite, WriteIndexAt, ReadIndexAt
<1>9. RegisterFresh' /\ ItemsDrawn' /\ OpsLeft'
  BY DEF IInv, TypeOK, PostWrite, PStep, consVars, RegisterFresh, ItemsDrawn,
         OpsLeft, PHolding, PLoop
<1> QED BY <1>6, <1>7, <1>8, <1>9 DEF IInv

\* The invariant survives sem_post(&n), after which the producer starts over
\* or exits.
LEMMA PostFilledKeeps == ASSUME IInv, NEW p \in Producers, PostFilled(p) PROVE IInv'
<1> USE Parameters
<1>1. PStep(p, "post_n", PLoop(pops[p] - 1))
  BY DEF PostFilled
<1>2. /\ EmptyHeld' = EmptyHeld - 1
      /\ JustStored' = JustStored - 1
      /\ Writers' = Writers
      /\ WriteLag' = WriteLag
  BY <1>1, ProducerMove DEF IInv, EmptyHeld, JustStored, Writers, WriteLag,
     PHolding, PStored, PInside, PLoop
<1>3. /\ FilledHeld' = FilledHeld
      /\ Reading' = Reading
      /\ Readers' = Readers
      /\ ReadLag' = ReadLag
  BY ConsumersStay DEF PostFilled, consVars,
     FilledHeld, Reading, Readers, ReadLag
<1>4. CountsOK /\ CountsOK' /\ Arith
  BY CountsAreOK, Facts
<1>5. /\ e' = e /\ n' = n + 1 /\ s1' = s1 /\ s2' = s2
      /\ Len(stored)' = Len(stored) /\ taken' = taken
  BY DEF PostFilled, IInv, TypeOK
<1>6. TokensConserved' /\ FilledMatches' /\ OneWriter' /\ OneReader'
  BY <1>2, <1>3, <1>4, <1>5
     DEF CountsOK, Arith, Pending, TokensConserved, FilledMatches, OneWriter, OneReader
<1>7. TypeOK'
  <2>1. /\ e' \in 0 .. BUFFER_SIZE /\ n' \in 0 .. BUFFER_SIZE
        /\ s1' \in 0 .. 1 /\ s2' \in 0 .. 1
    BY <1>2, <1>3, <1>4, <1>5 DEF CountsOK, Arith
  <2>2. pops[p] > 0 /\ pops[p] \in Nat /\ pops' = [pops EXCEPT ![p] = @ - 1]
    BY <1>1 DEF IInv, OpsLeft, TypeOK, PostFilled, PStep
  <2>3. pops' \in [Producers -> Nat]
    BY <2>2 DEF IInv, TypeOK
  <2>4. ppc' \in [Producers -> PPcs]
    BY <1>1 DEF IInv, TypeOK, PStep, PLoop, PPcs
  <2> QED BY <2>1, <2>3, <2>4 DEF IInv, PostFilled, consVars, TypeOK, Slots
<1>8. WriteIndexAt' /\ ReadIndexAt'
  BY <1>2, <1>3 DEF IInv, PostFilled, WriteIndexAt, ReadIndexAt
<1>9. RegisterFresh' /\ ItemsDrawn' /\ OpsLeft'
  BY DEF IInv, TypeOK, PostFilled, PStep, consVars, RegisterFresh, ItemsDrawn,
         OpsLeft, PHolding, PLoop
<1> QED BY <1>6, <1>7, <1>8, <1>9 DEF IInv

\* The invariant survives pthread_create of a producer.
LEMMA CreateProducerKeeps == ASSUME IInv, NEW p \in Producers, CreateProducer(p) PROVE IInv'
<1> USE Parameters
<1>1. PStep(p, "none", PLoop(pops[p]))
  BY DEF CreateProducer, sharedVars
<1>2. /\ EmptyHeld' = EmptyHeld
      /\ JustStored' = JustStored
      /\ Writers' = Writers
      /\ WriteLag' = WriteLag
  BY <1>1, ProducerMove DEF IInv, EmptyHeld, JustStored, Writers, WriteLag,
     PHolding, PStored, PInside, PLoop
<1>3. /\ FilledHeld' = FilledHeld
      /\ Reading' = Reading
      /\ Readers' = Readers
      /\ ReadLag' = ReadLag
  BY ConsumersStay DEF CreateProducer, sharedVars, consVars,
     FilledHeld, Reading, Readers, ReadLag
<1>4. CountsOK /\ CountsOK' /\ Arith
  BY CountsAreOK, Facts
<1>5. /\ e' = e /\ n' = n /\ s1' = s1 /\ s2' = s2
      /\ Len(stored)' = Len(stored) /\ taken' = taken
  BY DEF CreateProducer, sharedVars, IInv, TypeOK
<1>6. TokensConserved' /\ FilledMatches' /\ OneWriter' /\ OneReader'
  BY <1>2, <1>3, <1>4, <1>5
     DEF CountsOK, Arith, Pending, TokensConserved, FilledMatches, OneWriter, OneReader
<1>7. TypeOK'
  <2>1. /\ e' \in 0 .. BUFFER_SIZE /\ n' \in 0 .. BUFFER_SIZE
        /\ s1' \in 0 .. 1 /\ s2' \in 0 .. 1
    BY <1>2, <1>3, <1>4, <1>5 DEF CountsOK, Arith
  <2> QED BY <2>1 DEF IInv, sharedVars, CreateProducer, PStep, consVars, TypeOK,
                     Slots, PPcs, CPcs, PLoop
<1>8. WriteIndexAt' /\ ReadIndexAt'
  BY <1>2, <1>3 DEF IInv, sharedVars, CreateProducer, WriteIndexAt, ReadIndexAt
<1>9. RegisterFresh' /\ ItemsDrawn' /\ OpsLeft'
  BY DEF IInv, TypeOK, sharedVars, CreateProducer, PStep, consVars, RegisterFresh, ItemsDrawn,
         OpsLeft, PHolding, PLoop
<1> QED BY <1>6, <1>7, <1>8, <1>9 DEF IInv

\* The invariant survives sem_wait(&n).
LEMMA WaitFilledKeeps == ASSUME IInv, NEW c \in Consumers, WaitFilled(c) PROVE IInv'
<1> USE Parameters
<1>1. CStep(c, "wait_n", "wait_s2")
  BY DEF WaitFilled
<1>2. /\ FilledHeld' = FilledHeld + 1
      /\ Reading' = Reading + 1
      /\ Readers' = Readers
      /\ ReadLag' = ReadLag
  BY <1>1, ConsumerMove DEF IInv, FilledHeld, Reading, Readers, ReadLag,
     CHolding, CReading, CInside, CLoop
<1>3. /\ EmptyHeld' = EmptyHeld
      /\ JustStored' = JustStored
      /\ Writers' = Writers
      /\ WriteLag' = WriteLag
  BY ProducersStay DEF WaitFilled, prodVars,
     EmptyHeld, JustStored, Writers, WriteLag
<1>4. CountsOK /\ CountsOK' /\ Arith
  BY CountsAreOK, Facts
<1>5. /\ e' = e /\ n' = n - 1 /\ s1' = s1 /\ s2' = s2
      /\ Len(stored)' = Len(stored) /\ taken' = taken /\ n > 0
  BY DEF WaitFilled, IInv, TypeOK
<1>6. TokensConserved' /\ FilledMatches' /\ OneWriter' /\ OneReader'
  BY <1>2, <1>3, <1>4, <1>5
     DEF CountsOK, Arith, Pending, TokensConserved, FilledMatches, OneWriter, OneReader
<1>7. TypeOK'
  <2>1. /\ e' \in 0 .. BUFFER_SIZE /\ n' \in 0 .. BUFFER_SIZE
        /\ s1' \in 0 .. 1 /\ s2' \in 0 .. 1
    BY <1>2, <1>3, <1>4, <1>5 DEF CountsOK, Arith
  <2> QED BY <2>1 DEF IInv, WaitFilled, CStep, prodVars, TypeOK,
                     Slots, PPcs, CPcs, CLoop
<1>8. WriteIndexAt' /\ ReadIndexAt'
  BY <1>2, <1>3 DEF IInv, WaitFilled, WriteIndexAt, ReadIndexAt
<1>9. RegisterFresh' /\ ItemsDrawn' /\ OpsLeft'
  BY DEF IInv, TypeOK, WaitFilled, CStep, prodVars, RegisterFresh, ItemsDrawn,
         OpsLeft, PHolding, CLoop
<1> QED BY <1>6, <1>7, <1>8, <1>9 DEF IInv

\* The invariant survives sem_wait(&s2).
LEMMA WaitReadKeeps == ASSUME IInv, NEW c \in Consumers, WaitRead(c) PROVE IInv'
<1> USE Parameters
<1>1. CStep(c, "wait_s2", "load")
  BY DEF WaitRead
<1>2. /\ FilledHeld' = FilledHeld
      /\ Reading' = Reading
      /\ Readers' = Readers + 1
      /\ ReadLag' = ReadLag
  BY <1>1, ConsumerMove DEF IInv, FilledHeld, Reading, Readers, ReadLag,
     CHolding, CReading, CInside, CLoop
<1>3. /\ EmptyHeld' = EmptyHeld
      /\ JustStored' = JustStored
      /\ Writers' = Writers
      /\ WriteLag' = WriteLag
  BY ProducersStay DEF WaitRead, prodVars,
     EmptyHeld, JustStored, Writers, WriteLag
<1>4. CountsOK /\ CountsOK' /\ Arith
  BY CountsAreOK, Facts
<1>5. /\ e' = e /\ n' = n /\ s1' = s1 /\ s2' = s2 - 1
      /\ Len(stored)' = Len(stored) /\ taken' = taken /\ s2 > 0
  BY DEF WaitRead, IInv, TypeOK
<1>6. TokensConserved' /\ FilledMatches' /\ OneWriter' /\ OneReader'
  BY <1>2, <1>3, <1>4, <1>5
     DEF CountsOK, Arith, Pending, TokensConserved, FilledMatches, OneWriter, OneReader
<1>7. TypeOK'
  <2>1. /\ e' \in 0 .. BUFFER_SIZE /\ n' \in 0 .. BUFFER_SIZE
        /\ s1' \in 0 .. 1 /\ s2' \in 0 .. 1
    BY <1>2, <1>3, <1>4, <1>5 DEF CountsOK, Arith
  <2> QED BY <2>1 DEF IInv, WaitRead, CStep, prodVars, TypeOK,
                     Slots, PPcs, CPcs, CLoop
<1>8. WriteIndexAt' /\ ReadIndexAt'
  BY <1>2, <1>3 DEF IInv, WaitRead, WriteIndexAt, ReadIndexAt
<1>9. RegisterFresh' /\ ItemsDrawn' /\ OpsLeft'
  BY DEF IInv, TypeOK, WaitRead, CStep, prodVars, RegisterFresh, ItemsDrawn,
         OpsLeft, PHolding, CLoop
<1> QED BY <1>6, <1>7, <1>8, <1>9 DEF IInv

\* The invariant survives the load of deposit and of the slot.
LEMMA LoadKeeps == ASSUME IInv, NEW c \in Consumers, Load(c) PROVE IInv'
<1> USE Parameters
<1>1. CStep(c, "load", "add")
  BY DEF Load
<1>2. /\ FilledHeld' = FilledHeld
      /\ Reading' = Reading
      /\ Readers' = Readers
      /\ ReadLag' = ReadLag
  BY <1>1, ConsumerMove DEF IInv, FilledHeld, Reading, Readers, ReadLag,
     CHolding, CReading, CInside, CLoop
<1>3. /\ EmptyHeld' = EmptyHeld
      /\ JustStored' = JustStored
      /\ Writers' = Writers
      /\ WriteLag' = WriteLag
  BY ProducersStay DEF Load, prodVars,
     EmptyHeld, JustStored, Writers, WriteLag
<1>4. CountsOK /\ CountsOK' /\ Arith
  BY CountsAreOK, Facts
<1>5. /\ e' = e /\ n' = n /\ s1' = s1 /\ s2' = s2
      /\ Len(stored)' = Len(stored) /\ taken' = taken
  BY DEF Load, IInv, TypeOK
<1>6. TokensConserved' /\ FilledMatches' /\ OneWriter' /\ OneReader'
  BY <1>2, <1>3, <1>4, <1>5
     DEF CountsOK, Arith, Pending, TokensConserved, FilledMatches, OneWriter, OneReader
<1>7. TypeOK'
  <2>1. /\ e' \in 0 .. BUFFER_SIZE /\ n' \in 0 .. BUFFER_SIZE
        /\ s1' \in 0 .. 1 /\ s2' \in 0 .. 1
    BY <1>2, <1>3, <1>4, <1>5 DEF CountsOK, Arith
  <2> QED BY <2>1 DEF IInv, Load, CStep, prodVars, TypeOK,
                     Slots, PPcs, CPcs, CLoop
<1>8. WriteIndexAt' /\ ReadIndexAt'
  BY <1>2, <1>3 DEF IInv, Load, WriteIndexAt, ReadIndexAt
<1>9. RegisterFresh' /\ ItemsDrawn' /\ OpsLeft'
  BY DEF IInv, TypeOK, Load, CStep, prodVars, RegisterFresh, ItemsDrawn,
         OpsLeft, PHolding, CLoop
<1> QED BY <1>6, <1>7, <1>8, <1>9 DEF IInv

\* The invariant survives the store into deposit.
LEMMA AddKeeps == ASSUME IInv, NEW c \in Consumers, Add(c) PROVE IInv'
<1> USE Parameters
<1>1. CStep(c, "add", "advance")
  BY DEF Add
<1>2. /\ FilledHeld' = FilledHeld
      /\ Reading' = Reading - 1
      /\ Readers' = Readers
      /\ ReadLag' = ReadLag + 1
  BY <1>1, ConsumerMove DEF IInv, FilledHeld, Reading, Readers, ReadLag,
     CHolding, CReading, CInside, CLoop
<1>3. /\ EmptyHeld' = EmptyHeld
      /\ JustStored' = JustStored
      /\ Writers' = Writers
      /\ WriteLag' = WriteLag
  BY ProducersStay DEF Add, prodVars,
     EmptyHeld, JustStored, Writers, WriteLag
<1>4. CountsOK /\ CountsOK' /\ Arith
  BY CountsAreOK, Facts
<1>5. /\ e' = e /\ n' = n /\ s1' = s1 /\ s2' = s2
      /\ Len(stored)' = Len(stored) /\ taken' = taken + 1
  BY DEF Add, IInv, TypeOK
<1>6. TokensConserved' /\ FilledMatches' /\ OneWriter' /\ OneReader'
  BY <1>2, <1>3, <1>4, <1>5
     DEF CountsOK, Arith, Pending, TokensConserved, FilledMatches, OneWriter, OneReader
<1>7. TypeOK'
  <2>1. /\ e' \in 0 .. BUFFER_SIZE /\ n' \in 0 .. BUFFER_SIZE
        /\ s1' \in 0 .. 1 /\ s2' \in 0 .. 1
    BY <1>2, <1>3, <1>4, <1>5 DEF CountsOK, Arith
  <2> QED BY <2>1 DEF IInv, Add, CStep, prodVars, TypeOK,
                     Slots, PPcs, CPcs, CLoop
<1>8. WriteIndexAt' /\ ReadIndexAt'
  <2>1. ReadLag = 0 /\ taken' = taken + 1
    BY <1>1, ReaderAlone DEF CStep, Add
  <2>2. taken' - ReadLag' = taken - ReadLag
    BY <1>2, <1>4, <2>1 DEF Arith
  <2> QED BY <1>3, <2>2 DEF IInv, Add, WriteIndexAt, ReadIndexAt
<1>9. RegisterFresh' /\ ItemsDrawn' /\ OpsLeft'
  <2>1. \A d \in Consumers : d # c => cpc[d] # "add"
    BY <1>1, OneReaderOnly DEF CStep, CInside
  <2>2. RegisterFresh'
    BY <2>1 DEF IInv, TypeOK, Add, CStep, RegisterFresh
  <2>3. ItemsDrawn' /\ OpsLeft'
    BY DEF IInv, TypeOK, Add, CStep, prodVars, ItemsDrawn, OpsLeft
  <2> QED BY <2>2, <2>3
<1> QED BY <1>6, <1>7, <1>8, <1>9 DEF IInv

\* The invariant survives the update of read_index.
LEMMA AdvanceReadKeeps == ASSUME IInv, NEW c \in Consumers, AdvanceRead(c) PROVE IInv'
<1> USE Parameters
<1>1. CStep(c, "advance", "post_s2")
  BY DEF AdvanceRead
<1>2. /\ FilledHeld' = FilledHeld
      /\ Reading' = Reading
      /\ Readers' = Readers
      /\ ReadLag' = ReadLag - 1
  BY <1>1, ConsumerMove DEF IInv, FilledHeld, Reading, Readers, ReadLag,
     CHolding, CReading, CInside, CLoop
<1>3. /\ EmptyHeld' = EmptyHeld
      /\ JustStored' = JustStored
      /\ Writers' = Writers
      /\ WriteLag' = WriteLag
  BY ProducersStay DEF AdvanceRead, prodVars,
     EmptyHeld, JustStored, Writers, WriteLag
<1>4. CountsOK /\ CountsOK' /\ Arith
  BY CountsAreOK, Facts
<1>5. /\ e' = e /\ n' = n /\ s1' = s1 /\ s2' = s2
      /\ Len(stored)' = Len(stored) /\ taken' = taken
  BY DEF AdvanceRead, IInv, TypeOK
<1>6. TokensConserved' /\ FilledMatches' /\ OneWriter' /\ OneReader'
  BY <1>2, <1>3, <1>4, <1>5
     DEF CountsOK, Arith, Pending, TokensConserved, FilledMatches, OneWriter, OneReader
<1>7. TypeOK'
  <2>1. /\ e' \in 0 .. BUFFER_SIZE /\ n' \in 0 .. BUFFER_SIZE
        /\ s1' \in 0 .. 1 /\ s2' \in 0 .. 1
    BY <1>2, <1>3, <1>4, <1>5 DEF CountsOK, Arith
  <2> QED BY <2>1 DEF IInv, AdvanceRead, CStep, prodVars, TypeOK,
                     Slots, PPcs, CPcs, CLoop
<1>8. WriteIndexAt' /\ ReadIndexAt'
  <2>1. ReadLag = 1 /\ ReadLag' = 0
    BY <1>1, <1>2, ReaderAlone DEF CStep
  <2>2. read_index = (taken - 1) % BUFFER_SIZE
    BY <2>1 DEF IInv, ReadIndexAt
  <2>3. read_index' = ((taken - 1) + 1) % BUFFER_SIZE
    <3>1. taken - 1 \in Int
      BY <1>4 DEF Arith
    <3>2. read_index' = (read_index + 1) % BUFFER_SIZE
      BY DEF AdvanceRead
    <3> QED BY <2>2, <3>1, <3>2, ModAdvance
  <2>4. (taken - 1) + 1 = taken' - ReadLag'
    BY <1>4, <1>5, <2>1 DEF Arith, AdvanceRead
  <2> QED BY <1>3, <2>3, <2>4 DEF IInv, AdvanceRead, WriteIndexAt, ReadIndexAt
<1>9. RegisterFresh' /\ ItemsDrawn' /\ OpsLeft'
  <2>1. \A d \in Consumers : d # c => cpc[d] # "add"
    BY <1>1, OneReaderOnly DEF CStep, CInside
  <2>2. RegisterFresh'
    BY <2>1 DEF IInv, TypeOK, AdvanceRead, CStep, RegisterFresh
  <2>3. ItemsDrawn' /\ OpsLeft'
    BY DEF IInv, TypeOK, AdvanceRead, CStep, prodVars, ItemsDrawn, OpsLeft
  <2> QED BY <2>2, <2>3
<1> QED BY <1>6, <1>7, <1>8, <1>9 DEF IInv

\* The invariant survives sem_post(&s2).
LEMMA PostReadKeeps == ASSUME IInv, NEW c \in Consumers, PostRead(c) PROVE IInv'
<1> USE Parameters
<1>1. CStep(c, "post_s2", "post_e")
  BY DEF PostRead
<1>2. /\ FilledHeld' = FilledHeld
      /\ Reading' = Reading
      /\ Readers' = Readers - 1
      /\ ReadLag' = ReadLag
  BY <1>1, ConsumerMove DEF IInv, FilledHeld, Reading, Readers, ReadLag,
     CHolding, CReading, CInside, CLoop
<1>3. /\ EmptyHeld' = EmptyHeld
      /\ JustStored' = JustStored
      /\ Writers' = Writers
      /\ WriteLag' = WriteLag
  BY ProducersStay DEF PostRead, prodVars,
     EmptyHeld, JustStored, Writers, WriteLag
<1>4. CountsOK /\ CountsOK' /\ Arith
  BY CountsAreOK, Facts
<1>5. /\ e' = e /\ n' = n /\ s1' = s1 /\ s2' = s2 + 1
      /\ Len(stored)' = Len(stored) /\ taken' = taken
  BY DEF PostRead, IInv, TypeOK
<1>6. TokensConserved' /\ FilledMatches' /\ OneWriter' /\ OneReader'
  BY <1>2, <1>3, <1>4, <1>5
     DEF CountsOK, Arith, Pending, TokensConserved, FilledMatches, OneWriter, OneReader
<1>7. TypeOK'
  <2>1. /\ e' \in 0 .. BUFFER_SIZE /\ n' \in 0 .. BUFFER_SIZE
        /\ s1' \in 0 .. 1 /\ s2' \in 0 .. 1
    BY <1>2, <1>3, <1>4, <1>5 DEF CountsOK, Arith
  <2> QED BY <2>1 DEF IInv, PostRead, CStep, prodVars, TypeOK,
                     Slots, PPcs, CPcs, CLoop
<1>8. WriteIndexAt' /\ ReadIndexAt'
  BY <1>2, <1>3 DEF IInv, PostRead, WriteIndexAt, ReadIndexAt
<1>9. RegisterFresh' /\ ItemsDrawn' /\ OpsLeft'
  BY DEF IInv, TypeOK, PostRead, CStep, prodVars, RegisterFresh, ItemsDrawn,
         OpsLeft, PHolding, CLoop
<1> QED BY <1>6, <1>7, <1>8, <1>9 DEF IInv

\* The invariant survives sem_post(&e), after which the consumer starts over
\* or exits.
LEMMA PostEmptyKeeps == ASSUME IInv, NEW c \in Consumers, PostEmpty(c) PROVE IInv'
<1> USE Parameters
<1>1. CStep(c, "post_e", CLoop(cops[c] - 1))
  BY DEF PostEmpty
<1>2. /\ FilledHeld' = FilledHeld - 1
      /\ Reading' = Reading
      /\ Readers' = Readers
      /\ ReadLag' = ReadLag
  BY <1>1, ConsumerMove DEF IInv, FilledHeld, Reading, Readers, ReadLag,
     CHolding, CReading, CInside, CLoop
<1>3. /\ EmptyHeld' = EmptyHeld
      /\ JustStored' = JustStored
      /\ Writers' = Writers
      /\ WriteLag' = WriteLag
  BY ProducersStay DEF PostEmpty, prodVars,
     EmptyHeld, JustStored, Writers, WriteLag
<1>4. CountsOK /\ CountsOK' /\ Arith
  BY CountsAreOK, Facts
<1>5. /\ e' = e + 1 /\ n' = n /\ s1' = s1 /\ s2' = s2
      /\ Len(stored)' = Len(stored) /\ taken' = taken
  BY DEF PostEmpty, IInv, TypeOK
<1>6. TokensConserved' /\ FilledMatches' /\ OneWriter' /\ OneReader'
  BY <1>2, <1>3, <1>4, <1>5
     DEF CountsOK, Arith, Pending, TokensConserved, FilledMatches, OneWriter, OneReader
<1>7. TypeOK'
  <2>1. /\ e' \in 0 .. BUFFER_SIZE /\ n' \in 0 .. BUFFER_SIZE
        /\ s1' \in 0 .. 1 /\ s2' \in 0 .. 1
    BY <1>2, <1>3, <1>4, <1>5 DEF CountsOK, Arith
  <2>2. cops[c] > 0 /\ cops[c] \in Nat /\ cops' = [cops EXCEPT ![c] = @ - 1]
    BY <1>1 DEF IInv, OpsLeft, TypeOK, PostEmpty, CStep
  <2>3. cops' \in [Consumers -> Nat]
    BY <2>2 DEF IInv, TypeOK
  <2>4. cpc' \in [Consumers -> CPcs]
    BY <1>1 DEF IInv, TypeOK, CStep, CLoop, CPcs
  <2> QED BY <2>1, <2>3, <2>4 DEF IInv, PostEmpty, prodVars, TypeOK, Slots
<1>8. WriteIndexAt' /\ ReadIndexAt'
  BY <1>2, <1>3 DEF IInv, PostEmpty, WriteIndexAt, ReadIndexAt
<1>9. RegisterFresh' /\ ItemsDrawn' /\ OpsLeft'
  BY DEF IInv, TypeOK, PostEmpty, CStep, prodVars, RegisterFresh, ItemsDrawn,
         OpsLeft, PHolding, CLoop
<1> QED BY <1>6, <1>7, <1>8, <1>9 DEF IInv

\* The invariant survives pthread_create of a consumer.
LEMMA CreateConsumerKeeps == ASSUME IInv, NEW c \in Consumers, CreateConsumer(c) PROVE IInv'
<1> USE Parameters
<1>1. CStep(c, "none", CLoop(cops[c]))
  BY DEF CreateConsumer, sharedVars
<1>2. /\ FilledHeld' = FilledHeld
      /\ Reading' = Reading
      /\ Readers' = Readers
      /\ ReadLag' = ReadLag
  BY <1>1, ConsumerMove DEF IInv, FilledHeld, Reading, Readers, ReadLag,
     CHolding, CReading, CInside, CLoop
<1>3. /\ EmptyHeld' = EmptyHeld
      /\ JustStored' = JustStored
      /\ Writers' = Writers
      /\ WriteLag' = WriteLag
  BY ProducersStay DEF CreateConsumer, sharedVars, prodVars,
     EmptyHeld, JustStored, Writers, WriteLag
<1>4. CountsOK /\ CountsOK' /\ Arith
  BY CountsAreOK, Facts
<1>5. /\ e' = e /\ n' = n /\ s1' = s1 /\ s2' = s2
      /\ Len(stored)' = Len(stored) /\ taken' = taken
  BY DEF CreateConsumer, sharedVars, IInv, TypeOK
<1>6. TokensConserved' /\ FilledMatches' /\ OneWriter' /\ OneReader'
  BY <1>2, <1>3, <1>4, <1>5
     DEF CountsOK, Arith, Pending, TokensConserved, FilledMatches, OneWriter, OneReader
<1>7. TypeOK'
  <2>1. /\ e' \in 0 .. BUFFER_SIZE /\ n' \in 0 .. BUFFER_SIZE
        /\ s1' \in 0 .. 1 /\ s2' \in 0 .. 1
    BY <1>2, <1>3, <1>4, <1>5 DEF CountsOK, Arith
  <2> QED BY <2>1 DEF IInv, sharedVars, CreateConsumer, CStep, prodVars, TypeOK,
                     Slots, PPcs, CPcs, CLoop
<1>8. WriteIndexAt' /\ ReadIndexAt'
  BY <1>2, <1>3 DEF IInv, sharedVars, CreateConsumer, WriteIndexAt, ReadIndexAt
<1>9. RegisterFresh' /\ ItemsDrawn' /\ OpsLeft'
  BY DEF IInv, TypeOK, sharedVars, CreateConsumer, CStep, prodVars, RegisterFresh, ItemsDrawn,
         OpsLeft, PHolding, CLoop
<1> QED BY <1>6, <1>7, <1>8, <1>9 DEF IInv

\* Steps that leave everything but main alone keep the invariant.
quietVars == <<sharedVars, prodVars, consVars, stored, taken>>

\* A step of main that touches no thread and no shared variable keeps it.
LEMMA QuietKeeps ==
    ASSUME IInv, UNCHANGED quietVars,
           main' \in {"create", "join", "report", "done", "failed"}
    PROVE  IInv'
<1>1. /\ EmptyHeld' = EmptyHeld /\ JustStored' = JustStored
      /\ Writers' = Writers /\ WriteLag' = WriteLag
  BY ProducersStay DEF quietVars, prodVars, EmptyHeld, JustStored, Writers, WriteLag
<1>2. /\ FilledHeld' = FilledHeld /\ Reading' = Reading
      /\ Readers' = Readers /\ ReadLag' = ReadLag
  BY ConsumersStay DEF quietVars, consVars, FilledHeld, Reading, Readers, ReadLag
<1>3. TypeOK'
  BY DEF IInv, TypeOK, quietVars, sharedVars, prodVars, consVars
<1>4. TokensConserved' /\ FilledMatches' /\ OneWriter' /\ OneReader'
  BY <1>1, <1>2 DEF IInv, quietVars, sharedVars, TokensConserved, FilledMatches,
                    OneWriter, OneReader, Pending
<1>5. WriteIndexAt' /\ ReadIndexAt'
  BY <1>1, <1>2 DEF IInv, quietVars, sharedVars, WriteIndexAt, ReadIndexAt
<1>6. RegisterFresh' /\ ItemsDrawn' /\ OpsLeft'
  BY DEF IInv, quietVars, sharedVars, prodVars, consVars, RegisterFresh,
         ItemsDrawn, OpsLeft
<1> QED BY <1>3, <1>4, <1>5, <1>6 DEF IInv

\* Every step keeps the invariant.
LEMMA NextKeeps == IInv /\ [Next]_vars => IInv'
<1> SUFFICES ASSUME IInv, [Next]_vars PROVE IInv'
  OBVIOUS
<1>1. ASSUME NEW p \in Producers, Producer(p) PROVE IInv'
  BY <1>1, ProduceKeeps, WaitEmptyKeeps, WaitWriteKeeps, WriteKeeps,
     AdvanceWriteKeeps, PostWriteKeeps, PostFilledKeeps DEF Producer
<1>2. ASSUME NEW c \in Consumers, Consumer(c) PROVE IInv'
  BY <1>2, WaitFilledKeeps, WaitReadKeeps, LoadKeeps, AddKeeps,
     AdvanceReadKeeps, PostReadKeeps, PostEmptyKeeps DEF Consumer
<1>3. CASE Main
  <2>1. CASE JoinProducers \/ JoinConsumers \/ ReportAndExit
    BY <2>1, QuietKeeps DEF JoinProducers, JoinConsumers, ReportAndExit, quietVars
  <2> QED BY <1>3, <2>1, CreateProducerKeeps, CreateConsumerKeeps DEF Main
<1>4. CASE CreateFails
  BY <1>4, QuietKeeps DEF CreateFails, quietVars
<1>5. CASE Terminated \/ UNCHANGED vars
  <2>1. UNCHANGED quietVars /\ UNCHANGED main
    BY <1>5 DEF Terminated, vars, quietVars, sharedVars, prodVars, consVars
  <2> QED BY <2>1, QuietKeeps DEF IInv, TypeOK
<1> QED BY <1>1, <1>2, <1>3, <1>4, <1>5 DEF Next

-----------------------------------------------------------------------------
(* The refinement of TransactionQueue. *)

Contents == Window(transactions, BUFFER_SIZE, taken, Pending)

\* The pending slots form a sequence of Pending transactions.
LEMMA WindowFacts ==
    ASSUME IInv
    PROVE  /\ transactions \in [0 .. BUFFER_SIZE - 1 -> Int]
           /\ taken \in Nat /\ Pending \in Nat
           /\ Contents \in Seq(Int) /\ Len(Contents) = Pending
<1>1. /\ transactions \in [0 .. BUFFER_SIZE - 1 -> Int]
      /\ taken \in Nat
  BY DEF IInv, TypeOK, Slots
<1>2. Pending \in Nat
  <2>1. Arith /\ CountsOK
    BY Facts, CountsAreOK
  <2> QED BY <2>1 DEF Arith, CountsOK, Pending
<1>3. Contents \in Seq(Int)
  BY <1>1, <1>2, Parameters, WindowType DEF Contents
<1>4. Len(Contents) = Pending
  BY <1>2, WindowLen DEF Contents
<1> QED BY <1>1, <1>2, <1>3, <1>4

\* The store into the slot appends to the queue, which has room for it.
LEMMA WritePuts ==
    ASSUME IInv, NEW p \in Producers, Write(p)
    PROVE  \E x \in Amounts : Queue!Put(x)
<1>1. WriteLag = 0 /\ Pending < BUFFER_SIZE
  BY WriterAlone DEF Write, PStep
<1>2. Arith
  BY Facts
<1>3. write_index = (taken + Pending) % BUFFER_SIZE
  <2>1. taken + Pending = Len(stored) - WriteLag
    BY <1>1, <1>2 DEF Arith, Pending
  <2> QED BY <2>1 DEF IInv, WriteIndexAt
<1>4. item[p] \in Amounts /\ item[p] \in Int
  BY AmountsAreInt DEF IInv, ItemsDrawn, PHolding, Write, PStep
<1>5. /\ Len(stored)' = Len(stored) + 1
      /\ transactions' = [transactions EXCEPT ![write_index] = item[p]]
      /\ taken' = taken /\ deposit' = deposit
  BY DEF Write, IInv, TypeOK
<1>6. Pending' = Pending + 1
  BY <1>2, <1>5 DEF Pending, Arith
<1>7. Contents' = Append(Contents, item[p])
  <2>1. Window([transactions EXCEPT ![write_index] = item[p]],
               BUFFER_SIZE, taken, Pending + 1) = Append(Contents, item[p])
    <3> DEFINE new == [transactions EXCEPT ![write_index] = item[p]]
    <3>1. write_index \in 0 .. BUFFER_SIZE - 1
      BY DEF IInv, TypeOK, Slots
    <3>2. Stored(transactions, new, BUFFER_SIZE, write_index, item[p])
      BY <1>4, <3>1, WindowFacts DEF Stored, StoredIn
    <3> HIDE DEF new
    <3>3. taken \in Nat /\ Pending \in Nat /\ Pending < BUFFER_SIZE
      BY <1>1, WindowFacts
    <3>4. Grows(transactions, new, BUFFER_SIZE, taken, Pending, item[p])
      BY <1>3, <1>4, <3>2, <3>3, Parameters, WindowPut
    <3> QED BY <3>4 DEF new, Contents, Grows
  <2>2. Contents' = Window(transactions', BUFFER_SIZE, taken', Pending')
    BY DEF Contents
  <2> QED BY <1>5, <1>6, <2>1, <2>2
<1>8. Queue!Put(item[p])
  BY <1>1, <1>5, <1>7, WindowFacts DEF Queue!Put, Contents
<1> QED BY <1>4, <1>8

\* The update of deposit takes the oldest transaction of the queue.
LEMMA AddTakes ==
    ASSUME IInv, NEW c \in Consumers, Add(c)
    PROVE  Queue!Take
<1>1. ReadLag = 0 /\ Pending > 0
  BY ReaderAlone DEF Add, CStep
<1>2. Arith
  BY Facts
<1>3. read_index = taken % BUFFER_SIZE
  <2>1. taken - ReadLag = taken
    BY <1>1, <1>2 DEF Arith
  <2> QED BY <2>1 DEF IInv, ReadIndexAt
<1>4. /\ deposit' = deposit + transactions[taken % BUFFER_SIZE]
      /\ transactions' = transactions /\ taken' = taken + 1 /\ stored' = stored
  BY <1>3 DEF Add, CStep, IInv, RegisterFresh
<1>5. Pending' = Pending - 1
  BY <1>2, <1>4 DEF Pending, Arith
<1>6. /\ Contents # <<>>
      /\ Head(Contents) = transactions[taken % BUFFER_SIZE]
      /\ Tail(Contents) = Window(transactions, BUFFER_SIZE, taken + 1, Pending - 1)
  <2>1. /\ Contents # <<>> /\ Head(Contents) = transactions[taken % BUFFER_SIZE]
        /\ Shrinks(transactions, BUFFER_SIZE, taken, Pending)
    BY <1>1, WindowFacts, Parameters, WindowTake DEF Contents
  <2> QED BY <2>1 DEF Contents, Shrinks
<1>7. Contents' = Window(transactions', BUFFER_SIZE, taken', Pending')
  BY DEF Contents
<1>8. Contents' = Tail(Contents)
  BY <1>4, <1>5, <1>6, <1>7
<1> QED BY <1>4, <1>6, <1>8 DEF Queue!Take, Contents

\* Every step is a put, a take, or nothing to the queue.
LEMMA StepImplements ==
    IInv /\ [Next]_vars => [Queue!QueueNext]_Queue!queueVars
<1> SUFFICES ASSUME IInv, [Next]_vars PROVE [Queue!QueueNext]_Queue!queueVars
  OBVIOUS
<1>1. ASSUME UNCHANGED <<transactions, deposit, stored, taken>>
      PROVE  UNCHANGED Queue!queueVars
  BY <1>1 DEF Queue!queueVars, Window, Pending
<1>2. ASSUME NEW p \in Producers, Producer(p)
      PROVE  [Queue!QueueNext]_Queue!queueVars
  <2>1. CASE Write(p)
    BY <2>1, WritePuts DEF Queue!QueueNext
  <2>2. CASE ~Write(p)
    BY <1>1, <1>2, <2>2 DEF Producer, Produce, WaitEmpty, WaitWrite,
                            AdvanceWrite, PostWrite, PostFilled
  <2> QED BY <2>1, <2>2
<1>3. ASSUME NEW c \in Consumers, Consumer(c)
      PROVE  [Queue!QueueNext]_Queue!queueVars
  <2>1. CASE Add(c)
    BY <2>1, AddTakes DEF Queue!QueueNext
  <2>2. CASE ~Add(c)
    BY <1>1, <1>3, <2>2 DEF Consumer, WaitFilled, WaitRead, Load,
                            AdvanceRead, PostRead, PostEmpty
  <2> QED BY <2>1, <2>2
<1>4. CASE Main \/ CreateFails
  BY <1>1, <1>4 DEF Main, CreateFails, CreateProducer, CreateConsumer,
                    JoinProducers, JoinConsumers, ReportAndExit, sharedVars
<1>5. CASE Terminated \/ UNCHANGED vars
  BY <1>1, <1>5 DEF Terminated, vars, sharedVars, prodVars, consVars
<1> QED BY <1>2, <1>3, <1>4, <1>5 DEF Next

\* At the beginning the queue is empty.
LEMMA InitImplements == Init => Queue!QueueInit
<1> SUFFICES ASSUME Init PROVE Queue!QueueInit
  OBVIOUS
<1>1. Contents \in Seq(Int) /\ Len(Contents) = Pending
  BY InitIInv, WindowFacts
<1>2. Pending = 0
  BY DEF Init, Pending
<1>3. Contents = <<>>
  BY <1>1, <1>2, EmptySeq
<1> QED BY <1>3 DEF Init, Queue!QueueInit, Contents

-----------------------------------------------------------------------------
(* The deposit that main prints. *)

\* The operations behind every thread: those of its total that are not left.
OpsDone(threads, left, total) == {d \in threads \X (1 .. total) : d[2] > left[d[1]]}

StoresDone == Cardinality(OpsDone(Producers, pops, OPS_PER_PRODUCER))
TakesDone  == Cardinality(OpsDone(Consumers, cops, OPS_PER_CONSUMER))

\* Taken, and the operation not yet over.
CTaken == {"advance", "post_s2", "post_e"}

\* Who has reached the exit of its loop has no operation left.
OpsBounded ==
    /\ \A p \in Producers : pops[p] <= OPS_PER_PRODUCER /\ (ppc[p] = "exit" => pops[p] = 0)
    /\ \A c \in Consumers : cops[c] <= OPS_PER_CONSUMER /\ (cpc[c] = "exit" => cops[c] = 0)

StoresCounted == Len(stored) = StoresDone + JustStored
TakesCounted  == taken = TakesDone + ConsumersAt(CTaken)

\* Main joins the producers, then the consumers.
Joined == /\ main \in {"join", "report", "done"} => \A p \in Producers : ppc[p] = "exit"
          /\ main \in {"report", "done"} => \A c \in Consumers : cpc[c] = "exit"

\* The array holds what was stored and not taken, at its positions.
Held == \A i \in taken + 1 .. Len(stored) : transactions[(i - 1) % BUFFER_SIZE] = stored[i]

\* balance is that of the deposit after each of the first count transactions.
Balances(balance, s, count) ==
    /\ balance \in [0 .. count -> Int] /\ balance[0] = INITIAL_DEPOSIT
    /\ \A i \in 1 .. count : balance[i] = balance[i - 1] + s[i]

Balanced == \E balance \in [0 .. taken -> Int] :
               Balances(balance, stored, taken) /\ deposit = balance[taken]

\* With IInv, inductive: operations are counted and deposit is up to date.
DInv == OpsBounded /\ StoresCounted /\ TakesCounted /\ Joined /\ Held /\ Balanced

\* Operations left are natural numbers, so those done are finitely many; a
\* thread that ends one adds one.
LEMMA OneMoreDone ==
    ASSUME NEW S, IsFiniteSet(S), NEW total \in Nat, NEW a \in S,
           NEW left \in [S -> Nat], left[a] \in 1 .. total
    PROVE  Cardinality(OpsDone(S, [left EXCEPT ![a] = @ - 1], total)) =
               Cardinality(OpsDone(S, left, total)) + 1
<1> DEFINE D == OpsDone(S, left, total)
           new == [left EXCEPT ![a] = @ - 1]
           d == <<a, left[a]>>
<1>1. IsFiniteSet(D)
  <2>1. IsFiniteSet(1 .. total)
    BY FS_Interval
  <2>2. IsFiniteSet(S \X (1 .. total))
    BY <2>1, FS_Product
  <2> QED BY <2>2, FS_Subset, D \subseteq S \X (1 .. total) DEF OpsDone
<1>2. d \notin D
  BY DEF OpsDone
<1>3. OpsDone(S, new, total) = D \cup {d}
  <2>1. \A x \in S, i \in 1 .. total :
          i > new[x] <=> i > left[x] \/ (x = a /\ i = left[a])
    OBVIOUS
  <2> QED BY <2>1 DEF OpsDone
<1> QED BY <1>1, <1>2, <1>3, FS_AddElement

\* None is done when all are left, and all when none is left.
LEMMA NoneOrAllDone ==
    ASSUME NEW S, IsFiniteSet(S), NEW total \in Nat, NEW left \in [S -> Nat]
    PROVE  /\ Cardinality(OpsDone(S, left, total)) \in Nat
           /\ (\A x \in S : left[x] = total) => Cardinality(OpsDone(S, left, total)) = 0
           /\ (\A x \in S : left[x] = 0) =>
                Cardinality(OpsDone(S, left, total)) = Cardinality(S) * total
<1> DEFINE D == OpsDone(S, left, total)
           All == S \X (1 .. total)
<1>1. IsFiniteSet(1 .. total) /\ Cardinality(1 .. total) = total
  BY FS_Interval
<1>2. IsFiniteSet(All) /\ Cardinality(All) = Cardinality(S) * total
  BY <1>1, FS_Product
<1>3. Cardinality(D) \in Nat
  BY <1>2, FS_Subset, FS_CardinalityType, D \subseteq All DEF OpsDone
<1>4. (\A x \in S : left[x] = total) => D = {}
  BY DEF OpsDone
<1>5. (\A x \in S : left[x] = 0) => D = All
  BY DEF OpsDone
<1> QED BY <1>2, <1>3, <1>4, <1>5, FS_EmptySet

\* The parameters of this part.
LEMMA Totals ==
    /\ INITIAL_DEPOSIT \in Int
    /\ OPS_PER_PRODUCER \in Nat /\ OPS_PER_CONSUMER \in Nat
    /\ Cardinality(Producers) \in Nat /\ Cardinality(Consumers) \in Nat
    /\ OPS_PER_CONSUMER * Cardinality(Consumers) = OPS_PER_PRODUCER * Cardinality(Producers)
BY BufferAssumption, FS_CardinalityType DEF BufferAssumption

\* A step of a producer keeps the count of what is stored.
LEMMA StoresKeep ==
    ASSUME IInv, IInv', OpsBounded, StoresCounted, NEW p \in Producers, Producer(p)
    PROVE  StoresCounted' /\ \A q \in Producers :
               pops'[q] <= OPS_PER_PRODUCER /\ (ppc'[q] = "exit" => pops'[q] = 0)
<1>0. TypeOK /\ OpsLeft /\ JustStored \in Nat /\ StoresDone \in Nat /\ Len(stored) \in Nat
  <2>1. TypeOK /\ OpsLeft
    BY DEF IInv
  <2>2. pops \in [Producers -> Nat] /\ Len(stored) \in Nat
    BY <2>1 DEF TypeOK
  <2>3. StoresDone \in Nat
    BY <2>2, NoneOrAllDone, Parameters, Totals DEF StoresDone
  <2> QED BY <2>1, <2>2, <2>3, CountsAreNat DEF JustStored
<1>1. CASE Produce(p) \/ WaitEmpty(p) \/ WaitWrite(p) \/ AdvanceWrite(p) \/ PostWrite(p)
  <2>1. PICK from \in PPcs, to \in PPcs : /\ PStep(p, from, to) /\ to # "exit"
                                          /\ from \in PStored <=> to \in PStored
    BY <1>1 DEF Produce, WaitEmpty, WaitWrite, AdvanceWrite, PostWrite, PPcs, PStored
  <2>2. JustStored' = JustStored
    BY <1>0, <2>1, ProducerMove DEF JustStored
  <2>3. pops' = pops /\ stored' = stored
    BY <1>1 DEF Produce, WaitEmpty, WaitWrite, AdvanceWrite, PostWrite
  <2>4. StoresDone' = StoresDone
    BY <2>3 DEF StoresDone, OpsDone
  <2> QED BY <1>0, <2>1, <2>2, <2>3, <2>4 DEF StoresCounted, OpsBounded, PStep, TypeOK
<1>2. CASE Write(p)
  <2>1. PStep(p, "write", "advance") /\ pops' = pops /\ Len(stored') = Len(stored) + 1
    BY <1>0, <1>2 DEF Write, TypeOK
  <2>2. JustStored' = JustStored + 1
    BY <1>0, <2>1, ProducerMove DEF JustStored, PStored
  <2>3. StoresDone' = StoresDone
    BY <2>1 DEF StoresDone, OpsDone
  <2> QED BY <1>0, <2>1, <2>2, <2>3 DEF StoresCounted, OpsBounded, PStep, TypeOK
<1>3. CASE PostFilled(p)
  <2>1. /\ PStep(p, "post_n", PLoop(pops[p] - 1)) /\ pops' = [pops EXCEPT ![p] = @ - 1]
        /\ stored' = stored
    BY <1>3 DEF PostFilled
  <2>2. pops[p] \in 1 .. OPS_PER_PRODUCER /\ pops \in [Producers -> Nat]
    <3>1. pops \in [Producers -> Nat]
      BY <1>0 DEF TypeOK
    <3>2. pops[p] > 0
      BY <1>0, <2>1 DEF OpsLeft, PStep
    <3>3. pops[p] <= OPS_PER_PRODUCER
      BY DEF OpsBounded
    <3> QED BY <3>1, <3>2, <3>3, Totals
  <2>3. JustStored' = JustStored - 1
    BY <1>0, <2>1, ProducerMove DEF JustStored, PStored, PLoop
  <2>4. StoresDone' = StoresDone + 1
    BY <2>1, <2>2, OneMoreDone, Parameters, Totals DEF StoresDone
  <2>5. \A q \in Producers : pops'[q] <= OPS_PER_PRODUCER /\ (ppc'[q] = "exit" => pops'[q] = 0)
    BY <1>0, <2>1, <2>2, Totals DEF OpsBounded, PStep, PLoop, TypeOK
  <2> QED BY <1>0, <2>1, <2>3, <2>4, <2>5 DEF StoresCounted
<1> QED BY <1>1, <1>2, <1>3 DEF Producer

\* A step of a consumer keeps the count of what is taken.
LEMMA TakesKeep ==
    ASSUME IInv, IInv', OpsBounded, TakesCounted, NEW c \in Consumers, Consumer(c)
    PROVE  TakesCounted' /\ \A q \in Consumers :
               cops'[q] <= OPS_PER_CONSUMER /\ (cpc'[q] = "exit" => cops'[q] = 0)
<1>0. TypeOK /\ OpsLeft /\ ConsumersAt(CTaken) \in Nat /\ TakesDone \in Nat /\ taken \in Nat
  BY CountsAreNat, NoneOrAllDone, Parameters, Totals DEF IInv, TakesDone, TypeOK
<1>1. CASE WaitFilled(c) \/ WaitRead(c) \/ Load(c) \/ AdvanceRead(c) \/ PostRead(c)
  <2>1. PICK from \in CPcs, to \in CPcs : /\ CStep(c, from, to) /\ to # "exit"
                                          /\ from \in CTaken <=> to \in CTaken
    BY <1>1 DEF WaitFilled, WaitRead, Load, AdvanceRead, PostRead, CPcs, CTaken
  <2>2. ConsumersAt(CTaken)' = ConsumersAt(CTaken)
    BY <1>0, <2>1, ConsumerMove
  <2>3. cops' = cops /\ taken' = taken
    BY <1>1 DEF WaitFilled, WaitRead, Load, AdvanceRead, PostRead
  <2>4. TakesDone' = TakesDone
    BY <2>3 DEF TakesDone, OpsDone
  <2> QED BY <1>0, <2>1, <2>2, <2>3, <2>4 DEF TakesCounted, OpsBounded, CStep, TypeOK
<1>2. CASE Add(c)
  <2>1. CStep(c, "add", "advance") /\ cops' = cops /\ taken' = taken + 1
    BY <1>2 DEF Add
  <2>2. ConsumersAt(CTaken)' = ConsumersAt(CTaken) + 1
    BY <1>0, <2>1, ConsumerMove DEF CTaken
  <2>3. TakesDone' = TakesDone
    BY <2>1 DEF TakesDone, OpsDone
  <2> QED BY <1>0, <2>1, <2>2, <2>3 DEF TakesCounted, OpsBounded, CStep, TypeOK
<1>3. CASE PostEmpty(c)
  <2>1. /\ CStep(c, "post_e", CLoop(cops[c] - 1)) /\ cops' = [cops EXCEPT ![c] = @ - 1]
        /\ taken' = taken
    BY <1>3 DEF PostEmpty
  <2>2. cops[c] \in 1 .. OPS_PER_CONSUMER /\ cops \in [Consumers -> Nat]
    <3>1. cops \in [Consumers -> Nat]
      BY <1>0 DEF TypeOK
    <3>2. cops[c] > 0
      BY <1>0, <2>1 DEF OpsLeft, CStep
    <3>3. cops[c] <= OPS_PER_CONSUMER
      BY DEF OpsBounded
    <3> QED BY <3>1, <3>2, <3>3, Totals
  <2>3. ConsumersAt(CTaken)' = ConsumersAt(CTaken) - 1
    BY <1>0, <2>1, ConsumerMove DEF CTaken, CLoop
  <2>4. TakesDone' = TakesDone + 1
    BY <2>1, <2>2, OneMoreDone, Parameters, Totals DEF TakesDone
  <2>5. \A q \in Consumers : cops'[q] <= OPS_PER_CONSUMER /\ (cpc'[q] = "exit" => cops'[q] = 0)
    BY <1>0, <2>1, <2>2, Totals DEF OpsBounded, CStep, CLoop, TypeOK
  <2> QED BY <1>0, <2>1, <2>3, <2>4, <2>5 DEF TakesCounted
<1> QED BY <1>1, <1>2, <1>3 DEF Consumer

\* The arithmetic of the positions of what is pending.
LEMMA Positions ==
    ASSUME IInv
    PROVE  /\ taken \in Nat /\ Len(stored) \in Nat /\ taken <= Len(stored)
           /\ Len(stored) <= taken + BUFFER_SIZE
<1>1. Arith /\ CountsOK
  BY Facts, CountsAreOK
<1>2. EmptyHeld = JustStored + ProducersAt({"wait_s1", "write"})
  <2>1. PHolding = PStored \cup {"wait_s1", "write"} /\ PStored \cap {"wait_s1", "write"} = {}
    BY DEF PHolding, PStored
  <2> QED BY <2>1, CountSplit, Parameters DEF ProducersAt, EmptyHeld, JustStored
<1>3. FilledHeld = Reading + ConsumersAt(CTaken)
  <2>1. CHolding = CReading \cup CTaken /\ CReading \cap CTaken = {}
    BY DEF CHolding, CReading, CTaken
  <2> QED BY <2>1, CountSplit, Parameters DEF ConsumersAt, FilledHeld, Reading
<1>4. ProducersAt({"wait_s1", "write"}) \in Nat /\ ConsumersAt(CTaken) \in Nat
  BY CountsAreNat
<1>5. n + JustStored + Reading <= BUFFER_SIZE /\ 0 <= n + JustStored + Reading
  <2> DEFINE a == ProducersAt({"wait_s1", "write"})
             b == ConsumersAt(CTaken)
  <2>1. a \in Nat /\ b \in Nat /\ EmptyHeld = JustStored + a /\ FilledHeld = Reading + b
    BY <1>2, <1>3, <1>4
  <2> HIDE DEF a, b
  <2> QED BY <1>1, <2>1 DEF Arith, CountsOK
<1>6. /\ taken \in Nat /\ Len(stored) \in Nat
      /\ Len(stored) - taken = n + JustStored + Reading
  BY <1>1 DEF Arith
<1>7. n + JustStored + Reading \in Int /\ BUFFER_SIZE \in Int
  BY <1>1, Parameters DEF Arith, CountsOK
<1> QED BY <1>5, <1>6, <1>7

\* A store leaves what is pending in place, and goes to the position after it.
LEMMA WriteHolds == ASSUME IInv, Held, NEW p \in Producers, Write(p) PROVE Held'
<1>1. WriteLag = 0 /\ Pending < BUFFER_SIZE
  BY WriterAlone DEF Write, PStep
<1>2. /\ taken \in Nat /\ Len(stored) \in Nat /\ taken <= Len(stored)
      /\ Len(stored) < taken + BUFFER_SIZE /\ BUFFER_SIZE \in Nat \ {0}
  BY <1>1, Positions, Parameters DEF Pending
<1>3. write_index = Len(stored) % BUFFER_SIZE
  <2>1. Len(stored) - WriteLag = Len(stored)
    BY <1>1, <1>2
  <2> QED BY <2>1 DEF IInv, WriteIndexAt
<1>4. /\ transactions \in [Slots -> Int] /\ stored \in Seq(Int) /\ item[p] \in Int
      /\ write_index \in Slots
  BY DEF IInv, TypeOK
<1>5. /\ transactions' = [transactions EXCEPT ![write_index] = item[p]]
      /\ stored' = Append(stored, item[p]) /\ taken' = taken
  BY DEF Write
<1>6. /\ Len(stored') = Len(stored) + 1 /\ stored'[Len(stored) + 1] = item[p]
      /\ \A i \in 1 .. Len(stored) : stored'[i] = stored[i]
  BY <1>4, <1>5, AppendFacts
<1>7. ASSUME NEW i \in taken + 1 .. Len(stored)
      PROVE  transactions'[(i - 1) % BUFFER_SIZE] = stored'[i]
  <2>1. i - 1 \in Int /\ i - 1 < Len(stored) /\ Len(stored) < (i - 1) + BUFFER_SIZE
    BY <1>2
  <2>2. (i - 1) % BUFFER_SIZE # write_index /\ (i - 1) % BUFFER_SIZE \in Slots
    <3>1. (i - 1) % BUFFER_SIZE # Len(stored) % BUFFER_SIZE
      <4> DEFINE j == i - 1
                 l == Len(stored)
      <4>1. j \in Int /\ l \in Int /\ j < l /\ l < j + BUFFER_SIZE
        BY <1>2, <2>1
      <4> HIDE DEF j, l
      <4>2. j % BUFFER_SIZE # l % BUFFER_SIZE
        BY <1>2, <4>1, ModDistinct
      <4> QED BY <4>2 DEF j, l
    <3>2. (i - 1) % BUFFER_SIZE \in 0 .. BUFFER_SIZE - 1
      BY <1>2, <2>1, ModDef
    <3> QED BY <1>3, <3>1, <3>2 DEF Slots
  <2>3. transactions'[(i - 1) % BUFFER_SIZE] = transactions[(i - 1) % BUFFER_SIZE]
    BY <1>4, <1>5, <2>2
  <2> QED BY <1>2, <1>6, <2>3 DEF Held
<1>8. transactions'[write_index] = item[p]
  BY <1>4, <1>5
<1>9. ASSUME NEW i \in taken + 1 .. Len(stored) + 1, i \notin taken + 1 .. Len(stored)
      PROVE  transactions'[(i - 1) % BUFFER_SIZE] = stored'[i]
  <2>1. i = Len(stored) + 1 /\ i - 1 = Len(stored)
    BY <1>2, <1>9
  <2> QED BY <1>3, <1>6, <1>8, <2>1
<1> QED BY <1>5, <1>6, <1>7, <1>9 DEF Held

\* What is stored does not change what was taken, so no balance either.
LEMMA WriteBalances ==
    ASSUME IInv, Balanced, NEW p \in Producers, Write(p)
    PROVE  Balanced'
<1>1. taken \in Nat /\ Len(stored) \in Nat /\ taken <= Len(stored)
  BY Positions
<1>2. stored' = Append(stored, item[p]) /\ taken' = taken /\ deposit' = deposit
  BY DEF Write
<1>3. \A i \in 1 .. taken : stored'[i] = stored[i]
  BY <1>1, <1>2, AppendFacts DEF IInv, TypeOK
<1> QED BY <1>2, <1>3 DEF Balanced, Balances

\* A take adds the oldest pending transaction to the deposit.
LEMMA AddBalances ==
    ASSUME IInv, Held, Balanced, NEW c \in Consumers, Add(c)
    PROVE  Held' /\ Balanced'
<1>1. ReadLag = 0 /\ Pending > 0
  BY ReaderAlone DEF Add, CStep
<1>2. /\ taken \in Nat /\ Len(stored) \in Nat /\ taken + 1 <= Len(stored)
      /\ stored \in Seq(Int) /\ deposit \in Int
  BY <1>1, Positions DEF Pending, IInv, TypeOK
<1>3. read_index = taken % BUFFER_SIZE
  <2>1. taken - ReadLag = taken
    BY <1>1, <1>2
  <2> QED BY <2>1 DEF IInv, ReadIndexAt
<1>4. /\ deposit' = deposit + transactions[taken % BUFFER_SIZE]
      /\ transactions' = transactions /\ taken' = taken + 1 /\ stored' = stored
  BY <1>3 DEF Add, CStep, IInv, RegisterFresh
<1>5. transactions[taken % BUFFER_SIZE] = stored[taken + 1] /\ stored[taken + 1] \in Int
  <2>1. taken + 1 \in taken + 1 .. Len(stored) /\ (taken + 1) - 1 = taken
    BY <1>2
  <2>2. stored[taken + 1] \in Int
    BY <1>2
  <2> QED BY <2>1, <2>2 DEF Held
<1>6. Held'
  BY <1>2, <1>4 DEF Held
<1>7. PICK balance \in [0 .. taken -> Int] :
         Balances(balance, stored, taken) /\ deposit = balance[taken]
  BY DEF Balanced
<1> DEFINE more == [i \in 0 .. taken + 1 |->
                      IF i = taken + 1 THEN deposit + stored[taken + 1] ELSE balance[i]]
<1>8. more \in [0 .. taken + 1 -> Int]
  BY <1>2, <1>5
<1>9. more[0] = INITIAL_DEPOSIT /\ more[taken + 1] = deposit + stored[taken + 1]
  BY <1>2, <1>7 DEF Balances
<1>10. ASSUME NEW i \in 1 .. taken + 1
       PROVE  more[i] = more[i - 1] + stored[i]
  <2>1. CASE i = taken + 1
    BY <1>2, <1>7, <2>1
  <2>2. CASE i # taken + 1
    <3>1. i \in 1 .. taken /\ i - 1 \in 0 .. taken
      BY <1>2, <2>2
    <3>2. more[i] = balance[i] /\ more[i - 1] = balance[i - 1]
      BY <1>2, <3>1
    <3> QED BY <1>7, <3>1, <3>2 DEF Balances
  <2> QED BY <2>1, <2>2
<1>11. Balances(more, stored, taken + 1) /\ deposit' = more[taken + 1]
  <2> HIDE DEF more
  <2> QED BY <1>4, <1>5, <1>8, <1>9, <1>10 DEF Balances
<1>12. Balanced'
  <2> HIDE DEF more
  <2> QED BY <1>4, <1>8, <1>11 DEF Balanced
<1> QED BY <1>6, <1>12

\* What neither stores nor takes leaves the array, the balances and the
\* counts of the other side alone.
LEMMA Rests ==
    ASSUME Held, Balanced, UNCHANGED <<transactions, deposit, stored, taken>>
    PROVE  Held' /\ Balanced'
BY DEF Held, Balanced, Balances

LEMMA ProducersRest ==
    ASSUME StoresCounted, UNCHANGED <<pops, stored>>, JustStored' = JustStored
    PROVE  StoresCounted'
BY DEF StoresCounted, StoresDone, OpsDone

LEMMA ConsumersRest ==
    ASSUME TakesCounted, UNCHANGED <<cops, taken>>, ConsumersAt(CTaken)' = ConsumersAt(CTaken)
    PROVE  TakesCounted'
BY DEF TakesCounted, TakesDone, OpsDone

\* At the start nothing is done.
LEMMA InitDInv == Init => DInv
<1> SUFFICES ASSUME Init PROVE DInv
  OBVIOUS
<1>1. OpsBounded /\ Joined
  BY Totals DEF Init, OpsBounded, Joined
<1>2. StoresCounted
  <2>1. JustStored = 0
    BY CountNone DEF Init, JustStored, ProducersAt, PStored
  <2>2. /\ pops \in [Producers -> Nat] /\ \A p \in Producers : pops[p] = OPS_PER_PRODUCER
        /\ Len(stored) = 0
    BY Totals DEF Init
  <2>3. StoresDone = 0
    BY <2>2, NoneOrAllDone, Parameters, Totals DEF StoresDone
  <2> QED BY <2>1, <2>2, <2>3 DEF StoresCounted
<1>3. TakesCounted
  <2>1. ConsumersAt(CTaken) = 0
    BY CountNone DEF Init, ConsumersAt, CTaken
  <2>2. /\ cops \in [Consumers -> Nat] /\ \A c \in Consumers : cops[c] = OPS_PER_CONSUMER
        /\ taken = 0
    BY Totals DEF Init
  <2>3. TakesDone = 0
    BY <2>2, NoneOrAllDone, Parameters, Totals DEF TakesDone
  <2> QED BY <2>1, <2>2, <2>3 DEF TakesCounted
<1>4. Held
  BY DEF Init, Held
<1>5. Balanced
  <2>1. /\ [i \in 0 .. 0 |-> INITIAL_DEPOSIT] \in [0 .. taken -> Int]
        /\ Balances([i \in 0 .. 0 |-> INITIAL_DEPOSIT], stored, taken)
        /\ deposit = [i \in 0 .. 0 |-> INITIAL_DEPOSIT][taken]
    BY Totals DEF Init, Balances
  <2> QED BY <2>1 DEF Balanced
<1> QED BY <1>1, <1>2, <1>3, <1>4, <1>5 DEF DInv

\* A producer's step keeps it.
LEMMA ProducerKeepsD ==
    ASSUME IInv, IInv', DInv, NEW p \in Producers, Producer(p)
    PROVE  DInv'
<1>0. OpsBounded /\ StoresCounted /\ TakesCounted /\ Joined /\ Held /\ Balanced
  BY DEF DInv
<1>1. UNCHANGED <<cpc, cops, taken, main>>
  BY DEF Producer, Produce, WaitEmpty, WaitWrite, Write, AdvanceWrite, PostWrite,
         PostFilled, consVars
<1>2. OpsBounded' /\ StoresCounted'
  BY <1>0, <1>1, StoresKeep DEF OpsBounded
<1>3. TakesCounted'
  BY <1>0, <1>1, ConsumersRest, ConsumersStay
<1>4. ppc[p] # "exit"
  BY DEF Producer, Produce, WaitEmpty, WaitWrite, Write, AdvanceWrite, PostWrite,
         PostFilled, PStep
<1>5. Joined'
  BY <1>0, <1>1, <1>4 DEF Joined
<1>6. Held' /\ Balanced'
  <2>1. CASE Write(p)
    BY <1>0, <2>1, WriteHolds, WriteBalances
  <2>2. CASE ~Write(p)
    <3>1. UNCHANGED <<transactions, deposit, stored, taken>>
      BY <2>2 DEF Producer, Produce, WaitEmpty, WaitWrite, AdvanceWrite, PostWrite, PostFilled
    <3> QED BY <1>0, <3>1, Rests
  <2> QED BY <2>1, <2>2
<1> QED BY <1>2, <1>3, <1>5, <1>6 DEF DInv

\* A consumer's step keeps it.
LEMMA ConsumerKeepsD ==
    ASSUME IInv, IInv', DInv, NEW c \in Consumers, Consumer(c)
    PROVE  DInv'
<1>0. OpsBounded /\ StoresCounted /\ TakesCounted /\ Joined /\ Held /\ Balanced
  BY DEF DInv
<1>1. UNCHANGED <<ppc, pops, stored, main>>
  BY DEF Consumer, WaitFilled, WaitRead, Load, Add, AdvanceRead, PostRead, PostEmpty,
         prodVars
<1>2. OpsBounded' /\ TakesCounted'
  BY <1>0, <1>1, TakesKeep DEF OpsBounded
<1>3. StoresCounted'
  BY <1>0, <1>1, ProducersRest, ProducersStay DEF JustStored
<1>4. cpc[c] # "exit"
  BY DEF Consumer, WaitFilled, WaitRead, Load, Add, AdvanceRead, PostRead, PostEmpty, CStep
<1>5. Joined'
  BY <1>0, <1>1, <1>4 DEF Joined
<1>6. Held' /\ Balanced'
  <2>1. CASE Add(c)
    BY <1>0, <2>1, AddBalances
  <2>2. CASE ~Add(c)
    <3>1. UNCHANGED <<transactions, deposit, stored, taken>>
      BY <2>2 DEF Consumer, WaitFilled, WaitRead, Load, AdvanceRead, PostRead, PostEmpty
    <3> QED BY <1>0, <3>1, Rests
  <2> QED BY <2>1, <2>2
<1> QED BY <1>2, <1>3, <1>5, <1>6 DEF DInv

\* Main's steps keep it.
LEMMA MainKeepsD ==
    ASSUME IInv, IInv', DInv, Main \/ CreateFails
    PROVE  DInv'
<1>0. OpsBounded /\ StoresCounted /\ TakesCounted /\ Joined /\ Held /\ Balanced /\ TypeOK
  BY DEF DInv, IInv
<1>1. /\ UNCHANGED <<transactions, deposit, stored, taken, pops, cops>>
      /\ ppc \in [Producers -> PPcs] /\ cpc \in [Consumers -> CPcs]
      /\ pops \in [Producers -> Nat] /\ cops \in [Consumers -> Nat]
  BY <1>0 DEF TypeOK, Main, CreateFails, CreateProducer, CreateConsumer, JoinProducers, JoinConsumers,
         ReportAndExit, sharedVars, prodVars, consVars
<1>2. Held' /\ Balanced'
  BY <1>0, <1>1, Rests
<1>3. CASE \E p \in Producers : CreateProducer(p)
  <2>1. PICK p \in Producers : CreateProducer(p)
    BY <1>3
  <2>2. main = "create" /\ PStep(p, "none", PLoop(pops[p])) /\ UNCHANGED <<main, cpc>>
    BY <2>1 DEF CreateProducer, consVars
  <2>3. JustStored' = JustStored
    BY <1>0, <2>2, ProducerMove DEF JustStored, PStored, PLoop
  <2>4. OpsBounded'
    BY <1>0, <1>1, <2>2 DEF OpsBounded, PStep, PLoop
  <2>5. Joined'
    BY <2>2 DEF Joined
  <2> QED BY <1>0, <1>1, <1>2, <2>2, <2>3, <2>4, <2>5, ProducersRest, ConsumersRest,
             ConsumersStay DEF DInv
<1>4. CASE \E c \in Consumers : CreateConsumer(c)
  <2>1. PICK c \in Consumers : CreateConsumer(c)
    BY <1>4
  <2>2. main = "create" /\ CStep(c, "none", CLoop(cops[c])) /\ UNCHANGED <<main, ppc>>
    BY <2>1 DEF CreateConsumer, prodVars
  <2>3. ConsumersAt(CTaken)' = ConsumersAt(CTaken)
    BY <1>0, <2>2, ConsumerMove DEF CTaken, CLoop
  <2>4. OpsBounded'
    BY <1>0, <1>1, <2>2 DEF OpsBounded, CStep, CLoop
  <2>5. Joined'
    BY <2>2 DEF Joined
  <2> QED BY <1>0, <1>1, <1>2, <2>2, <2>3, <2>4, <2>5, ProducersRest, ConsumersRest,
             ProducersStay DEF DInv, JustStored
<1>5. CASE JoinProducers \/ JoinConsumers \/ ReportAndExit \/ CreateFails
  <2>1. UNCHANGED <<ppc, cpc>>
    BY <1>5 DEF JoinProducers, JoinConsumers, ReportAndExit, CreateFails, prodVars, consVars
  <2>2. OpsBounded' /\ Joined'
    BY <1>0, <1>1, <1>5, <2>1
       DEF OpsBounded, Joined, JoinProducers, JoinConsumers, ReportAndExit, CreateFails
  <2> QED BY <1>0, <1>1, <1>2, <2>1, <2>2, ProducersRest, ConsumersRest, ProducersStay,
             ConsumersStay DEF DInv, JustStored
<1> QED BY <1>3, <1>4, <1>5 DEF Main

\* SumOf is what its equation says, as its values are determined one by one:
\* at the least index where they differed, those before it agree.
LEMMA SumIsLastBalance ==
    ASSUME NEW s \in Seq(Int), NEW balance \in [0 .. Len(s) -> Int],
           Balances(balance, s, Len(s)), INITIAL_DEPOSIT \in Int
    PROVE  balance[Len(s)] = INITIAL_DEPOSIT + SumOf(s)
<1> DEFINE Sums(f) == f = [i \in 0 .. Len(s) |-> IF i = 0 THEN 0 ELSE f[i-1] + s[i]]
           g == [i \in 0 .. Len(s) |-> balance[i] - INITIAL_DEPOSIT]
           f == CHOOSE h : Sums(h)
<1>0. Len(s) \in Nat /\ \A i \in 1 .. Len(s) : s[i] \in Int
  OBVIOUS
<1>1. Sums(g)
  <2>1. ASSUME NEW i \in 0 .. Len(s)
        PROVE  g[i] = IF i = 0 THEN 0 ELSE g[i-1] + s[i]
    <3>1. CASE i = 0
      BY <1>0, <3>1 DEF Balances
    <3>2. CASE i # 0
      <4>1. i \in 1 .. Len(s) /\ i - 1 \in 0 .. Len(s) /\ s[i] \in Int
        BY <1>0, <3>2
      <4>2. balance[i] = balance[i - 1] + s[i] /\ balance[i] \in Int /\ balance[i - 1] \in Int
        BY <4>1 DEF Balances
      <4> QED BY <3>2, <4>1, <4>2
    <3> QED BY <3>1, <3>2
  <2> QED BY <2>1
<1>2. Sums(f)
  <2> HIDE DEF g, Sums
  <2> QED BY <1>1
<1>3. SumOf(s) = f[Len(s)]
  BY DEF SumOf
<1> HIDE DEF f
<1>4. \A i \in 0 .. Len(s) : f[i] = g[i]
  <2> DEFINE Differ == {i \in 0 .. Len(s) : f[i] # g[i]}
  <2> SUFFICES ASSUME Differ # {} PROVE FALSE
    OBVIOUS
  <2>1. PICK i \in Differ : \A j \in Differ : i <= j
    <3>1. Differ \in SUBSET Nat
      BY <1>0
    <3> HIDE DEF Differ
    <3> QED BY <3>1, LeastNat
  <2>2. CASE i = 0
    BY <1>0, <1>1, <1>2, <2>2
  <2>3. CASE i # 0
    <3>1. i \in 0 .. Len(s) /\ i - 1 \in 0 .. Len(s) /\ ~(i <= i - 1) /\ f[i] # g[i]
      BY <1>0, <2>3
    <3>2. f[i - 1] = g[i - 1]
      BY <2>1, <3>1
    <3>3. f[i] = f[i - 1] + s[i]
      <4> HIDE DEF g
      <4> QED BY <1>2, <2>3, <3>1
    <3>4. g[i] = g[i - 1] + s[i]
      <4> HIDE DEF g
      <4> QED BY <1>1, <2>3, <3>1
    <3> QED BY <3>1, <3>2, <3>3, <3>4
  <2> QED BY <2>2, <2>3
<1>5. f[Len(s)] = balance[Len(s)] - INITIAL_DEPOSIT
  BY <1>0, <1>4
<1> QED BY <1>0, <1>3, <1>5

\* When main reports, every operation of both sides is over.
LEMMA ReportIsSum == IInv /\ DInv => FinalDeposit
<1> SUFFICES ASSUME IInv, DInv, main \in {"report", "done"}
             PROVE  /\ Len(stored) = OPS_PER_PRODUCER * Cardinality(Producers)
                    /\ deposit = INITIAL_DEPOSIT + SumOf(stored)
  BY DEF FinalDeposit
<1>1. /\ \A p \in Producers : ppc[p] = "exit" /\ pops[p] = 0
      /\ \A c \in Consumers : cpc[c] = "exit" /\ cops[c] = 0
  BY DEF DInv, Joined, OpsBounded
<1>2. /\ pops \in [Producers -> Nat] /\ cops \in [Consumers -> Nat]
      /\ stored \in Seq(Int) /\ taken \in Nat
  BY DEF IInv, TypeOK
<1>3. JustStored = 0 /\ ConsumersAt(CTaken) = 0
  <2>1. \A p \in Producers : ppc[p] \notin PStored
    BY <1>1 DEF PStored
  <2>2. \A c \in Consumers : cpc[c] \notin CTaken
    BY <1>1 DEF CTaken
  <2> QED BY <2>1, <2>2, CountNone DEF JustStored, ProducersAt, ConsumersAt
<1>4. /\ StoresDone = Cardinality(Producers) * OPS_PER_PRODUCER
      /\ TakesDone = Cardinality(Consumers) * OPS_PER_CONSUMER
  BY <1>1, <1>2, NoneOrAllDone, Parameters, Totals DEF StoresDone, TakesDone
<1>5. Len(stored) = OPS_PER_PRODUCER * Cardinality(Producers)
  BY <1>3, <1>4, Totals DEF DInv, StoresCounted
<1>6. taken = Len(stored)
  BY <1>3, <1>4, <1>5, Totals DEF DInv, TakesCounted
<1>7. deposit = INITIAL_DEPOSIT + SumOf(stored)
  <2>1. PICK balance \in [0 .. taken -> Int] :
           Balances(balance, stored, taken) /\ deposit = balance[taken]
    BY DEF DInv, Balanced
  <2> QED BY <1>2, <1>6, <2>1, SumIsLastBalance, Totals
<1> QED BY <1>5, <1>7

-----------------------------------------------------------------------------
(* The theorems. *)

\* The semaphores' values, the indexes and the threads' positions agree in
\* every reachable state, whatever the number of threads and slots.
THEOREM Invariant == Spec => []IInv
<1>1. Init => IInv
  BY InitIInv
<1>2. IInv /\ [Next]_vars => IInv'
  BY NextKeeps
<1> QED BY <1>1, <1>2, PTL DEF Spec

\* Types, in particular: no semaphore exceeds the value main gave it, and
\* both indexes stay inside the array.
THEOREM TypeCorrect == Spec => []TypeOK
<1>1. IInv => TypeOK
  BY DEF IInv
<1> QED BY <1>1, Invariant, PTL

\* A producer's store and a consumer's read never meet in one slot, although
\* the two sides use different mutexes.
THEOREM NoRace == Spec => []NoSlotRace
<1> QED BY SlotRaceFree, Invariant, PTL

\* No slot is lost or invented: free, filled and held slots make the array.
THEOREM Tokens == Spec => []TokensConserved
<1>1. IInv => TokensConserved
  BY DEF IInv
<1> QED BY <1>1, Invariant, PTL

\* The threads, four semaphores and circular array together are a FIFO of
\* BUFFER_SIZE transactions, each added to deposit once and in order.
THEOREM Refinement == Spec => ImplementsQueue
<1>1. Init => Queue!QueueInit
  BY InitImplements
<1>2. IInv /\ [Next]_vars => [Queue!QueueNext]_Queue!queueVars
  BY StepImplements
<1> QED BY <1>1, <1>2, Invariant, PTL DEF Spec, ImplementsQueue, Queue!QueueSpec

\* What main prints is the sum of all that the producers stored: no update of
\* deposit is lost, and nothing is left in the array.
THEOREM Deposit == Spec => []FinalDeposit
<1>1. Init => DInv
  BY InitDInv
<1>2. IInv /\ IInv' /\ DInv /\ [Next]_vars => DInv'
  <2> SUFFICES ASSUME IInv, IInv', DInv, [Next]_vars PROVE DInv'
    OBVIOUS
  <2>1. CASE Terminated \/ UNCHANGED vars
    <3>1. UNCHANGED <<transactions, deposit, stored, taken, ppc, cpc, pops, cops, main>>
      BY <2>1 DEF Terminated, vars, sharedVars, prodVars, consVars
    <3>2. OpsBounded' /\ Joined'
      BY <3>1 DEF DInv, OpsBounded, Joined
    <3> QED BY <3>1, <3>2, Rests, ProducersRest, ConsumersRest, ProducersStay, ConsumersStay
            DEF DInv, JustStored
  <2> QED BY <2>1, ProducerKeepsD, ConsumerKeepsD, MainKeepsD DEF Next
<1>3. IInv /\ DInv => FinalDeposit
  BY ReportIsSum
<1> QED BY <1>1, <1>2, <1>3, Invariant, PTL DEF Spec
=============================================================================
