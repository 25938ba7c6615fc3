------------------------------- MODULE Lemmas -------------------------------
(***************************************************************************)
(* Lemmas that the proofs of the components share: arithmetic of the       *)
(* indexes of a circular array of B slots, what a store at one end and a   *)
(* take at the other do to its Window, counting, and least elements.       *)
(***************************************************************************)
EXTENDS Ring, Counting, SequenceTheorems, FiniteSetTheorems, WellFoundedInduction, TLAPS

\* Quotient and remainder of a division are unique.
LEMMA DivisionUnique ==
    ASSUME NEW B \in Nat \ {0}, NEW q \in Int, NEW r \in 0 .. B-1,
           NEW q2 \in Int, NEW r2 \in 0 .. B-1,
           q * B + r = q2 * B + r2
    PROVE  r = r2
<1>1. CASE q = q2
  BY <1>1, SMT
<1>2. CASE q >= q2 + 1
  <2>1. q * B >= (q2 + 1) * B
    BY <1>2, SMT
  <2>2. (q2 + 1) * B = q2 * B + B
    BY SMT
  <2> QED BY <2>1, <2>2, SMT
<1>3. CASE q2 >= q + 1
  <2>1. q2 * B >= (q + 1) * B
    BY <1>3, SMT
  <2>2. (q + 1) * B = q * B + B
    BY SMT
  <2> QED BY <2>1, <2>2, SMT
<1> QED BY <1>1, <1>2, <1>3, SMT

\* Quotient and remainder, as the provers need them.
LEMMA ModDef ==
    ASSUME NEW B \in Nat \ {0}, NEW i \in Int
    PROVE  /\ i % B \in 0 .. B-1
           /\ i \div B \in Int
           /\ i = (i \div B) * B + (i % B)
BY SMT

\* The slots of two positions less than B apart differ.
LEMMA ModDistinct ==
    ASSUME NEW B \in Nat \ {0}, NEW i \in Int, NEW j \in Int,
           i < j, j < i + B
    PROVE  i % B # j % B
<1> SUFFICES ASSUME i % B = j % B PROVE FALSE
  OBVIOUS
<1> DEFINE q == i \div B
           q2 == j \div B
           r == i % B
<1>1. /\ q \in Int /\ q2 \in Int /\ r \in 0 .. B-1
      /\ i = q * B + r /\ j = q2 * B + r
  BY ModDef
<1>2. q2 * B - q * B = (q2 - q) * B
  BY <1>1, SMT
<1> HIDE DEF q, q2, r
<1>3. (q2 - q) * B = j - i
  BY <1>1, <1>2, SMT
<1>4. CASE q2 - q >= 1
  <2>1. (q2 - q) * B >= B
    BY <1>1, <1>4, SMT
  <2> QED BY <1>3, <2>1, SMT
<1>5. CASE q2 - q <= 0
  <2>1. (q2 - q) * B <= 0
    BY <1>1, <1>5, SMT
  <2> QED BY <1>3, <2>1, SMT
<1> QED BY <1>1, <1>4, <1>5, SMT

\* What is added to a remainder may be added to what it stands for.
LEMMA ModAdd ==
    ASSUME NEW B \in Nat \ {0}, NEW i \in Int, NEW j \in Int
    PROVE  ((i % B) + j) % B = (i + j) % B
<1> DEFINE a == (i % B) + j
           q == i \div B
<1>1. q \in Int /\ a \in Int /\ i + j = q * B + a
  BY ModDef, SMT
<1>2. /\ a \div B \in Int /\ a % B \in 0 .. B-1
      /\ a = (a \div B) * B + (a % B)
  <2> HIDE DEF a, q
  <2> QED BY <1>1, ModDef
<1>3. /\ (i + j) \div B \in Int /\ (i + j) % B \in 0 .. B-1
      /\ i + j = ((i + j) \div B) * B + ((i + j) % B)
  <2>1. i + j \in Int
    BY SMT
  <2> QED BY <2>1, ModDef
<1>4. q * B + (a \div B) * B = (q + (a \div B)) * B
  <2> DEFINE d == a \div B
  <2> HIDE DEF a, q, d
  <2>1. d \in Int BY <1>2 DEF d
  <2>2. q * B + d * B = (q + d) * B
    BY <1>1, <2>1, SMT
  <2> QED BY <2>2 DEF d
<1>5. (q + (a \div B)) * B + (a % B) = ((i + j) \div B) * B + ((i + j) % B)
  <2> DEFINE d == a \div B
             m == a % B
             qq == (i + j) \div B
             mm == (i + j) % B
  <2> HIDE DEF a, q, d, m, qq, mm
  <2>1. (q + d) * B + m = i + j
    BY <1>1, <1>2, <1>4, SMT DEF d, m
  <2> QED BY <2>1, <1>3 DEF d, m, qq, mm
<1>6. q + (a \div B) \in Int
  BY <1>1, <1>2, SMT
<1>7. a % B = (i + j) % B
  <2> HIDE DEF a, q
  <2> QED BY <1>2, <1>3, <1>5, <1>6, DivisionUnique
<1> QED BY <1>7

\* Advancing an index is advancing the position it stands for.
LEMMA ModAdvance ==
    ASSUME NEW B \in Nat \ {0}, NEW i \in Int
    PROVE  ((i % B) + 1) % B = (i + 1) % B
<1>1. \A j \in Int : ((i % B) + j) % B = (i + j) % B
  BY ModAdd, Zenon
<1>2. 1 \in Int
  OBVIOUS
<1> QED BY <1>1, <1>2, Zenon

\* A number that is a remainder is its own.
LEMMA ModSmall ==
    ASSUME NEW B \in Nat \ {0}, NEW i \in 0 .. B-1
    PROVE  i % B = i
<1>1. i = 0 * B + i /\ 0 \in Int /\ i \in Int
  OBVIOUS
<1>2. i % B \in 0 .. B-1 /\ i \div B \in Int /\ i = (i \div B) * B + (i % B)
  BY <1>1, ModDef
<1> DEFINE q == i \div B
           r == i % B
<1> HIDE DEF q, r
<1>3. q \in Int /\ r \in 0 .. B-1 /\ 0 * B + i = q * B + r
  BY <1>1, <1>2 DEF q, r
<1>4. i = r
  BY <1>1, <1>3, DivisionUnique
<1> QED BY <1>4 DEF r

-----------------------------------------------------------------------------
\* A window is a sequence of count values.
LEMMA WindowType ==
    ASSUME NEW V, NEW B \in Nat \ {0}, NEW array \in [0 .. B-1 -> V],
           NEW first \in Nat, NEW count \in Nat
    PROVE  /\ Window(array, B, first, count) \in Seq(V)
           /\ Len(Window(array, B, first, count)) = count
           /\ \A i \in 1 .. count :
                Window(array, B, first, count)[i] = array[(first + i - 1) % B]
<1> DEFINE w == [i \in 1 .. count |-> array[(first + i - 1) % B]]
<1>1. \A i \in 1 .. count : array[(first + i - 1) % B] \in V
  <2> SUFFICES ASSUME NEW i \in 1 .. count PROVE array[(first + i - 1) % B] \in V
    OBVIOUS
  <2>1. first + i - 1 \in Int
    OBVIOUS
  <2>2. (first + i - 1) % B \in 0 .. B-1
    BY <2>1, ModDef
  <2> QED BY <2>2
<1>2. w \in [1 .. count -> V]
  BY <1>1
<1>3. w \in Seq(V)
  BY <1>2, SeqDef
<1>4. Len(w) = count
  BY <1>2
<1> QED BY <1>2, <1>3, <1>4 DEF Window

\* It is a sequence of elements of the array, whatever those are.
LEMMA WindowSeq ==
    ASSUME NEW B \in Nat \ {0}, NEW array, NEW first \in Nat, NEW count \in Nat
    PROVE  Window(array, B, first, count) \in Seq({array[x] : x \in 0 .. B-1})
<1> DEFINE w == [i \in 1 .. count |-> array[(first + i - 1) % B]]
           V == {array[x] : x \in 0 .. B-1}
<1>1. \A i \in 1 .. count : array[(first + i - 1) % B] \in V
  <2> SUFFICES ASSUME NEW i \in 1 .. count PROVE array[(first + i - 1) % B] \in V
    OBVIOUS
  <2>1. (first + i - 1) % B \in 0 .. B-1
    <3>1. first + i - 1 \in Int
      OBVIOUS
    <3> QED BY <3>1, ModDef
  <2> QED BY <2>1
<1> HIDE DEF V
<1>2. w \in [1 .. count -> V]
  BY <1>1
<1>3. w \in Seq(V)
  BY <1>2, SeqDef
<1> QED BY <1>3 DEF Window, V

\* Its length.
LEMMA WindowLen ==
    ASSUME NEW B, NEW array, NEW first, NEW count \in Nat
    PROVE  Len(Window(array, B, first, count)) = count
BY DEF Window

\* Its elements.
LEMMA WindowAt ==
    ASSUME NEW B, NEW array, NEW first, NEW count, NEW i \in 1 .. count
    PROVE  Window(array, B, first, count)[i] = array[(first + i - 1) % B]
BY DEF Window

\* What Append does, element by element.
LEMMA AppendFacts ==
    ASSUME NEW V, NEW s \in Seq(V), NEW x \in V
    PROVE  /\ Append(s, x) \in Seq(V) /\ Len(Append(s, x)) = Len(s) + 1
           /\ \A i \in 1 .. Len(s) : Append(s, x)[i] = s[i]
           /\ Append(s, x)[Len(s) + 1] = x
OBVIOUS

\* new is array with x stored in one slot; a window grows by x.
StoredIn(V, array, new, B, slot, x) ==
    /\ array \in [0 .. B-1 -> V] /\ new \in [0 .. B-1 -> V]
    /\ new[slot] = x
    /\ \A k \in 0 .. B-1 : k # slot => new[k] = array[k]

Stored(array, new, B, slot, x) == StoredIn(Int, array, new, B, slot, x)

Grows(array, new, B, first, count, x) ==
    Window(new, B, first, count + 1) = Append(Window(array, B, first, count), x)

Keeps(array, new, B, first, count) ==
    Window(new, B, first, count) = Window(array, B, first, count)

\* A store at the end of a window that leaves a slot free appends to it.
LEMMA WindowAppend ==
    ASSUME NEW V, NEW B \in Nat \ {0}, NEW array, NEW first \in Nat,
           NEW count \in Nat, count < B, NEW x \in V, NEW new,
           NEW slot, slot = (first + count) % B, StoredIn(V, array, new, B, slot, x)
    PROVE  Grows(array, new, B, first, count, x)
<1>0. /\ array \in [0 .. B-1 -> V] /\ new \in [0 .. B-1 -> V] /\ new[slot] = x
      /\ \A k \in 0 .. B-1 : k # slot => new[k] = array[k]
  BY DEF StoredIn
<1> DEFINE w == Window(array, B, first, count)
           w2 == Window(new, B, first, count + 1)
<1>1. first + count \in Int /\ slot \in 0 .. B-1
  <2>1. first + count \in Int
    OBVIOUS
  <2>2. (first + count) % B \in 0 .. B-1
    BY <2>1, ModDef
  <2> QED BY <2>1, <2>2
<1>3. /\ w \in Seq(V) /\ Len(w) = count
      /\ \A i \in 1 .. count : w[i] = array[(first + i - 1) % B]
  <2>1. w \in Seq(V)
    BY <1>0, WindowType
  <2>2. Len(w) = count
    BY WindowLen
  <2>3. \A i \in 1 .. count : w[i] = array[(first + i - 1) % B]
    BY DEF Window
  <2> QED BY <2>1, <2>2, <2>3
<1>4. /\ w2 \in Seq(V) /\ Len(w2) = count + 1
      /\ \A i \in 1 .. count + 1 : w2[i] = new[(first + i - 1) % B]
  <2> DEFINE c == count + 1
  <2>1. c \in Nat
    OBVIOUS
  <2> HIDE DEF c
  <2>2. Window(new, B, first, c) \in Seq(V)
    BY <1>0, <2>1, WindowType
  <2>3. Len(Window(new, B, first, c)) = c
    BY <2>1, WindowLen
  <2>4. \A i \in 1 .. c : Window(new, B, first, c)[i] = new[(first + i - 1) % B]
    BY DEF Window
  <2> QED BY <2>2, <2>3, <2>4 DEF c
<1> HIDE DEF w, w2
<1>5. \A i \in 1 .. count : w2[i] = w[i]
  <2> SUFFICES ASSUME NEW i \in 1 .. count PROVE w2[i] = w[i]
    OBVIOUS
  <2> DEFINE k == first + i - 1
  <2>1. k \in Int /\ k < first + count /\ first + count < k + B
    OBVIOUS
  <2>2. k % B # slot
    BY <1>1, <2>1, ModDistinct
  <2>3. k % B \in 0 .. B-1
    BY <2>1, ModDef
  <2>4. i \in 1 .. count + 1
    OBVIOUS
  <2>5. w2[i] = new[k % B] /\ w[i] = array[k % B]
    BY <1>3, <1>4, <2>4
  <2> HIDE DEF k
  <2> QED BY <1>0, <2>2, <2>3, <2>5
<1>6. w2[count + 1] = x
  <2>1. first + (count + 1) - 1 = first + count
    OBVIOUS
  <2> QED BY <1>0, <1>4, <2>1
<1>7. w2 = Append(w, x)
  <2>1. Append(w, x) \in Seq(V) /\ Len(Append(w, x)) = count + 1
    BY <1>3, AppendFacts
  <2>2. \A i \in 1 .. count : Append(w, x)[i] = w[i]
    BY <1>3, AppendFacts
  <2>3. Append(w, x)[count + 1] = x
    BY <1>3, AppendFacts
  <2>4. \A i \in 1 .. count + 1 : i \in 1 .. count \/ i = count + 1
    OBVIOUS
  <2>5. \A i \in 1 .. count + 1 : w2[i] = Append(w, x)[i]
    BY <1>5, <1>6, <2>2, <2>3, <2>4
  <2> QED BY <1>0, <1>4, <2>1, <2>5, SeqEqual
<1> QED BY <1>7 DEF w, w2, Grows

\* The same for integers.
LEMMA WindowPut ==
    ASSUME NEW B \in Nat \ {0}, NEW array, NEW first \in Nat,
           NEW count \in Nat, count < B, NEW x \in Int, NEW new,
           NEW slot, slot = (first + count) % B, Stored(array, new, B, slot, x)
    PROVE  Grows(array, new, B, first, count, x)
BY WindowAppend DEF Stored

\* Such a store is outside the window as long as it has not grown.
LEMMA WindowKeep ==
    ASSUME NEW B \in Nat \ {0}, NEW array, NEW first \in Nat,
           NEW count \in Nat, count < B, NEW x, NEW new,
           NEW slot, slot = (first + count) % B, Stored(array, new, B, slot, x)
    PROVE  Keeps(array, new, B, first, count)
<1>1. array \in [0 .. B-1 -> Int] /\ new \in [0 .. B-1 -> Int]
  BY DEF Stored, StoredIn
<1>2. ASSUME NEW i \in 1 .. count
      PROVE  new[(first + i - 1) % B] = array[(first + i - 1) % B]
  <2> DEFINE k == first + i - 1
  <2>1. k \in Int /\ first + count \in Int /\ k < first + count /\ first + count < k + B
    OBVIOUS
  <2> HIDE DEF k
  <2>2. k % B # slot /\ k % B \in 0 .. B-1
    BY <2>1, ModDistinct, ModDef
  <2> QED BY <2>2 DEF k, Stored, StoredIn
<1> QED BY <1>2 DEF Window, Keeps

\* A window of no elements.
LEMMA WindowEmpty ==
    ASSUME NEW array, NEW B, NEW first
    PROVE  Window(array, B, first, 0) = <<>>
BY DEF Window

\* A window loses its oldest element.
Shrinks(array, B, first, count) ==
    Tail(Window(array, B, first, count)) = Window(array, B, first + 1, count - 1)

\* A take at the start of a non-empty window leaves its tail.
LEMMA WindowTake ==
    ASSUME NEW B \in Nat \ {0}, NEW array,
           NEW first \in Nat, NEW count \in Nat, count > 0
    PROVE  /\ Window(array, B, first, count) # <<>>
           /\ Head(Window(array, B, first, count)) = array[first % B]
           /\ Shrinks(array, B, first, count)
<1> DEFINE V == {array[x] : x \in 0 .. B-1}
           w == Window(array, B, first, count)
           w2 == Window(array, B, first + 1, count - 1)
<1>1. /\ w \in Seq(V) /\ Len(w) = count
      /\ \A i \in 1 .. count : w[i] = array[(first + i - 1) % B]
  <2>1. w \in Seq(V)
    BY WindowSeq
  <2>2. Len(w) = count
    BY WindowLen
  <2>3. \A i \in 1 .. count : w[i] = array[(first + i - 1) % B]
    BY WindowAt
  <2> QED BY <2>1, <2>2, <2>3
<1>2. /\ w2 \in Seq(V) /\ Len(w2) = count - 1
      /\ \A i \in 1 .. count - 1 : w2[i] = array[(first + 1 + i - 1) % B]
  <2> DEFINE c == count - 1
             f == first + 1
  <2>1. c \in Nat /\ f \in Nat
    OBVIOUS
  <2> HIDE DEF c, f
  <2>2. Window(array, B, f, c) \in Seq(V)
    BY <2>1, WindowSeq
  <2>3. Len(Window(array, B, f, c)) = c
    BY <2>1, WindowLen
  <2>4. \A i \in 1 .. c : Window(array, B, f, c)[i] = array[(f + i - 1) % B]
    BY DEF Window
  <2> QED BY <2>2, <2>3, <2>4 DEF c, f
<1> HIDE DEF w, w2, V
<1>3. w # <<>> /\ Head(w) = w[1]
  BY <1>1
<1>4. w[1] = array[first % B]
  <2>1. first + 1 - 1 = first
    OBVIOUS
  <2> QED BY <1>1, <2>1
<1>5. Tail(w) = w2
  <2>1. /\ Tail(w) \in Seq(V) /\ Len(Tail(w)) = count - 1
        /\ \A i \in 1 .. count - 1 : Tail(w)[i] = w[i + 1]
    BY <1>1, <1>3, HeadTailProperties
  <2>2. \A i \in 1 .. count - 1 : Tail(w)[i] = w2[i]
    <3> SUFFICES ASSUME NEW i \in 1 .. count - 1 PROVE Tail(w)[i] = w2[i]
      OBVIOUS
    <3>1. first + (i + 1) - 1 = first + 1 + i - 1 /\ i + 1 \in 1 .. count
      OBVIOUS
    <3> QED BY <1>1, <1>2, <2>1, <3>1
  <2> QED BY <1>2, <2>1, <2>2, SeqEqual
<1> QED BY <1>3, <1>4, <1>5 DEF w, w2, Shrinks

-----------------------------------------------------------------------------
(* Counting threads or processes by position. *)

\* One of them moves: a count of positions changes by at most that one.
LEMMA CountMove ==
    ASSUME NEW S, IsFiniteSet(S), NEW f, NEW g, NEW T, NEW a \in S,
           \A x \in S \ {a} : g[x] = f[x]
    PROVE  /\ g[a] \in T /\ f[a] \notin T => Count(S, g, T) = Count(S, f, T) + 1
           /\ g[a] \notin T /\ f[a] \in T => Count(S, g, T) = Count(S, f, T) - 1
           /\ (g[a] \in T <=> f[a] \in T) => Count(S, g, T) = Count(S, f, T)
<1> DEFINE R == {x \in S \ {a} : f[x] \in T}
           A == {x \in S : f[x] \in T}
           C == {x \in S : g[x] \in T}
<1>1. IsFiniteSet(R) /\ a \notin R
  BY FS_Subset, R \subseteq S
<1>2. Cardinality(R) \in Nat /\ Cardinality(R \cup {a}) = Cardinality(R) + 1
  BY <1>1, FS_AddElement, FS_CardinalityType
<1>3. A = IF f[a] \in T THEN R \cup {a} ELSE R
  OBVIOUS
<1>4. C = IF g[a] \in T THEN R \cup {a} ELSE R
  OBVIOUS
<1> HIDE DEF R, A, C
<1>5. /\ g[a] \in T /\ f[a] \notin T => Cardinality(C) = Cardinality(A) + 1
      /\ g[a] \notin T /\ f[a] \in T => Cardinality(C) = Cardinality(A) - 1
      /\ (g[a] \in T <=> f[a] \in T) => Cardinality(C) = Cardinality(A)
  <2>1. Cardinality(A) = IF f[a] \in T THEN Cardinality(R) + 1 ELSE Cardinality(R)
    BY <1>2, <1>3
  <2>2. Cardinality(C) = IF g[a] \in T THEN Cardinality(R) + 1 ELSE Cardinality(R)
    BY <1>2, <1>4
  <2> QED BY <1>2, <2>1, <2>2
<1> QED BY <1>5 DEF Count, A, C

\* A count is a natural number.
LEMMA CountType ==
    ASSUME NEW S, IsFiniteSet(S), NEW f, NEW T
    PROVE  Count(S, f, T) \in Nat
<1> DEFINE R == {x \in S : f[x] \in T}
<1>1. IsFiniteSet(R)
  BY FS_Subset, R \subseteq S
<1> QED BY <1>1, FS_CardinalityType DEF Count

\* Disjoint sets of positions are counted separately.
LEMMA CountSplit ==
    ASSUME NEW S, IsFiniteSet(S), NEW f, NEW T, NEW U, T \cap U = {}
    PROVE  Count(S, f, T \cup U) = Count(S, f, T) + Count(S, f, U)
<1> DEFINE A == {x \in S : f[x] \in T}
           C == {x \in S : f[x] \in U}
<1>1. IsFiniteSet(A) /\ IsFiniteSet(C)
  BY FS_Subset, A \subseteq S, C \subseteq S
<1>2. A \cap C = {}
  OBVIOUS
<1>3. {x \in S : f[x] \in T \cup U} = A \cup C
  OBVIOUS
<1>4. Cardinality(A \cap C) = 0
  BY <1>2, FS_EmptySet
<1>5. Cardinality(A) \in Nat /\ Cardinality(C) \in Nat
  BY <1>1, FS_CardinalityType
<1>6. Cardinality(A \cup C) = Cardinality(A) + Cardinality(C) - Cardinality(A \cap C)
  BY <1>1, FS_Union
<1> QED BY <1>3, <1>4, <1>5, <1>6 DEF Count

\* One of them at one of the positions makes the count positive.
LEMMA CountOne ==
    ASSUME NEW S, IsFiniteSet(S), NEW f, NEW a \in S, NEW T, f[a] \in T
    PROVE  Count(S, f, T) >= 1
<1> DEFINE R == {x \in S : f[x] \in T}
<1>1. IsFiniteSet(R) /\ a \in R
  BY FS_Subset, R \subseteq S
<1>2. Cardinality(R) \in Nat /\ Cardinality(R) # 0
  BY <1>1, FS_CardinalityType, FS_EmptySet
<1> QED BY <1>2 DEF Count

\* Two at them make it at least two.
LEMMA CountTwo ==
    ASSUME NEW S, IsFiniteSet(S), NEW f, NEW T, NEW a \in S, NEW b \in S, a # b,
           f[a] \in T, f[b] \in T
    PROVE  Count(S, f, T) >= 2
<1> DEFINE A == {x \in S : f[x] \in T}
<1>1. IsFiniteSet(A) /\ IsFiniteSet({a}) /\ {a} \subseteq A /\ {a} # A
  BY FS_Subset, FS_Singleton, A \subseteq S
<1>2. Cardinality({a}) = 1
  BY FS_Singleton
<1>3. Cardinality(A) \in Nat
  BY <1>1, FS_CardinalityType
<1> HIDE DEF A
<1>4. Cardinality({a}) <= Cardinality(A) /\ Cardinality({a}) # Cardinality(A)
  BY <1>1, FS_Subset
<1> QED BY <1>2, <1>3, <1>4 DEF Count, A

\* Nobody there: the count is 0.
LEMMA CountNone ==
    ASSUME NEW S, NEW f, NEW T, \A x \in S : f[x] \notin T
    PROVE  Count(S, f, T) = 0
<1>1. {x \in S : f[x] \in T} = {}
  OBVIOUS
<1> QED BY <1>1, FS_EmptySet DEF Count

\* All of them there: the count is their number; and only then.
LEMMA CountAll ==
    ASSUME NEW S, IsFiniteSet(S), NEW f, NEW T
    PROVE  /\ Count(S, f, T) <= Cardinality(S)
           /\ Count(S, f, T) = Cardinality(S) <=> \A x \in S : f[x] \in T
<1> DEFINE A == {x \in S : f[x] \in T}
<1>1. A \in SUBSET S
  OBVIOUS
<1>2. Cardinality(A) <= Cardinality(S) /\ (Cardinality(S) = Cardinality(A) => S = A)
  BY <1>1, FS_Subset
<1>3. (\A x \in S : f[x] \in T) => A = S
  OBVIOUS
<1> QED BY <1>2, <1>3 DEF Count

-----------------------------------------------------------------------------
(* Least and greatest: what stands for induction over numbers. *)

\* A non-empty set of natural numbers has a least element.
LEMMA LeastNat ==
    ASSUME NEW T \in SUBSET Nat, T # {}
    PROVE  \E x \in T : \A y \in T : x <= y
<1> DEFINE R == OpToRel(<, Nat)
<1>1. IsWellFoundedOn(R, Nat)
  BY NatLessThanWellFounded, Zenon
<1>2. \A x, y \in Nat : y < x => <<y, x>> \in R
  BY Zenon DEF OpToRel
<1> HIDE DEF R
<1>3. PICK x \in T : \A y \in T : ~(<<y, x>> \in R)
  BY <1>1, WFMin
<1>4. ASSUME NEW y \in T PROVE x <= y
  <2>1. x \in Nat /\ y \in Nat /\ ~(<<y, x>> \in R)
    BY <1>3
  <2>2. ~(y < x)
    BY <1>2, <2>1
  <2> QED BY <2>1, <2>2, SMT
<1> QED BY <1>4

\* A bounded function with natural values has a greatest one.
LEMMA Greatest ==
    ASSUME NEW S, S # {}, NEW bound \in Nat, NEW f \in [S -> 0 .. bound]
    PROVE  \E x \in S : \A y \in S : f[y] <= f[x]
<1> DEFINE T == {bound - f[x] : x \in S}
<1>1. T \in SUBSET Nat /\ T # {}
  OBVIOUS
<1>2. PICK t \in T : \A u \in T : t <= u
  <2> HIDE DEF T
  <2> QED BY <1>1, LeastNat
<1>3. PICK x \in S : t = bound - f[x]
  OBVIOUS
<1>4. ASSUME NEW y \in S PROVE f[y] <= f[x]
  <2>1. bound - f[y] \in T
    OBVIOUS
  <2>2. bound - f[x] <= bound - f[y]
    BY <1>2, <1>3, <2>1
  <2> QED BY <2>2
<1> QED BY <1>4
=============================================================================
