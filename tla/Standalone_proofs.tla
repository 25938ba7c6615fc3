-------------------------- MODULE Standalone_proofs --------------------------
(***************************************************************************)
(* Standalone for any parameters of its programs: an inductive invariant   *)
(* of each, and what it means for the properties that the runs check.      *)
(***************************************************************************)
EXTENDS Standalone, Lemmas

\* The modules count with the same operator as the proofs.
LEMMA SameCardinality ==
    ASSUME NEW S
    PROVE  Ri!Cardinality(S) = Cardinality(S) /\ Sc!Cardinality(S) = Cardinality(S)
BY DEF Ri!Cardinality, Sc!Cardinality, Cardinality

-----------------------------------------------------------------------------
(* The inductive invariant. *)

RiTypeOK ==
    /\ mpc \in {"fork", "failed", "await", "release", "sleep", "wait", "parse", "done"}
    /\ i \in 0 .. children - 1
    /\ mainWait \in Nat /\ childrenWait \in Nat /\ criticalSection \in Nat
    /\ data \in {0, 1} /\ file \in Seq(Ri!Children)
    /\ cpc \in [Ri!Children -> {"none", "ready", "blocked", "create", "join", "check",
                             "exited", "reaped"}]
    /\ round \in [Ri!Children -> Nat]
    /\ tpc \in [Ri!Children -> [Ri!Threads -> {"none", "wait", "append", "post", "exited"}]]
    /\ max_child_id \in Int

\* Children that have posted main_wait, and those that have passed the barrier.
Arrived == {"blocked", "create", "join", "check", "exited", "reaped"}
Begun == {"create", "join", "check", "exited", "reaped"}

\* The turns main has made of its second and of its third loop.
Awaited == IF mpc \in {"fork", "failed"} THEN 0 ELSE IF mpc = "await" THEN i ELSE children
Released == IF mpc \in {"fork", "failed", "await"} THEN 0 ELSE IF mpc = "release" THEN i ELSE children

\* A child that main has not forked yet does nothing.
NotForked == mpc = "fork" => \A c \in Ri!Children : c >= i => cpc[c] = "none"

\* Each token of main_wait was posted by a child that arrived, and main took
\* one in each turn; each child that passed took one of main's.
Arrivals == mainWait + Awaited = Count(Ri!Children, cpc, Arrived)
Releases == childrenWait + Count(Ri!Children, cpc, Begun) = Released

\* main has reaped a child in each turn of its last loop.
Reaped ==
    /\ Count(Ri!Children, cpc, {"reaped"}) =
           IF mpc = "wait" THEN i ELSE IF mpc \in {"parse", "done"} THEN children ELSE 0
    /\ mpc = "sleep" => i = 0

\* A child that neither creates nor joins has no thread.
NoThreads == \A c \in Ri!Children :
    cpc[c] \notin {"create", "join"} => tpc[c] = [t \in Ri!Threads |-> "none"]

\* The file holds the whole batches of a child, and what its threads that are
\* through have appended since.
Appended == \A c \in Ri!Children :
    Ri!Accesses(c) = threads * round[c] + Count(Ri!Threads, tpc[c], {"post", "exited"})

RiInv == RiTypeOK /\ NotForked /\ Arrivals /\ Releases /\ Reaped /\ NoThreads /\ Appended /\ Ri!Final

-----------------------------------------------------------------------------
(* Facts about the constants, and counting. *)

\* What a move between two positions does to a count: of the children, and of
\* the threads of a child.
Gain(from, to, T) == (IF to \in T THEN 1 ELSE 0) - (IF from \in T THEN 1 ELSE 0)
Gains(from, to, T) == Count(Ri!Children, cpc', T) = Count(Ri!Children, cpc, T) + Gain(from, to, T)
ThreadGains(c, from, to, T) ==
    Count(Ri!Threads, tpc'[c], T) = Count(Ri!Threads, tpc[c], T) + Gain(from, to, T)

\* The numbers of children and threads.
LEMMA RiParameters ==
    /\ children \in Nat \ {0} /\ threads \in Nat \ {0}
    /\ IsFiniteSet(Ri!Children) /\ Cardinality(Ri!Children) = children
    /\ IsFiniteSet(Ri!Threads) /\ Cardinality(Ri!Threads) = threads
<1>1. children \in Nat \ {0} /\ threads \in Nat \ {0}
  BY StandaloneAssumption DEF Ri!RiepilogoAssumption
<1>2. IsFiniteSet(0 .. children-1) /\ Cardinality(0 .. children-1) = children
  <2>1. children - 1 \in Int /\ ~(0 > children - 1) /\ children - 1 - 0 + 1 = children
    BY <1>1
  <2> QED BY <2>1, FS_Interval
<1>3. IsFiniteSet(0 .. threads-1) /\ Cardinality(0 .. threads-1) = threads
  <2>1. threads - 1 \in Int /\ ~(0 > threads - 1) /\ threads - 1 - 0 + 1 = threads
    BY <1>1
  <2> QED BY <2>1, FS_Interval
<1> QED BY <1>1, <1>2, <1>3 DEF Ri!Children, Ri!Threads

\* A child moves: a count of children changes by at most that one.
LEMMA ChildMove ==
    ASSUME RiTypeOK, NEW c \in Ri!Children, NEW to,
           cpc' = [cpc EXCEPT ![c] = to], NEW T
    PROVE  /\ to \in T /\ cpc[c] \notin T =>
                  Count(Ri!Children, cpc', T) = Count(Ri!Children, cpc, T) + 1
           /\ to \notin T /\ cpc[c] \in T =>
                  Count(Ri!Children, cpc', T) = Count(Ri!Children, cpc, T) - 1
           /\ (to \in T <=> cpc[c] \in T) =>
                  Count(Ri!Children, cpc', T) = Count(Ri!Children, cpc, T)
<1> DEFINE f == cpc
           g == cpc'
<1>1. g[c] = to /\ \A y \in Ri!Children \ {c} : g[y] = f[y]
  BY DEF RiTypeOK
<1>2. IsFiniteSet(Ri!Children)
  BY RiParameters
<1> HIDE DEF f, g
<1>3. /\ to \in T /\ f[c] \notin T => Count(Ri!Children, g, T) = Count(Ri!Children, f, T) + 1
      /\ to \notin T /\ f[c] \in T => Count(Ri!Children, g, T) = Count(Ri!Children, f, T) - 1
      /\ (to \in T <=> f[c] \in T) => Count(Ri!Children, g, T) = Count(Ri!Children, f, T)
  BY <1>1, <1>2, CountMove
<1> QED BY <1>3 DEF f, g

\* A thread moves: a count of its child's threads changes by at most that one.
LEMMA ThreadMove ==
    ASSUME RiTypeOK, NEW c \in Ri!Children, NEW t \in Ri!Threads, NEW to,
           tpc' = [tpc EXCEPT ![c][t] = to], NEW T
    PROVE  /\ \A d \in Ri!Children \ {c} : tpc'[d] = tpc[d]
           /\ ThreadGains(c, tpc[c][t], to, T) /\ Count(Ri!Threads, tpc[c], T) \in Nat
<1>1. /\ tpc'[c][t] = to /\ \A y \in Ri!Threads \ {t} : tpc'[c][y] = tpc[c][y]
      /\ \A d \in Ri!Children \ {c} : tpc'[d] = tpc[d]
  BY DEF RiTypeOK
<1>2. IsFiniteSet(Ri!Threads)
  BY RiParameters
<1> DEFINE f == tpc[c]
           g == tpc'[c]
<1>3. g[t] = to /\ \A y \in Ri!Threads \ {t} : g[y] = f[y]
  BY <1>1
<1> HIDE DEF f, g
<1>4. /\ to \in T /\ f[t] \notin T => Count(Ri!Threads, g, T) = Count(Ri!Threads, f, T) + 1
      /\ to \notin T /\ f[t] \in T => Count(Ri!Threads, g, T) = Count(Ri!Threads, f, T) - 1
      /\ (to \in T <=> f[t] \in T) => Count(Ri!Threads, g, T) = Count(Ri!Threads, f, T)
  BY <1>2, <1>3, CountMove
<1>5. Count(Ri!Threads, f, T) \in Nat
  BY <1>2, CountType
<1>6. Count(Ri!Threads, g, T) = Count(Ri!Threads, f, T) + Gain(f[t], to, T)
  BY <1>4, <1>5 DEF Gain
<1> QED BY <1>1, <1>5, <1>6 DEF f, g, ThreadGains

\* An append adds one to the accesses of its child, and to no other's.
LEMMA OneAccess ==
    ASSUME file \in Seq(Ri!Children), NEW c \in Ri!Children, file' = Append(file, c)
    PROVE  /\ Ri!Accesses(c)' = Ri!Accesses(c) + 1
           /\ \A d \in Ri!Children \ {c} : Ri!Accesses(d)' = Ri!Accesses(d)
<1> DEFINE L == Len(file)
           At(d) == {k \in DOMAIN file : file[k] = d}
<1>1. L \in Nat /\ DOMAIN file = 1 .. L /\ DOMAIN file' = 1 .. L + 1
  OBVIOUS
<1>2. file'[L + 1] = c /\ \A k \in 1 .. L : file'[k] = file[k]
  OBVIOUS
<1>3. \A d \in Ri!Children :
          {k \in DOMAIN file' : file'[k] = d} = IF d = c THEN At(d) \cup {L + 1} ELSE At(d)
  BY <1>1, <1>2
<1>4. At(c) \in SUBSET (1 .. L) /\ L + 1 \notin At(c)
  BY <1>1
<1>5. /\ \A d \in Ri!Children : Ri!Accesses(d) = Cardinality(At(d))
      /\ \A d \in Ri!Children : Ri!Accesses(d)' = Cardinality({k \in DOMAIN file' : file'[k] = d})
  BY SameCardinality DEF Ri!Accesses
<1>6. IsFiniteSet(At(c))
  <2> DEFINE R == 1 .. L
  <2>1. IsFiniteSet(R)
    BY <1>1, FS_Interval
  <2> HIDE DEF R, At
  <2> QED BY <1>4, <2>1, FS_Subset DEF R
<1> HIDE DEF At, L
<1>7. Cardinality(At(c) \cup {L + 1}) = Cardinality(At(c)) + 1
  BY <1>4, <1>6, FS_AddElement
<1> QED BY <1>3, <1>5, <1>7

-----------------------------------------------------------------------------
(* What the invariant says at the places the steps turn on. *)

\* A child past the barrier: main has awaited every child, and so every child
\* has arrived.
LEMMA AllArrived ==
    ASSUME RiInv, NEW c \in Ri!Children, cpc[c] \in Begun
    PROVE  /\ mpc \in {"release", "sleep", "wait", "parse", "done"}
           /\ \A d \in Ri!Children : cpc[d] \in Arrived
<1> USE RiParameters
<1>1. Count(Ri!Children, cpc, Begun) >= 1
  BY CountOne
<1>2. Count(Ri!Children, cpc, Begun) \in Nat /\ Count(Ri!Children, cpc, Arrived) \in Nat
  BY CountType
<1>3. mpc \in {"release", "sleep", "wait", "parse", "done"}
  BY <1>1, <1>2 DEF RiInv, RiTypeOK, Releases, Released
<1>4. Awaited = children
  BY <1>3 DEF Awaited
<1>5. Count(Ri!Children, cpc, Arrived) <= children
       /\ (Count(Ri!Children, cpc, Arrived) = children => \A d \in Ri!Children : cpc[d] \in Arrived)
  BY CountAll
<1>6. Count(Ri!Children, cpc, Arrived) = children
  BY <1>2, <1>4, <1>5 DEF RiInv, RiTypeOK, Arrivals
<1> QED BY <1>3, <1>5, <1>6

\* The barrier.
LEMMA BarrierHolds ==
    ASSUME RiInv
    PROVE  Ri!Barrier
<1> SUFFICES ASSUME NEW c \in Ri!Children, cpc[c] \in {"create", "join", "check"}
             PROVE  \A d \in Ri!Children : cpc[d] \notin {"none", "ready"}
  BY DEF Ri!Barrier
<1>1. cpc[c] \in Begun
  BY DEF Begun
<1>2. \A d \in Ri!Children : cpc[d] \in Arrived
  BY <1>1, AllArrived
<1> QED BY <1>2 DEF Arrived

\* When main has left its last loop every child is reaped.
LEMMA AllReaped ==
    ASSUME RiInv, mpc \in {"parse", "done"}
    PROVE  \A c \in Ri!Children : /\ cpc[c] = "reaped"
                               /\ tpc[c] = [t \in Ri!Threads |-> "none"]
                               /\ Ri!Accesses(c) = threads * round[c]
<1>1. Count(Ri!Children, cpc, {"reaped"}) = children
  BY DEF RiInv, Reaped
<1>2. \A c \in Ri!Children : cpc[c] = "reaped"
  BY <1>1, RiParameters, CountAll
<1>3. \A c \in Ri!Children : tpc[c] = [t \in Ri!Threads |-> "none"]
  BY <1>2 DEF RiInv, NoThreads
<1>4. \A c \in Ri!Children : Count(Ri!Threads, tpc[c], {"post", "exited"}) = 0
  <2> SUFFICES ASSUME NEW c \in Ri!Children PROVE Count(Ri!Threads, tpc[c], {"post", "exited"}) = 0
    OBVIOUS
  <2> DEFINE f == tpc[c]
  <2>1. \A t \in Ri!Threads : f[t] \notin {"post", "exited"}
    BY <1>3
  <2> HIDE DEF f
  <2>2. Count(Ri!Threads, f, {"post", "exited"}) = 0
    BY <2>1, CountNone
  <2> QED BY <2>2 DEF f
<1>5. ASSUME NEW c \in Ri!Children PROVE Ri!Accesses(c) = threads * round[c]
  <2> DEFINE x == threads * round[c]
  <2>1. x \in Nat
    BY RiParameters DEF RiInv, RiTypeOK
  <2>2. Ri!Accesses(c) = x + 0
    BY <1>4 DEF RiInv, Appended
  <2> QED BY <2>1, <2>2
<1> QED BY <1>2, <1>3, <1>5

\* Accesses are bounded by the length of the file.
LEMMA AccessesBound ==
    ASSUME file \in Seq(Ri!Children), NEW d \in Ri!Children
    PROVE  Ri!Accesses(d) \in 0 .. Len(file)
<1> DEFINE L == Len(file)
           A == {k \in DOMAIN file : file[k] = d}
<1>1. L \in Nat /\ DOMAIN file = 1 .. L /\ A \in SUBSET (1 .. L)
  OBVIOUS
<1>2. Ri!Accesses(d) = Cardinality(A)
  BY SameCardinality DEF Ri!Accesses
<1> HIDE DEF A, L
<1>3. IsFiniteSet(1 .. L) /\ Cardinality(1 .. L) = L
  <2>1. (IF 1 > L THEN 0 ELSE L - 1 + 1) = L
    BY <1>1
  <2> QED BY <1>1, <2>1, FS_Interval
<1>4. IsFiniteSet(A) /\ Cardinality(A) <= L
  <2> DEFINE R == 1 .. L
  <2>1. IsFiniteSet(R) /\ Cardinality(R) = L /\ A \in SUBSET R
    BY <1>1, <1>3
  <2> HIDE DEF R
  <2> QED BY <2>1, FS_Subset
<1>5. Cardinality(A) \in Nat
  BY <1>4, FS_CardinalityType
<1> QED BY <1>1, <1>2, <1>4, <1>5 DEF L

\* There is a first child with the most accesses.
LEMMA FirstMost ==
    ASSUME file \in Seq(Ri!Children)
    PROVE  \E c \in Ri!Children : /\ \A d \in Ri!Children : Ri!Accesses(d) <= Ri!Accesses(c)
                               /\ \A d \in 0 .. c - 1 : Ri!Accesses(d) < Ri!Accesses(c)
<1> DEFINE L == Len(file)
           f == [c \in Ri!Children |-> Ri!Accesses(c)]
<1>1. L \in Nat /\ f \in [Ri!Children -> 0 .. L]
  BY AccessesBound
<1>2. children \in Nat /\ 0 \in Ri!Children /\ Ri!Children \subseteq Nat
  <2>1. children \in Nat \ {0}
    BY RiParameters
  <2> QED BY <2>1 DEF Ri!Children
<1>3. PICK b \in Ri!Children : \A d \in Ri!Children : f[d] <= f[b]
  <2> HIDE DEF f, L
  <2> QED BY <1>1, <1>2, Greatest, Ri!Children # {}
<1> DEFINE T == {d \in Ri!Children : f[d] = f[b]}
<1>4. T \in SUBSET Nat /\ T # {}
  <2>1. b \in T
    OBVIOUS
  <2> QED BY <1>2, <2>1
<1>5. PICK c \in T : \A d \in T : c <= d
  <2> HIDE DEF T
  <2> QED BY <1>4, LeastNat
<1>6. \A d \in Ri!Children : f[d] \in Int
  BY <1>1
<1>7. c \in Ri!Children /\ \A d \in Ri!Children : f[d] <= f[c]
  BY <1>3
<1>8. ASSUME NEW d \in 0 .. c - 1 PROVE f[d] < f[c]
  <2>1. d \in Ri!Children /\ c \in Int /\ d \in Int /\ ~(c <= d)
    BY <1>2, <1>7 DEF Ri!Children
  <2>2. d \notin T
    BY <1>5, <2>1
  <2> HIDE DEF f
  <2>3. f[d] # f[c]
    BY <2>1, <2>2
  <2> QED BY <1>6, <1>7, <2>1, <2>3
<1>9. \A d \in 0 .. c - 1 : d \in Ri!Children
  BY <1>2, <1>7 DEF Ri!Children
<1> QED BY <1>7, <1>8, <1>9

-----------------------------------------------------------------------------
(* The invariant is inductive: main. *)

\* A turn of a loop: the next one, or the last one and then the next part.
LEMMA TurnCases ==
    ASSUME RiTypeOK, NEW here, NEW next, Ri!Turn(here, next)
    PROVE  /\ mpc = here /\ i' \in 0 .. children - 1
           /\ \/ i' = i + 1 /\ mpc' = here
              \/ i + 1 = children /\ i' = 0 /\ mpc' = next
<1>1. children \in Nat \ {0}
  BY RiParameters
<1> QED BY <1>1 DEF Ri!Turn, RiTypeOK

LEMMA ForkStep ==
    ASSUME RiInv, Ri!Fork
    PROVE  RiInv'
<1> DEFINE Moved(T) == Count(Ri!Children, cpc', T) = Count(Ri!Children, cpc, T)
<1>1. RiTypeOK /\ children \in Nat \ {0} /\ i \in Ri!Children /\ i \in Nat
  BY RiParameters DEF RiInv, RiTypeOK, Ri!Children
<1>2. /\ mpc = "fork" /\ i' \in 0 .. children - 1
      /\ \/ i' = i + 1 /\ mpc' = "fork"
         \/ i + 1 = children /\ i' = 0 /\ mpc' = "await"
  BY <1>1, TurnCases DEF Ri!Fork
<1>3. /\ cpc' = [cpc EXCEPT ![i] = "ready"] /\ cpc[i] = "none"
      /\ UNCHANGED <<Ri!sems, data, file, round, tpc, max_child_id>>
  BY <1>1, <1>2 DEF Ri!Fork, RiInv, NotForked
<1>4. Moved(Arrived) /\ Moved(Begun) /\ Moved({"reaped"})
  <2>1. "ready" \notin Arrived \cup Begun \cup {"reaped"}
    BY DEF Arrived, Begun
  <2>2. "none" \notin Arrived \cup Begun \cup {"reaped"}
    BY DEF Arrived, Begun
  <2>3. ASSUME NEW T, "ready" \notin T, "none" \notin T PROVE Moved(T)
    <3> DEFINE c == i
    <3>1. RiTypeOK /\ c \in Ri!Children /\ cpc' = [cpc EXCEPT ![c] = "ready"] /\ cpc[c] = "none"
      BY <1>1, <1>3
    <3> HIDE DEF c
    <3>2. ("ready" \in T <=> cpc[c] \in T) => Moved(T)
      BY <3>1, ChildMove
    <3> QED BY <2>3, <3>1, <3>2
  <2> QED BY <2>1, <2>2, <2>3
<1>5. RiTypeOK'
  BY <1>1, <1>2, <1>3 DEF RiTypeOK, Ri!sems
<1>6. NotForked'
  BY <1>1, <1>2, <1>3 DEF RiInv, NotForked, RiTypeOK, Ri!Children
<1>7. Arrivals' /\ Releases' /\ Reaped'
  BY <1>1, <1>2, <1>3, <1>4 DEF RiInv, RiTypeOK, Arrivals, Releases, Reaped, Awaited, Released, Ri!sems
<1>8. NoThreads'
  BY <1>1, <1>3 DEF RiInv, NoThreads, RiTypeOK
<1>9. Appended' /\ Ri!Final'
  BY <1>2, <1>3 DEF RiInv, Appended, Ri!Accesses, Ri!Final
<1> QED BY <1>5, <1>6, <1>7, <1>8, <1>9 DEF RiInv

LEMMA ForkFailureStep ==
    ASSUME RiInv, Ri!ForkFailure
    PROVE  RiInv'
<1>1. /\ mpc = "fork" /\ mpc' = "failed"
      /\ UNCHANGED <<i, Ri!sems, data, file, cpc, round, tpc, max_child_id>>
  BY DEF Ri!ForkFailure
<1>2. RiTypeOK' /\ NotForked' /\ NoThreads' /\ Ri!Final'
  BY <1>1 DEF RiInv, RiTypeOK, NotForked, NoThreads, Ri!Final, Ri!sems
<1>3. Arrivals' /\ Releases' /\ Reaped' /\ Appended'
  BY <1>1 DEF RiInv, Arrivals, Releases, Reaped, Appended, Awaited, Released, Ri!Accesses, Ri!sems
<1> QED BY <1>2, <1>3 DEF RiInv

LEMMA AwaitStep ==
    ASSUME RiInv, Ri!AwaitChild
    PROVE  RiInv'
<1>1. RiTypeOK /\ children \in Nat \ {0}
  BY RiParameters DEF RiInv
<1>2. /\ mpc = "await" /\ i' \in 0 .. children - 1
      /\ \/ i' = i + 1 /\ mpc' = "await"
         \/ i + 1 = children /\ i' = 0 /\ mpc' = "release"
  BY <1>1, TurnCases DEF Ri!AwaitChild
<1>3. /\ mainWait > 0 /\ mainWait' = mainWait - 1
      /\ UNCHANGED <<childrenWait, criticalSection, data, file, cpc, round, tpc, max_child_id>>
  BY DEF Ri!AwaitChild
<1>4. RiTypeOK' /\ NotForked' /\ NoThreads' /\ Ri!Final'
  BY <1>1, <1>2, <1>3 DEF RiInv, RiTypeOK, NotForked, NoThreads, Ri!Final
<1>5. Count(Ri!Children, cpc, Arrived) \in Nat /\ Count(Ri!Children, cpc, Begun) \in Nat
  BY RiParameters, CountType
<1>6. Arrivals'
  BY <1>1, <1>2, <1>3, <1>5 DEF RiInv, RiTypeOK, Arrivals, Awaited
<1>7. Releases'
  BY <1>1, <1>2, <1>3, <1>5 DEF RiInv, RiTypeOK, Releases, Released
<1>8. Reaped' /\ Appended'
  BY <1>2, <1>3 DEF RiInv, Reaped, Appended, Ri!Accesses
<1> QED BY <1>4, <1>6, <1>7, <1>8 DEF RiInv

LEMMA ReleaseStep ==
    ASSUME RiInv, Ri!ReleaseChild
    PROVE  RiInv'
<1>1. RiTypeOK /\ children \in Nat \ {0}
  BY RiParameters DEF RiInv
<1>2. /\ mpc = "release" /\ i' \in 0 .. children - 1
      /\ \/ i' = i + 1 /\ mpc' = "release"
         \/ i + 1 = children /\ i' = 0 /\ mpc' = "sleep"
  BY <1>1, TurnCases DEF Ri!ReleaseChild
<1>3. /\ childrenWait' = childrenWait + 1
      /\ UNCHANGED <<mainWait, criticalSection, data, file, cpc, round, tpc, max_child_id>>
  BY DEF Ri!ReleaseChild
<1>4. RiTypeOK' /\ NotForked' /\ NoThreads' /\ Ri!Final'
  BY <1>1, <1>2, <1>3 DEF RiInv, RiTypeOK, NotForked, NoThreads, Ri!Final
<1>5. Count(Ri!Children, cpc, Arrived) \in Nat /\ Count(Ri!Children, cpc, Begun) \in Nat
  BY RiParameters, CountType
<1>6. Arrivals'
  BY <1>1, <1>2, <1>3, <1>5 DEF RiInv, RiTypeOK, Arrivals, Awaited
<1>7. Releases'
  <2>1. childrenWait + Count(Ri!Children, cpc, Begun) = i /\ childrenWait \in Nat /\ i \in Nat
    BY <1>1, <1>2 DEF RiInv, RiTypeOK, Releases, Released
  <2>2. childrenWait' + Count(Ri!Children, cpc, Begun)' = i + 1
    BY <1>3, <1>5, <2>1
  <2> QED BY <1>2, <2>2 DEF Releases, Released
<1>8. Reaped' /\ Appended'
  BY <1>2, <1>3 DEF RiInv, Reaped, Appended, Ri!Accesses
<1> QED BY <1>4, <1>6, <1>7, <1>8 DEF RiInv

LEMMA WakeUpStep ==
    ASSUME RiInv, Ri!WakeUp
    PROVE  RiInv'
<1>1. /\ mpc = "sleep" /\ mpc' = "wait" /\ data' = 1
      /\ UNCHANGED <<i, Ri!sems, file, cpc, round, tpc, max_child_id>>
  BY DEF Ri!WakeUp
<1>2. RiTypeOK' /\ NotForked' /\ NoThreads' /\ Ri!Final'
  BY <1>1 DEF RiInv, RiTypeOK, NotForked, NoThreads, Ri!Final, Ri!sems
<1>3. Arrivals' /\ Releases' /\ Appended'
  BY <1>1 DEF RiInv, Arrivals, Releases, Appended, Awaited, Released, Ri!Accesses, Ri!sems
<1> QED BY <1>1, <1>2, <1>3 DEF RiInv, Reaped

LEMMA ChildGains ==
    ASSUME RiTypeOK, NEW c \in Ri!Children, NEW to,
           cpc' = [cpc EXCEPT ![c] = to], NEW T
    PROVE  Gains(cpc[c], to, T) /\ Count(Ri!Children, cpc, T) \in Nat
<1>1. Count(Ri!Children, cpc, T) \in Nat
  BY RiParameters, CountType
<1>2. CASE to \in T /\ cpc[c] \notin T
  <2>1. Count(Ri!Children, cpc', T) = Count(Ri!Children, cpc, T) + 1
    BY <1>2, ChildMove
  <2> QED BY <1>1, <1>2, <2>1 DEF Gain, Gains
<1>3. CASE to \notin T /\ cpc[c] \in T
  <2>1. Count(Ri!Children, cpc', T) = Count(Ri!Children, cpc, T) - 1
    BY <1>3, ChildMove
  <2> QED BY <1>1, <1>3, <2>1 DEF Gain, Gains
<1>4. CASE to \in T <=> cpc[c] \in T
  <2>1. Count(Ri!Children, cpc', T) = Count(Ri!Children, cpc, T)
    BY <1>4, ChildMove
  <2> QED BY <1>1, <1>4, <2>1 DEF Gain, Gains
<1> QED BY <1>2, <1>3, <1>4, <1>1

LEMMA WaitStep ==
    ASSUME RiInv, Ri!WaitChild
    PROVE  RiInv'
<1>1. RiTypeOK /\ children \in Nat \ {0}
  BY RiParameters DEF RiInv
<1>2. /\ mpc = "wait" /\ i' \in 0 .. children - 1
      /\ \/ i' = i + 1 /\ mpc' = "wait"
         \/ i + 1 = children /\ i' = 0 /\ mpc' = "parse"
  BY <1>1, TurnCases DEF Ri!WaitChild
<1>3. PICK c \in Ri!Children : cpc[c] = "exited" /\ cpc' = [cpc EXCEPT ![c] = "reaped"]
  BY DEF Ri!WaitChild
<1>4. UNCHANGED <<mainWait, childrenWait, criticalSection, data, file, round, tpc, max_child_id>>
  BY DEF Ri!WaitChild, Ri!sems
<1>5. Count(Ri!Children, cpc', Arrived) = Count(Ri!Children, cpc, Arrived)
  <2>1. Gains("exited", "reaped", Arrived) /\ Count(Ri!Children, cpc, Arrived) \in Nat
    BY <1>1, <1>3, ChildGains
  <2> QED BY <2>1 DEF Gains, Gain, Arrived
<1>6. Count(Ri!Children, cpc', Begun) = Count(Ri!Children, cpc, Begun)
  <2>1. Gains("exited", "reaped", Begun) /\ Count(Ri!Children, cpc, Begun) \in Nat
    BY <1>1, <1>3, ChildGains
  <2> QED BY <2>1 DEF Gains, Gain, Begun
<1>7. Count(Ri!Children, cpc', {"reaped"}) = Count(Ri!Children, cpc, {"reaped"}) + 1
  <2>1. Gains("exited", "reaped", {"reaped"}) /\ Count(Ri!Children, cpc, {"reaped"}) \in Nat
    BY <1>1, <1>3, ChildGains
  <2> QED BY <2>1 DEF Gains, Gain
<1>8. RiTypeOK' /\ NotForked' /\ Ri!Final'
  BY <1>1, <1>2, <1>3, <1>4 DEF RiTypeOK, NotForked, Ri!Final
<1>9. NoThreads'
  BY <1>1, <1>3, <1>4 DEF RiInv, NoThreads, RiTypeOK
<1>10. Arrivals' /\ Releases'
  BY <1>2, <1>4, <1>5, <1>6 DEF RiInv, Arrivals, Releases, Awaited, Released
<1>11. Reaped'
  BY <1>1, <1>2, <1>7 DEF RiInv, RiTypeOK, Reaped
<1>12. Appended'
  BY <1>4 DEF RiInv, Appended, Ri!Accesses
<1> QED BY <1>8, <1>9, <1>10, <1>11, <1>12 DEF RiInv

LEMMA ParseStep ==
    ASSUME RiInv, Ri!ParseOutput
    PROVE  RiInv'
<1> DEFINE First(c) == /\ \A d \in Ri!Children : Ri!Accesses(d) <= Ri!Accesses(c)
                       /\ \A d \in 0 .. c - 1 : Ri!Accesses(d) < Ri!Accesses(c)
<1>1. /\ mpc = "parse" /\ mpc' = "done"
      /\ max_child_id' = CHOOSE c \in Ri!Children : First(c)
      /\ UNCHANGED <<i, Ri!sems, data, file, cpc, round, tpc>>
  BY DEF Ri!ParseOutput
<1>2. RiTypeOK /\ Ri!Children \subseteq Int /\ threads \in Nat \ {0}
  BY RiParameters DEF RiInv, Ri!Children
<1>3. max_child_id' \in Ri!Children /\ First(max_child_id')
  <2>1. \E c \in Ri!Children : First(c)
    BY FirstMost DEF RiInv, RiTypeOK
  <2> HIDE DEF First
  <2> QED BY <1>1, <2>1
<1>4. \A c \in Ri!Children : cpc[c] = "reaped" /\ Ri!Accesses(c) = threads * round[c]
  BY <1>1, AllReaped
<1>5. ASSUME NEW c \in Ri!Children PROVE round[c] <= round[max_child_id']
  <2> DEFINE x == round[c]
             y == round[max_child_id']
  <2>1. x \in Nat /\ y \in Nat
    BY <1>2, <1>3 DEF RiTypeOK
  <2>2. Ri!Accesses(c) = threads * x /\ Ri!Accesses(max_child_id') = threads * y
    BY <1>3, <1>4
  <2>3. threads * x <= threads * y
    BY <1>3, <2>2
  <2> HIDE DEF x, y
  <2>4. ASSUME x >= y + 1 PROVE FALSE
    <3>1. threads * x >= threads * (y + 1)
      BY <1>2, <2>1, <2>4
    <3>2. threads * (y + 1) = threads * y + threads
      BY <1>2, <2>1
    <3>3. threads * x \in Int /\ threads * y \in Int
      BY <1>2, <2>1
    <3> QED BY <1>2, <2>3, <3>1, <3>2, <3>3
  <2>5. x <= y
    BY <2>1, <2>4
  <2> QED BY <2>5 DEF x, y
<1>6. RiTypeOK'
  BY <1>1, <1>2, <1>3 DEF RiTypeOK, Ri!sems
<1>7. NotForked' /\ NoThreads'
  BY <1>1 DEF RiInv, NotForked, NoThreads
<1>8. Arrivals' /\ Releases' /\ Reaped'
  BY <1>1 DEF RiInv, Arrivals, Releases, Reaped, Awaited, Released, Ri!sems
<1>9. Appended'
  BY <1>1 DEF RiInv, Appended, Ri!Accesses
<1>10. Ri!Final'
  <2>1. \A c \in Ri!Children : Ri!Accesses(c)' = Ri!Accesses(c)
    BY <1>1 DEF Ri!Accesses
  <2>2. \A c \in Ri!Children : cpc'[c] = "reaped" /\ Ri!Accesses(c)' = threads * round'[c]
    BY <1>1, <1>4, <2>1
  <2>3. \A c \in Ri!Children : round'[c] <= round'[max_child_id']
    BY <1>1, <1>5
  <2> QED BY <2>2, <2>3 DEF Ri!Final
<1> QED BY <1>6, <1>7, <1>8, <1>9, <1>10 DEF RiInv

-----------------------------------------------------------------------------
(* The invariant is inductive: a child. *)

\* A move of a child disturbs neither main's loops nor the report.
LEMMA ChildBasics ==
    ASSUME RiInv, NEW c \in Ri!Children, NEW from, NEW to,
           Ri!CMove(c, from, to), from \notin {"none", "reaped"}, to # "reaped"
    PROVE  /\ UNCHANGED <<mpc, i, criticalSection, data, file, max_child_id>>
           /\ cpc' = [cpc EXCEPT ![c] = to] /\ cpc[c] = from
           /\ NotForked' /\ Reaped' /\ Ri!Final'
           /\ Gains(from, to, Arrived) /\ Count(Ri!Children, cpc, Arrived) \in Nat
           /\ Gains(from, to, Begun) /\ Count(Ri!Children, cpc, Begun) \in Nat
<1>1. /\ UNCHANGED <<mpc, i, criticalSection, data, file, max_child_id>>
      /\ cpc' = [cpc EXCEPT ![c] = to] /\ cpc[c] = from /\ RiTypeOK
  BY DEF Ri!CMove, RiInv
<1>2. \A T : Gains(from, to, T) /\ Count(Ri!Children, cpc, T) \in Nat
  <2> SUFFICES ASSUME NEW T PROVE Gains(from, to, T) /\ Count(Ri!Children, cpc, T) \in Nat
    OBVIOUS
  <2> QED BY <1>1, ChildGains
<1>3. NotForked'
  BY <1>1 DEF RiInv, NotForked, RiTypeOK
<1>4. Reaped'
  <2>1. Count(Ri!Children, cpc', {"reaped"}) = Count(Ri!Children, cpc, {"reaped"})
    <3>1. Gains(from, to, {"reaped"}) /\ Count(Ri!Children, cpc, {"reaped"}) \in Nat
      BY <1>2
    <3> QED BY <3>1 DEF Gains, Gain
  <2> QED BY <1>1, <2>1 DEF RiInv, Reaped
<1>5. Ri!Final'
  <2>1. mpc # "done"
    BY <1>1, AllReaped
  <2> QED BY <1>1, <2>1 DEF Ri!Final
<1> QED BY <1>1, <1>2, <1>3, <1>4, <1>5

LEMMA ReadyStep ==
    ASSUME RiInv, NEW c \in Ri!Children, Ri!Ready(c)
    PROVE  RiInv'
<1>1. Ri!CMove(c, "ready", "blocked") /\ RiTypeOK
  BY DEF Ri!Ready, RiInv
<1>2. /\ UNCHANGED <<mpc, i, criticalSection, data, file, max_child_id>>
      /\ cpc' = [cpc EXCEPT ![c] = "blocked"] /\ cpc[c] = "ready"
      /\ NotForked' /\ Reaped' /\ Ri!Final'
      /\ Gains("ready", "blocked", Arrived) /\ Count(Ri!Children, cpc, Arrived) \in Nat
      /\ Gains("ready", "blocked", Begun) /\ Count(Ri!Children, cpc, Begun) \in Nat
  BY <1>1, ChildBasics
<1>3. mainWait' = mainWait + 1 /\ UNCHANGED <<childrenWait, round, tpc>>
  BY DEF Ri!Ready
<1>4. RiTypeOK' /\ NoThreads'
  BY <1>1, <1>2, <1>3 DEF RiTypeOK, RiInv, NoThreads
<1>5. Arrivals'
  <2>1. Count(Ri!Children, cpc', Arrived) = Count(Ri!Children, cpc, Arrived) + 1
    BY <1>2 DEF Gains, Gain, Arrived
  <2>2. mainWait + Awaited = Count(Ri!Children, cpc, Arrived) /\ Awaited' = Awaited
    BY <1>2 DEF RiInv, Arrivals, Awaited
  <2>3. Awaited \in Int /\ mainWait \in Int
    BY <1>1, RiParameters DEF RiTypeOK, Awaited
  <2> QED BY <1>3, <2>1, <2>2, <2>3 DEF Arrivals
<1>6. Releases'
  <2>1. Count(Ri!Children, cpc', Begun) = Count(Ri!Children, cpc, Begun)
    BY <1>2 DEF Gains, Gain, Begun
  <2> QED BY <1>2, <1>3, <2>1 DEF RiInv, Releases, Released
<1>7. Appended'
  BY <1>2, <1>3 DEF RiInv, Appended, Ri!Accesses
<1> QED BY <1>2, <1>4, <1>5, <1>6, <1>7 DEF RiInv

LEMMA BeginStep ==
    ASSUME RiInv, NEW c \in Ri!Children, Ri!Begin(c)
    PROVE  RiInv'
<1>1. Ri!CMove(c, "blocked", "create") /\ RiTypeOK
  BY DEF Ri!Begin, RiInv
<1>2. /\ UNCHANGED <<mpc, i, criticalSection, data, file, max_child_id>>
      /\ cpc' = [cpc EXCEPT ![c] = "create"] /\ cpc[c] = "blocked"
      /\ NotForked' /\ Reaped' /\ Ri!Final'
      /\ Gains("blocked", "create", Arrived) /\ Count(Ri!Children, cpc, Arrived) \in Nat
      /\ Gains("blocked", "create", Begun) /\ Count(Ri!Children, cpc, Begun) \in Nat
  BY <1>1, ChildBasics
<1>3. /\ childrenWait > 0 /\ childrenWait' = childrenWait - 1
      /\ UNCHANGED <<mainWait, round, tpc>>
  BY DEF Ri!Begin
<1>4. RiTypeOK' /\ NoThreads'
  BY <1>1, <1>2, <1>3 DEF RiTypeOK, RiInv, NoThreads
<1>5. Arrivals'
  <2>1. Count(Ri!Children, cpc', Arrived) = Count(Ri!Children, cpc, Arrived)
    BY <1>2 DEF Gains, Gain, Arrived
  <2> QED BY <1>2, <1>3, <2>1 DEF RiInv, Arrivals, Awaited
<1>6. Releases'
  <2>1. Count(Ri!Children, cpc', Begun) = Count(Ri!Children, cpc, Begun) + 1
    BY <1>2 DEF Gains, Gain, Begun
  <2>2. childrenWait + Count(Ri!Children, cpc, Begun) = Released /\ Released' = Released
    BY <1>2 DEF RiInv, Releases, Released
  <2>3. childrenWait \in Nat /\ Count(Ri!Children, cpc, Begun) \in Nat
    BY <1>1, <1>2 DEF RiTypeOK
  <2> QED BY <1>3, <2>1, <2>2, <2>3 DEF Releases
<1>7. Appended'
  BY <1>2, <1>3 DEF RiInv, Appended, Ri!Accesses
<1> QED BY <1>2, <1>4, <1>5, <1>6, <1>7 DEF RiInv

LEMMA CreateStep ==
    ASSUME RiInv, NEW c \in Ri!Children, Ri!Create(c)
    PROVE  RiInv'
<1>1. PICK t \in Ri!Threads :
          /\ tpc[c][t] = "none" /\ tpc' = [tpc EXCEPT ![c][t] = "wait"]
          /\ Ri!CMove(c, "create", IF t = threads - 1 THEN "join" ELSE "create")
  BY DEF Ri!Create
<1> DEFINE to == IF t = threads - 1 THEN "join" ELSE "create"
<1>2. to \in {"join", "create"} /\ Ri!CMove(c, "create", to) /\ RiTypeOK
  BY <1>1 DEF RiInv
<1> HIDE DEF to
<1>3. /\ UNCHANGED <<mpc, i, criticalSection, data, file, max_child_id>>
      /\ cpc' = [cpc EXCEPT ![c] = to] /\ cpc[c] = "create"
      /\ NotForked' /\ Reaped' /\ Ri!Final'
      /\ Gains("create", to, Arrived) /\ Count(Ri!Children, cpc, Arrived) \in Nat
      /\ Gains("create", to, Begun) /\ Count(Ri!Children, cpc, Begun) \in Nat
  BY <1>2, ChildBasics
<1>4. UNCHANGED <<mainWait, childrenWait, round>>
  BY DEF Ri!Create
<1>5. RiTypeOK'
  BY <1>1, <1>2, <1>3, <1>4 DEF RiTypeOK
<1>6. /\ Count(Ri!Children, cpc', Arrived) = Count(Ri!Children, cpc, Arrived)
      /\ Count(Ri!Children, cpc', Begun) = Count(Ri!Children, cpc, Begun)
  BY <1>2, <1>3 DEF Gains, Gain, Arrived, Begun
<1>7. Arrivals' /\ Releases'
  BY <1>3, <1>4, <1>6 DEF RiInv, Arrivals, Releases, Awaited, Released
<1>8. /\ \A d \in Ri!Children \ {c} : tpc'[d] = tpc[d]
      /\ Count(Ri!Threads, tpc'[c], {"post", "exited"}) = Count(Ri!Threads, tpc[c], {"post", "exited"})
  <2> DEFINE T == {"post", "exited"}
  <2>1. "wait" \notin T /\ tpc[c][t] \notin T
    BY <1>1
  <2>2. tpc' = [tpc EXCEPT ![c][t] = "wait"]
    BY <1>1
  <2> HIDE DEF T
  <2>3. /\ \A d \in Ri!Children \ {c} : tpc'[d] = tpc[d]
        /\ ThreadGains(c, tpc[c][t], "wait", T) /\ Count(Ri!Threads, tpc[c], T) \in Nat
    BY <1>2, <2>2, ThreadMove
  <2> QED BY <2>1, <2>3 DEF T, Gain, ThreadGains
<1>9. NoThreads'
  BY <1>2, <1>3, <1>8 DEF RiTypeOK, RiInv, NoThreads
<1>10. Appended'
  BY <1>3, <1>4, <1>8 DEF RiInv, Appended, Ri!Accesses
<1> QED BY <1>3, <1>5, <1>7, <1>9, <1>10 DEF RiInv

LEMMA JoinStep ==
    ASSUME RiInv, NEW c \in Ri!Children, Ri!Join(c)
    PROVE  RiInv'
<1>1. Ri!CMove(c, "join", "check") /\ RiTypeOK
  BY DEF Ri!Join, RiInv
<1>2. /\ UNCHANGED <<mpc, i, criticalSection, data, file, max_child_id>>
      /\ cpc' = [cpc EXCEPT ![c] = "check"] /\ cpc[c] = "join"
      /\ NotForked' /\ Reaped' /\ Ri!Final'
      /\ Gains("join", "check", Arrived) /\ Count(Ri!Children, cpc, Arrived) \in Nat
      /\ Gains("join", "check", Begun) /\ Count(Ri!Children, cpc, Begun) \in Nat
  BY <1>1, ChildBasics
<1>3. /\ \A t \in Ri!Threads : tpc[c][t] = "exited"
      /\ tpc' = [tpc EXCEPT ![c] = [t \in Ri!Threads |-> "none"]]
      /\ round' = [round EXCEPT ![c] = @ + 1]
      /\ UNCHANGED <<mainWait, childrenWait>>
  BY DEF Ri!Join
<1>4. RiTypeOK' /\ NoThreads'
  BY <1>1, <1>2, <1>3 DEF RiTypeOK, RiInv, NoThreads
<1>5. /\ Count(Ri!Children, cpc', Arrived) = Count(Ri!Children, cpc, Arrived)
      /\ Count(Ri!Children, cpc', Begun) = Count(Ri!Children, cpc, Begun)
  BY <1>2 DEF Gains, Gain, Arrived, Begun
<1>6. Arrivals' /\ Releases'
  BY <1>2, <1>3, <1>5 DEF RiInv, Arrivals, Releases, Awaited, Released
<1>7. Count(Ri!Threads, tpc[c], {"post", "exited"}) = threads
  <2> DEFINE f == tpc[c]
  <2>1. \A t \in Ri!Threads : f[t] \in {"post", "exited"}
    BY <1>3
  <2> HIDE DEF f
  <2>2. Count(Ri!Threads, f, {"post", "exited"}) = threads
    BY <2>1, RiParameters, CountAll
  <2> QED BY <2>2 DEF f
<1>8. Count(Ri!Threads, tpc'[c], {"post", "exited"}) = 0
  <2> DEFINE f == tpc'[c]
  <2>1. \A t \in Ri!Threads : f[t] \notin {"post", "exited"}
    BY <1>1, <1>3 DEF RiTypeOK
  <2> HIDE DEF f
  <2>2. Count(Ri!Threads, f, {"post", "exited"}) = 0
    BY <2>1, CountNone
  <2> QED BY <2>2 DEF f
<1>9. /\ round[c] \in Nat /\ round'[c] = round[c] + 1 /\ threads \in Nat
      /\ \A d \in Ri!Children \ {c} : round'[d] = round[d] /\ tpc'[d] = tpc[d]
      /\ \A d \in Ri!Children : Ri!Accesses(d)' = Ri!Accesses(d)
  BY <1>1, <1>2, <1>3, RiParameters DEF RiTypeOK, Ri!Accesses
<1>10. threads * (round[c] + 1) + 0 = threads * round[c] + threads
  BY <1>9
<1>11. Ri!Accesses(c)' = threads * round'[c] + Count(Ri!Threads, tpc'[c], {"post", "exited"})
  BY <1>7, <1>8, <1>9, <1>10 DEF RiInv, Appended
<1>12. Appended'
  BY <1>9, <1>11 DEF RiInv, Appended
<1> QED BY <1>2, <1>4, <1>6, <1>12 DEF RiInv

LEMMA CheckStep ==
    ASSUME RiInv, NEW c \in Ri!Children, Ri!Check(c)
    PROVE  RiInv'
<1> DEFINE to == IF data = 1 THEN "exited" ELSE "create"
<1>1. to \in {"exited", "create"} /\ Ri!CMove(c, "check", to) /\ RiTypeOK
  BY DEF Ri!Check, RiInv
<1> HIDE DEF to
<1>2. /\ UNCHANGED <<mpc, i, criticalSection, data, file, max_child_id>>
      /\ cpc' = [cpc EXCEPT ![c] = to] /\ cpc[c] = "check"
      /\ NotForked' /\ Reaped' /\ Ri!Final'
      /\ Gains("check", to, Arrived) /\ Count(Ri!Children, cpc, Arrived) \in Nat
      /\ Gains("check", to, Begun) /\ Count(Ri!Children, cpc, Begun) \in Nat
  BY <1>1, ChildBasics
<1>3. UNCHANGED <<mainWait, childrenWait, round, tpc>>
  BY DEF Ri!Check
<1>4. RiTypeOK' /\ NoThreads'
  BY <1>1, <1>2, <1>3 DEF RiTypeOK, RiInv, NoThreads
<1>5. /\ Count(Ri!Children, cpc', Arrived) = Count(Ri!Children, cpc, Arrived)
      /\ Count(Ri!Children, cpc', Begun) = Count(Ri!Children, cpc, Begun)
  BY <1>1, <1>2 DEF Gains, Gain, Arrived, Begun
<1>6. Arrivals' /\ Releases'
  BY <1>2, <1>3, <1>5 DEF RiInv, Arrivals, Releases, Awaited, Released
<1>7. Appended'
  BY <1>2, <1>3 DEF RiInv, Appended, Ri!Accesses
<1> QED BY <1>2, <1>4, <1>6, <1>7 DEF RiInv

-----------------------------------------------------------------------------
(* The invariant is inductive: a thread, and the rest. *)

\* A move of a thread disturbs neither main nor the children.
LEMMA ThreadBasics ==
    ASSUME RiInv, NEW c \in Ri!Children, NEW t \in Ri!Threads,
           NEW from, NEW to, Ri!TMove(c, t, from, to), from # "none"
    PROVE  /\ UNCHANGED <<mpc, i, mainWait, childrenWait, data, cpc, round, max_child_id>>
           /\ tpc' = [tpc EXCEPT ![c][t] = to] /\ tpc[c][t] = from
           /\ NotForked' /\ Arrivals' /\ Releases' /\ Reaped' /\ NoThreads' /\ Ri!Final'
<1>1. /\ UNCHANGED <<mpc, i, mainWait, childrenWait, data, cpc, round, max_child_id>>
      /\ tpc' = [tpc EXCEPT ![c][t] = to] /\ tpc[c][t] = from /\ RiTypeOK
  BY DEF Ri!TMove, RiInv
<1>2. NotForked' /\ Arrivals' /\ Releases' /\ Reaped'
  BY <1>1 DEF RiInv, NotForked, Arrivals, Releases, Reaped, Awaited, Released
<1>3. cpc[c] \in {"create", "join"}
  BY <1>1 DEF RiInv, NoThreads
<1>4. NoThreads'
  BY <1>1, <1>3 DEF RiInv, NoThreads, RiTypeOK
<1>5. Ri!Final'
  <2>1. mpc # "done"
    BY <1>3, AllReaped
  <2> QED BY <1>1, <2>1 DEF Ri!Final
<1> QED BY <1>1, <1>2, <1>4, <1>5

LEMMA ThreadStep ==
    ASSUME RiInv, NEW c \in Ri!Children, NEW t \in Ri!Threads, Ri!Thread(c, t)
    PROVE  RiInv'
<1> DEFINE T == {"post", "exited"}
<1>1. RiTypeOK
  BY DEF RiInv
<1>2. \A d \in Ri!Children : Ri!Accesses(d) \in Nat
  BY <1>1, AccessesBound DEF RiTypeOK
<1>3. \A d \in Ri!Children :
          /\ threads * round[d] \in Nat /\ Count(Ri!Threads, tpc[d], T) \in Nat
          /\ Ri!Accesses(d) = threads * round[d] + Count(Ri!Threads, tpc[d], T)
  <2>1. \A d \in Ri!Children : threads * round[d] \in Nat
    BY <1>1, RiParameters DEF RiTypeOK
  <2>2. \A d \in Ri!Children : Count(Ri!Threads, tpc[d], T) \in Nat
    BY RiParameters, CountType
  <2> QED BY <2>1, <2>2 DEF RiInv, Appended
<1>4. CASE Ri!Enter(c, t)
  <2>1. Ri!TMove(c, t, "wait", "append")
    BY <1>4 DEF Ri!Enter
  <2>2. /\ UNCHANGED <<mpc, i, mainWait, childrenWait, data, cpc, round, max_child_id>>
        /\ tpc' = [tpc EXCEPT ![c][t] = "append"] /\ tpc[c][t] = "wait"
        /\ NotForked' /\ Arrivals' /\ Releases' /\ Reaped' /\ NoThreads' /\ Ri!Final'
    BY <2>1, ThreadBasics
  <2>3. criticalSection > 0 /\ criticalSection' = criticalSection - 1 /\ UNCHANGED file
    BY <1>4 DEF Ri!Enter
  <2>4. RiTypeOK'
    BY <1>1, <2>2, <2>3 DEF RiTypeOK
  <2>5. "append" \notin T /\ "wait" \notin T
    OBVIOUS
  <2> HIDE DEF T
  <2>6. /\ \A d \in Ri!Children \ {c} : tpc'[d] = tpc[d]
        /\ ThreadGains(c, "wait", "append", T) /\ Count(Ri!Threads, tpc[c], T) \in Nat
    BY <1>1, <2>2, ThreadMove
  <2>7. Count(Ri!Threads, tpc'[c], T) = Count(Ri!Threads, tpc[c], T)
    BY <2>5, <2>6 DEF ThreadGains, Gain
  <2>8. Appended'
    BY <1>3, <2>2, <2>3, <2>6, <2>7 DEF Appended, Ri!Accesses, T
  <2> QED BY <2>2, <2>4, <2>8 DEF RiInv
<1>5. CASE Ri!Append_(c, t)
  <2>1. Ri!TMove(c, t, "append", "post")
    BY <1>5 DEF Ri!Append_
  <2>2. /\ UNCHANGED <<mpc, i, mainWait, childrenWait, data, cpc, round, max_child_id>>
        /\ tpc' = [tpc EXCEPT ![c][t] = "post"] /\ tpc[c][t] = "append"
        /\ NotForked' /\ Arrivals' /\ Releases' /\ Reaped' /\ NoThreads' /\ Ri!Final'
    BY <2>1, ThreadBasics
  <2>3. file' = Append(file, c) /\ UNCHANGED criticalSection
    BY <1>5 DEF Ri!Append_
  <2>4. RiTypeOK'
    BY <1>1, <2>2, <2>3 DEF RiTypeOK
  <2>5. "post" \in T /\ "append" \notin T
    OBVIOUS
  <2> HIDE DEF T
  <2>6. /\ \A d \in Ri!Children \ {c} : tpc'[d] = tpc[d]
        /\ ThreadGains(c, "append", "post", T) /\ Count(Ri!Threads, tpc[c], T) \in Nat
    BY <1>1, <2>2, ThreadMove
  <2>7. Count(Ri!Threads, tpc'[c], T) = Count(Ri!Threads, tpc[c], T) + 1
    BY <2>5, <2>6 DEF ThreadGains, Gain
  <2>8. /\ Ri!Accesses(c)' = Ri!Accesses(c) + 1
        /\ \A d \in Ri!Children \ {c} : Ri!Accesses(d)' = Ri!Accesses(d)
    BY <1>1, <2>3, OneAccess DEF RiTypeOK
  <2>9. Ri!Accesses(c)' = threads * round[c] + Count(Ri!Threads, tpc'[c], T)
    BY <1>2, <1>3, <2>7, <2>8
  <2>10. Appended'
    BY <1>3, <2>2, <2>6, <2>8, <2>9 DEF Appended, T
  <2> QED BY <2>2, <2>4, <2>10 DEF RiInv
<1>6. CASE Ri!Exit(c, t)
  <2>1. Ri!TMove(c, t, "post", "exited")
    BY <1>6 DEF Ri!Exit
  <2>2. /\ UNCHANGED <<mpc, i, mainWait, childrenWait, data, cpc, round, max_child_id>>
        /\ tpc' = [tpc EXCEPT ![c][t] = "exited"] /\ tpc[c][t] = "post"
        /\ NotForked' /\ Arrivals' /\ Releases' /\ Reaped' /\ NoThreads' /\ Ri!Final'
    BY <2>1, ThreadBasics
  <2>3. criticalSection' = criticalSection + 1 /\ UNCHANGED file
    BY <1>6 DEF Ri!Exit
  <2>4. RiTypeOK'
    BY <1>1, <2>2, <2>3 DEF RiTypeOK
  <2>5. "post" \in T /\ "exited" \in T
    OBVIOUS
  <2> HIDE DEF T
  <2>6. /\ \A d \in Ri!Children \ {c} : tpc'[d] = tpc[d]
        /\ ThreadGains(c, "post", "exited", T) /\ Count(Ri!Threads, tpc[c], T) \in Nat
    BY <1>1, <2>2, ThreadMove
  <2>7. Count(Ri!Threads, tpc'[c], T) = Count(Ri!Threads, tpc[c], T)
    BY <2>5, <2>6 DEF ThreadGains, Gain
  <2>8. Appended'
    BY <1>3, <2>2, <2>3, <2>6, <2>7 DEF Appended, Ri!Accesses, T
  <2> QED BY <2>2, <2>4, <2>8 DEF RiInv
<1> QED BY <1>4, <1>5, <1>6 DEF Ri!Thread

LEMMA RiInitially ==
    ASSUME Ri!Init
    PROVE  RiInv
<1>1. children \in Nat \ {0} /\ threads \in Nat \ {0} /\ 0 \in 0 .. children - 1
  BY RiParameters
<1>2. RiTypeOK /\ NotForked /\ NoThreads /\ Ri!Final
  BY <1>1 DEF Ri!Init, RiTypeOK, NotForked, NoThreads, Ri!Final
<1>3. ASSUME NEW T, "none" \notin T
      PROVE  Count(Ri!Children, cpc, T) = 0
             /\ \A c \in Ri!Children : Count(Ri!Threads, tpc[c], T) = 0
  <2>1. \A c \in Ri!Children : cpc[c] \notin T
    BY <1>3 DEF Ri!Init
  <2>2. ASSUME NEW c \in Ri!Children PROVE Count(Ri!Threads, tpc[c], T) = 0
    <3> DEFINE f == tpc[c]
    <3>1. \A t \in Ri!Threads : f[t] \notin T
      BY <1>3 DEF Ri!Init
    <3> HIDE DEF f
    <3>2. Count(Ri!Threads, f, T) = 0
      BY <3>1, CountNone
    <3> QED BY <3>2 DEF f
  <2> QED BY <2>1, <2>2, CountNone
<1>4. "none" \notin Arrived /\ "none" \notin Begun
  BY DEF Arrived, Begun
<1>5. Arrivals
  <2>1. Count(Ri!Children, cpc, Arrived) = 0
    BY <1>3, <1>4
  <2> QED BY <2>1 DEF Ri!Init, Arrivals, Awaited
<1>6. Releases
  <2>1. Count(Ri!Children, cpc, Begun) = 0
    BY <1>3, <1>4
  <2> QED BY <2>1 DEF Ri!Init, Releases, Released
<1>7. Reaped
  <2>1. Count(Ri!Children, cpc, {"reaped"}) = 0
    BY <1>3
  <2> QED BY <2>1 DEF Ri!Init, Reaped
<1>8. Appended
  <2>1. \A c \in Ri!Children : Count(Ri!Threads, tpc[c], {"post", "exited"}) = 0
    BY <1>3
  <2>2. \A c \in Ri!Children : Ri!Accesses(c) = 0
    <3>1. file = <<>> /\ \A c : {k \in DOMAIN <<>> : <<>>[k] = c} = {}
      BY DEF Ri!Init
    <3> QED BY <3>1, FS_EmptySet, SameCardinality DEF Ri!Accesses
  <2>3. \A c \in Ri!Children : threads * round[c] = 0
    BY <1>1 DEF Ri!Init
  <2> QED BY <2>1, <2>2, <2>3 DEF Appended
<1> QED BY <1>2, <1>5, <1>6, <1>7, <1>8 DEF RiInv

LEMMA RiInductive ==
    ASSUME RiInv, [Ri!Next]_riepilogoVars
    PROVE  RiInv'
<1>1. CASE UNCHANGED riepilogoVars
  <2>1. RiTypeOK' /\ NotForked' /\ Arrivals' /\ Releases' /\ Reaped'
    BY <1>1 DEF RiInv, RiTypeOK, NotForked, Arrivals, Releases, Reaped, Awaited, Released, riepilogoVars
  <2>2. NoThreads' /\ Appended' /\ Ri!Final'
    BY <1>1 DEF RiInv, NoThreads, Appended, Ri!Accesses, Ri!Final, riepilogoVars
  <2> QED BY <2>1, <2>2 DEF RiInv
<1>2. CASE Ri!Main
  BY <1>2, ForkStep, AwaitStep, ReleaseStep, WakeUpStep, WaitStep, ParseStep DEF Ri!Main
<1>3. CASE Ri!ForkFailure
  BY <1>3, ForkFailureStep
<1>4. CASE \E c \in Ri!Children : Ri!Child(c)
  BY <1>4, ReadyStep, BeginStep, CreateStep, JoinStep, CheckStep DEF Ri!Child
<1>5. CASE \E c \in Ri!Children : \E t \in Ri!Threads : Ri!Thread(c, t)
  BY <1>5, ThreadStep
<1> QED BY <1>1, <1>2, <1>3, <1>4, <1>5 DEF Ri!Next

(* Scheduler. *)

Holds == {"work", "post"}

\* Until main frees the semaphore, each of the resources is a token of it or a
\* thread that holds one; a thread that main has not spawned yet does nothing.
ScInv ==
    /\ dpc \in {"read", "spawn", "failed", "exited"}
    /\ thread_ID \in Nat /\ toSpawn \in Nat /\ semaphore \in Nat /\ freed \in BOOLEAN
    /\ thpc \in [Sc!Ids -> {"none", "wait", "work", "post", "exited", "blocked"}]
    /\ dpc = "spawn" => toSpawn > 0 /\ thread_ID + toSpawn - 1 \in Sc!Ids
    /\ \A t \in Sc!Ids : t >= thread_ID => thpc[t] = "none"
    /\ ~freed => semaphore + Count(Sc!Ids, thpc, Holds) = NUM_RESOURCES

LEMMA ScParameters ==
    /\ NUM_RESOURCES \in Nat \ {0} /\ THREAD_BURST \in Nat /\ Sc!Ids \subseteq Nat
    /\ IsFiniteSet(Sc!Ids)
<1>1. NUM_RESOURCES \in Nat \ {0} /\ THREAD_BURST \in Nat /\ Bursts \in Nat
  BY StandaloneAssumption DEF Sc!SchedulerAssumption
<1>2. Bursts * THREAD_BURST - 1 \in Int
  BY <1>1
<1> DEFINE last == Bursts * THREAD_BURST - 1
<1> HIDE DEF last
<1>3. IsFiniteSet(0 .. last)
  BY <1>2, FS_Interval DEF last
<1>4. Sc!Ids = 0 .. last
  BY DEF Sc!Ids, last
<1> QED BY <1>1, <1>3, <1>4

\* A thread moves: the count of those that hold a resource changes by at most
\* that one.
LEMMA ScMove ==
    ASSUME ScInv, NEW t \in Sc!Ids, NEW to, thpc' = [thpc EXCEPT ![t] = to]
    PROVE  /\ to \in Holds /\ thpc[t] \notin Holds =>
                  Count(Sc!Ids, thpc', Holds) = Count(Sc!Ids, thpc, Holds) + 1
           /\ to \notin Holds /\ thpc[t] \in Holds =>
                  Count(Sc!Ids, thpc', Holds) = Count(Sc!Ids, thpc, Holds) - 1
           /\ (to \in Holds <=> thpc[t] \in Holds) =>
                  Count(Sc!Ids, thpc', Holds) = Count(Sc!Ids, thpc, Holds)
           /\ Count(Sc!Ids, thpc, Holds) \in Nat
<1> DEFINE f == thpc
           g == thpc'
<1>1. g[t] = to /\ \A y \in Sc!Ids \ {t} : g[y] = f[y]
  BY DEF ScInv
<1> HIDE DEF f, g
<1>2. /\ to \in Holds /\ f[t] \notin Holds => Count(Sc!Ids, g, Holds) = Count(Sc!Ids, f, Holds) + 1
      /\ to \notin Holds /\ f[t] \in Holds => Count(Sc!Ids, g, Holds) = Count(Sc!Ids, f, Holds) - 1
      /\ (to \in Holds <=> f[t] \in Holds) => Count(Sc!Ids, g, Holds) = Count(Sc!Ids, f, Holds)
      /\ Count(Sc!Ids, f, Holds) \in Nat
  BY <1>1, ScParameters, CountMove, CountType
<1> QED BY <1>2 DEF f, g

LEMMA ScInitially == Sc!Init => ScInv
<1> SUFFICES ASSUME Sc!Init PROVE ScInv
  OBVIOUS
<1>1. \A t \in Sc!Ids : thpc[t] \notin Holds
  BY DEF Sc!Init, Holds
<1>2. Count(Sc!Ids, thpc, Holds) = 0
  BY <1>1, CountNone
<1>3. NUM_RESOURCES \in Nat /\ NUM_RESOURCES + 0 = NUM_RESOURCES
  BY ScParameters
<1>4. freed = FALSE /\ semaphore = NUM_RESOURCES /\ dpc = "read" /\ thread_ID = 0 /\ toSpawn = 0
      /\ thpc = [t \in Sc!Ids |-> "none"]
  BY DEF Sc!Init
<1> QED BY <1>2, <1>3, <1>4 DEF ScInv

\* The driver.
LEMMA ScDriverStep ==
    ASSUME ScInv, Sc!Enter \/ Sc!Spawn \/ Sc!SpawnFails \/ Sc!EndOfInput
    PROVE  ScInv'
<1>1. CASE Sc!Enter
  <2>1. THREAD_BURST > 0
    <3>1. CASE THREAD_BURST = 0
      <4>1. Bursts * THREAD_BURST = 0
        BY <3>1, StandaloneAssumption DEF Sc!SchedulerAssumption
      <4> QED BY <1>1, <4>1 DEF Sc!Enter, Sc!Ids
    <3> QED BY <3>1, ScParameters
  <2> QED BY <1>1, <2>1, ScParameters DEF Sc!Enter, ScInv
<1>2. CASE Sc!Spawn
  <2>1. /\ dpc = "spawn" /\ toSpawn' = toSpawn - 1 /\ thread_ID' = thread_ID + 1
        /\ dpc' = (IF toSpawn = 1 THEN "read" ELSE "spawn")
        /\ thpc' = [thpc EXCEPT ![thread_ID] = "wait"] /\ UNCHANGED <<semaphore, freed>>
    BY <1>2 DEF Sc!Spawn
  <2>2. toSpawn > 0 /\ thread_ID + toSpawn - 1 \in Sc!Ids /\ toSpawn \in Nat /\ thread_ID \in Nat
    BY <2>1 DEF ScInv
  <2>3. thread_ID \in Sc!Ids
    BY <2>2, StandaloneAssumption DEF Sc!Ids, Sc!SchedulerAssumption
  <2>4. thpc[thread_ID] = "none"
    BY <2>2, <2>3 DEF ScInv
  <2>5. Count(Sc!Ids, thpc', Holds) = Count(Sc!Ids, thpc, Holds)
    <3>1. "wait" \in Holds <=> thpc[thread_ID] \in Holds
      BY <2>4 DEF Holds
    <3> QED BY <2>1, <2>3, <3>1, ScMove
  <2>6. dpc' = "spawn" => toSpawn' > 0 /\ thread_ID' + toSpawn' - 1 \in Sc!Ids
    BY <2>1, <2>2
  <2>7. thpc' \in [Sc!Ids -> {"none", "wait", "work", "post", "exited", "blocked"}]
    BY <2>1, <2>3 DEF ScInv
  <2>8. \A t \in Sc!Ids : t >= thread_ID' => thpc'[t] = "none"
    BY <2>1, <2>2, <2>3, ScParameters DEF ScInv
  <2> QED BY <2>1, <2>2, <2>5, <2>6, <2>7, <2>8 DEF ScInv
<1>3. CASE Sc!SpawnFails
  BY <1>3 DEF Sc!SpawnFails, ScInv
<1>4. CASE Sc!EndOfInput
  BY <1>4 DEF Sc!EndOfInput, ScInv
<1> QED BY <1>1, <1>2, <1>3, <1>4

\* A thread that moves on is one that was spawned.
LEMMA ScThreadMove ==
    ASSUME ScInv, NEW t \in Sc!Ids, NEW from, NEW to, Sc!Move(t, from, to), from # "none",
           to \in {"work", "post", "exited", "blocked"}
    PROVE  /\ UNCHANGED <<dpc, thread_ID, toSpawn, freed>>
           /\ thpc[t] = from /\ thpc' = [thpc EXCEPT ![t] = to]
           /\ thpc' \in [Sc!Ids -> {"none", "wait", "work", "post", "exited", "blocked"}]
           /\ \A u \in Sc!Ids : u >= thread_ID' => thpc'[u] = "none"
BY DEF Sc!Move, ScInv

\* A call on a semaphore that was freed claims nothing.
LEMMA ScFreedStep ==
    ASSUME ScInv, NEW t \in Sc!Ids, NEW from, NEW to, Sc!Freed(t, from, to), from # "none",
           to \in {"work", "post", "exited", "blocked"}
    PROVE  ScInv'
<1>1. freed /\ UNCHANGED semaphore
  BY DEF Sc!Freed
<1>2. CASE \E next \in {to, "blocked"} : Sc!Move(t, from, next)
  <2>1. PICK next \in {to, "blocked"} : Sc!Move(t, from, next)
    BY <1>2
  <2>2. next \in {"work", "post", "exited", "blocked"}
    OBVIOUS
  <2> QED BY <1>1, <2>1, <2>2, ScThreadMove DEF ScInv
<1>3. CASE dpc' = "failed" /\ UNCHANGED <<thread_ID, toSpawn, freed, thpc>>
  BY <1>1, <1>3 DEF ScInv
<1> QED BY <1>2, <1>3 DEF Sc!Freed

\* A thread.
LEMMA ScClientStep ==
    ASSUME ScInv, NEW t \in Sc!Ids, Sc!Client(t)
    PROVE  ScInv'
<1>1. CASE ~freed /\ Sc!Move(t, "wait", "work") /\ semaphore > 0 /\ semaphore' = semaphore - 1
  <2>1. Count(Sc!Ids, thpc', Holds) = Count(Sc!Ids, thpc, Holds) + 1
        /\ Count(Sc!Ids, thpc, Holds) \in Nat
    BY <1>1, ScThreadMove, ScMove DEF Holds
  <2>2. semaphore' \in Nat /\ semaphore' + Count(Sc!Ids, thpc', Holds) = NUM_RESOURCES
    BY <1>1, <2>1, ScParameters DEF ScInv
  <2> QED BY <1>1, <2>2, ScThreadMove DEF ScInv
<1>2. CASE Sc!Work(t)
  <2> DEFINE to == IF tasks[t] = NUM_TASKS THEN "post" ELSE "work"
  <2>1. to \in {"work", "post"} /\ Sc!Move(t, "work", to) /\ UNCHANGED semaphore
    BY <1>2 DEF Sc!Work
  <2> HIDE DEF to
  <2>2. Count(Sc!Ids, thpc', Holds) = Count(Sc!Ids, thpc, Holds)
    BY <2>1, ScThreadMove, ScMove DEF Holds
  <2> QED BY <2>1, <2>2, ScThreadMove DEF ScInv
<1>3. CASE ~freed /\ Sc!Move(t, "post", "exited") /\ semaphore' = semaphore + 1
  <2>1. Count(Sc!Ids, thpc', Holds) = Count(Sc!Ids, thpc, Holds) - 1
        /\ Count(Sc!Ids, thpc, Holds) \in Nat
    BY <1>3, ScThreadMove, ScMove DEF Holds
  <2>2. semaphore' \in Nat /\ semaphore' + Count(Sc!Ids, thpc', Holds) = NUM_RESOURCES
    BY <1>3, <2>1, ScParameters DEF ScInv
  <2> QED BY <1>3, <2>2, ScThreadMove DEF ScInv
<1>4. CASE Sc!Freed(t, "wait", "work") \/ Sc!Freed(t, "post", "exited")
  BY <1>4, ScFreedStep
<1> QED BY <1>1, <1>2, <1>3, <1>4 DEF Sc!Client, Sc!SemWait, Sc!SemPost

LEMMA ScInductive ==
    ASSUME ScInv, [Sc!Next]_schedVars
    PROVE  ScInv'
<1>1. CASE UNCHANGED schedVars
  BY <1>1 DEF schedVars, ScInv
<1>2. CASE Sc!Next
  BY <1>2, ScDriverStep, ScClientStep DEF Sc!Next
<1> QED BY <1>1, <1>2

LEMMA ScWithin == ScInv => Sc!WithinResources
<1> SUFFICES ASSUME ScInv, ~freed PROVE Sc!Cardinality(Sc!Holding) <= NUM_RESOURCES
  BY DEF Sc!WithinResources
<1>1. Sc!Cardinality(Sc!Holding) = Count(Sc!Ids, thpc, Holds)
  BY SameCardinality DEF Sc!Holding, Holds, Count
<1>2. Count(Sc!Ids, thpc, Holds) \in Nat
  BY ScParameters, CountType
<1> QED BY <1>1, <1>2, ScParameters DEF ScInv

-----------------------------------------------------------------------------
(* Adders: e1, where each thread adds to a variable of its own. *)

\* The additions that thread t has made.
OwnDone(t) == iter[t] + IF wpc[t] = "post" THEN 1 ELSE 0

OwnTypeOK ==
    /\ apc \in {"create", "join", "done", "failed"} /\ own_i \in 0 .. n1
    /\ wpc \in [Own!Indexes -> {"none", "index", "wait", "load", "store", "post", "exited"}]
    /\ iter \in [Own!Indexes -> 0 .. m1] /\ reg \in [Own!Indexes -> Int]
    /\ thread_idx \in [Own!Indexes -> Own!Indexes] /\ shared \in [Own!Indexes -> Int]
    /\ sem = 1 /\ value \in Int

\* A thread adds in its own variable, which holds all that it has added.
OwnAdds == \A t \in Own!Indexes :
    /\ wpc[t] \notin {"none", "index"} => thread_idx[t] = t
    /\ wpc[t] \in {"load", "store", "post"} => iter[t] < m1
    /\ wpc[t] = "exited" => iter[t] = m1
    /\ wpc[t] \in {"none", "index"} => iter[t] = 0
    /\ wpc[t] = "store" => reg[t] = shared[t]
    /\ shared[t] = Own!Wrap(OwnDone(t) * v1)

\* main has started the threads up to its counter; and joined, and added up,
\* those up to its counter.
OwnMain ==
    /\ apc = "create" => \A t \in Own!Indexes : t >= own_i => wpc[t] = "none"
    /\ apc \in {"create", "failed"} => value = 0
    /\ apc \in {"join", "done"} => value = Own!Wrap(own_i * (m1 * v1))
    /\ apc = "done" => own_i = n1

OwnInv == OwnTypeOK /\ OwnAdds /\ OwnMain

LEMMA OwnParameters ==
    /\ n1 \in Nat /\ m1 \in Nat /\ v1 \in Int /\ ULONG_MAX + 1 \in Nat \ {0}
    /\ m1 * v1 \in Int
BY StandaloneAssumption DEF Own!AddersAssumption

\* Sums that are wrapped after each addition, or once at the end.
LEMMA OwnWraps ==
    ASSUME NEW a \in Int, NEW b \in Int
    PROVE  /\ Own!Wrap(a) \in Int /\ Own!Wrap(0) = 0
           /\ Own!Wrap(Own!Wrap(a) + b) = Own!Wrap(a + b)
           /\ Own!Wrap(Own!Wrap(a) + Own!Wrap(b)) = Own!Wrap(a + b)
<1> DEFINE M == ULONG_MAX + 1
<1>1. M \in Nat \ {0}
  BY OwnParameters
<1> HIDE DEF M
<1>2. \A x, y \in Int : ((x % M) + y) % M = (x + y) % M
  BY <1>1, ModAdd, Zenon
<1>3. \A x \in Int : x % M \in Int
  BY <1>1, ModDef
<1>4. ((a % M) + (b % M)) % M = (a + b) % M
  <2>1. ((a % M) + (b % M)) % M = (a + (b % M)) % M
    BY <1>2, <1>3
  <2>2. a + (b % M) = (b % M) + a /\ a + b = b + a
    BY <1>3
  <2>3. ((b % M) + a) % M = (b + a) % M
    BY <1>2
  <2> QED BY <2>1, <2>2, <2>3
<1>5. 0 % M = 0
  BY <1>1, ModSmall
<1> QED BY <1>2, <1>3, <1>4, <1>5 DEF Own!Wrap, M

LEMMA OwnInitially == Own!Init => OwnInv
<1> SUFFICES ASSUME Own!Init PROVE OwnInv
  OBVIOUS
<1>1. Own!Wrap(0) = 0
  BY OwnWraps
<1>2. OwnTypeOK
  BY OwnParameters DEF Own!Init, OwnTypeOK, Own!Indexes
<1>3. \A t \in Own!Indexes : OwnDone(t) * v1 = 0
  <2>1. \A t \in Own!Indexes : OwnDone(t) = 0
    BY DEF Own!Init, OwnDone
  <2> QED BY <2>1, OwnParameters
<1>4. OwnAdds
  BY <1>1, <1>3 DEF Own!Init, OwnAdds
<1> QED BY <1>2, <1>4 DEF Own!Init, OwnMain, OwnInv

LEMMA OwnMainStep ==
    ASSUME OwnInv, Own!Main \/ Own!CreateFails
    PROVE  OwnInv'
<1>1. OwnTypeOK /\ OwnAdds /\ OwnMain
  BY DEF OwnInv
<1>2. CASE Own!Create /\ own_i < n1
  <2>1. /\ wpc' = [wpc EXCEPT ![own_i] = "index"] /\ own_i' = own_i + 1 /\ apc = "create"
        /\ UNCHANGED <<apc, thread_idx, iter, reg, shared, sem, value>>
    BY <1>2 DEF Own!Create
  <2>2. own_i \in Own!Indexes /\ wpc[own_i] = "none"
    BY <1>1, <1>2, <2>1, OwnParameters DEF OwnTypeOK, OwnMain, Own!Indexes
  <2>3. OwnTypeOK'
    BY <1>1, <1>2, <2>1, <2>2, OwnParameters DEF OwnTypeOK
  <2>4. \A t \in Own!Indexes : wpc'[t] = IF t = own_i THEN "index" ELSE wpc[t]
    BY <1>1, <2>1 DEF OwnTypeOK
  <2>5. OwnAdds'
    BY <1>1, <2>1, <2>2, <2>4 DEF OwnAdds, OwnDone, Own!Wrap
  <2>6. OwnMain'
    BY <1>1, <2>1, <2>4 DEF OwnMain, OwnTypeOK, Own!Indexes
  <2> QED BY <2>3, <2>5, <2>6 DEF OwnInv
<1>3. CASE Own!Create /\ ~(own_i < n1)
  <2>1. /\ apc' = "join" /\ own_i' = 0 /\ apc = "create"
        /\ UNCHANGED <<wpc, thread_idx, iter, reg, shared, sem, value>>
    BY <1>3 DEF Own!Create
  <2>2. OwnTypeOK' /\ OwnAdds'
    BY <1>1, <2>1, OwnParameters DEF OwnTypeOK, OwnAdds, OwnDone, Own!Wrap
  <2>3. OwnMain'
    <3>1. 0 * (m1 * v1) = 0
      BY OwnParameters
    <3>2. Own!Wrap(0) = 0
      BY OwnWraps
    <3>3. value = 0 /\ 0 = Own!Wrap(own_i' * (m1 * v1))
      BY <1>1, <2>1, <3>1, <3>2 DEF OwnMain
    <3> QED BY <2>1, <3>3 DEF OwnMain, Own!Wrap
  <2> QED BY <2>2, <2>3 DEF OwnInv
<1>4. CASE Own!CreateFails
  <2>1. apc' = "failed" /\ apc = "create"
        /\ UNCHANGED <<own_i, wpc, thread_idx, iter, reg, shared, sem, value>>
    BY <1>4 DEF Own!CreateFails
  <2> QED BY <1>1, <2>1 DEF OwnInv, OwnTypeOK, OwnAdds, OwnMain, OwnDone, Own!Wrap
<1>5. CASE Own!JoinThread /\ own_i < n1
  <2>1. /\ apc = "join" /\ wpc[own_i] = "exited" /\ own_i' = own_i + 1
        /\ value' = Own!Wrap(value + shared[own_i])
        /\ UNCHANGED <<apc, wpc, thread_idx, iter, reg, shared, sem>>
    BY <1>5 DEF Own!JoinThread
  <2>2. own_i \in Own!Indexes /\ own_i \in Int
    BY <1>1, <1>5, OwnParameters DEF OwnTypeOK, Own!Indexes
  <2>3. shared[own_i] = Own!Wrap(m1 * v1)
    <3>1. OwnDone(own_i) = m1
      BY <1>1, <2>1, <2>2, OwnParameters DEF OwnAdds, OwnDone
    <3> QED BY <1>1, <2>2, <3>1 DEF OwnAdds
  <2>4. value = Own!Wrap(own_i * (m1 * v1))
    BY <1>1, <2>1 DEF OwnMain
  <2> DEFINE w == m1 * v1
             a == own_i * w
  <2>5. w \in Int /\ a \in Int /\ a + w = (own_i + 1) * w
    <3>1. w \in Int
      BY OwnParameters
    <3> HIDE DEF w
    <3> QED BY <2>2, <3>1
  <2>6. value' = Own!Wrap(a + w)
    <3>1. value' = Own!Wrap(Own!Wrap(a) + Own!Wrap(w))
      BY <2>1, <2>3, <2>4
    <3> HIDE DEF a, w
    <3> QED BY <3>1, <2>5, OwnWraps
  <2>7. OwnTypeOK' /\ OwnAdds'
    <3>1. value' \in Int
      <4> HIDE DEF a, w
      <4> QED BY <2>5, <2>6, OwnWraps
    <3> QED BY <1>1, <1>5, <2>1, <3>1, OwnParameters DEF OwnTypeOK, OwnAdds, OwnDone, Own!Wrap
  <2>8. OwnMain'
    BY <2>1, <2>5, <2>6 DEF OwnMain, Own!Wrap
  <2> QED BY <2>7, <2>8 DEF OwnInv
<1>6. CASE Own!JoinThread /\ ~(own_i < n1)
  <2>1. /\ apc = "join" /\ apc' = "done"
        /\ UNCHANGED <<own_i, value, wpc, thread_idx, iter, reg, shared, sem>>
    BY <1>6 DEF Own!JoinThread
  <2>2. own_i = n1
    BY <1>1, <1>6, OwnParameters DEF OwnTypeOK
  <2> QED BY <1>1, <2>1, <2>2 DEF OwnInv, OwnTypeOK, OwnAdds, OwnMain, OwnDone, Own!Wrap
<1> QED BY <1>2, <1>3, <1>4, <1>5, <1>6 DEF Own!Main, Own!Create, Own!JoinThread

\* What a move of a thread leaves alone: main's part, and the other threads.
LEMMA OwnMoves ==
    ASSUME OwnInv, NEW t \in Own!Indexes, NEW from, NEW to, Own!Move(t, from, to),
           from \notin {"none", "exited"},
           to \in {"index", "wait", "load", "store", "post", "exited"}
    PROVE  /\ wpc[t] = from /\ UNCHANGED <<apc, own_i, value>> /\ OwnMain'
           /\ \A u \in Own!Indexes : wpc'[u] = IF u = t THEN to ELSE wpc[u]
           /\ wpc' \in [Own!Indexes -> {"none", "index", "wait", "load", "store", "post", "exited"}]
<1>1. wpc[t] = from /\ wpc' = [wpc EXCEPT ![t] = to] /\ UNCHANGED <<apc, own_i, value>>
  BY DEF Own!Move
<1>2. /\ \A u \in Own!Indexes : wpc'[u] = IF u = t THEN to ELSE wpc[u]
      /\ wpc' \in [Own!Indexes -> {"none", "index", "wait", "load", "store", "post", "exited"}]
  BY <1>1 DEF OwnInv, OwnTypeOK
<1>3. OwnMain'
  BY <1>1, <1>2 DEF OwnInv, OwnMain, Own!Wrap
<1> QED BY <1>1, <1>2, <1>3

LEMMA OwnThreadStep ==
    ASSUME OwnInv, NEW t \in Own!Indexes, Own!Thread(t)
    PROVE  OwnInv'
<1>1. OwnTypeOK /\ OwnAdds
  BY DEF OwnInv
<1>2. CASE Own!ReadIndex(t)
  <2>1. /\ Own!Move(t, "index", "wait") /\ thread_idx' = [thread_idx EXCEPT ![t] = t]
        /\ UNCHANGED <<iter, reg, shared, sem>>
    BY <1>2 DEF Own!ReadIndex
  <2>2. /\ wpc[t] = "index" /\ UNCHANGED <<apc, own_i, value>> /\ OwnMain'
        /\ \A u \in Own!Indexes : wpc'[u] = IF u = t THEN "wait" ELSE wpc[u]
        /\ wpc' \in [Own!Indexes -> {"none", "index", "wait", "load", "store", "post", "exited"}]
    BY <2>1, OwnMoves
  <2>3. OwnTypeOK'
    BY <1>1, <2>1, <2>2 DEF OwnTypeOK
  <2>4. OwnAdds'
    BY <1>1, <2>1, <2>2 DEF OwnAdds, OwnTypeOK, OwnDone, Own!Wrap
  <2> QED BY <2>2, <2>3, <2>4 DEF OwnInv
<1>3. CASE Own!Enter(t)
  <2> DEFINE to == IF iter[t] < m1 THEN "load" ELSE "exited"
  <2>1. /\ Own!Move(t, "wait", to)
        /\ UNCHANGED <<thread_idx, iter, reg, shared, sem>>
    BY <1>3 DEF Own!Enter
  <2>2. to \in {"load", "exited"} /\ (to = "load" => iter[t] < m1) /\ (to = "exited" => iter[t] = m1)
    BY <1>1, OwnParameters DEF OwnTypeOK
  <2> HIDE DEF to
  <2>3. /\ wpc[t] = "wait" /\ UNCHANGED <<apc, own_i, value>> /\ OwnMain'
        /\ \A u \in Own!Indexes : wpc'[u] = IF u = t THEN to ELSE wpc[u]
        /\ wpc' \in [Own!Indexes -> {"none", "index", "wait", "load", "store", "post", "exited"}]
    BY <2>1, <2>2, OwnMoves
  <2>4. OwnTypeOK'
    BY <1>1, <2>1, <2>3 DEF OwnTypeOK
  <2>5. OwnAdds'
    BY <1>1, <2>1, <2>2, <2>3 DEF OwnAdds, OwnDone, Own!Wrap
  <2> QED BY <2>3, <2>4, <2>5 DEF OwnInv
<1>4. CASE Own!Load(t)
  <2>1. /\ Own!Move(t, "load", "store") /\ reg' = [reg EXCEPT ![t] = shared[thread_idx[t]]]
        /\ UNCHANGED <<thread_idx, iter, shared, sem>>
    BY <1>4 DEF Own!Load
  <2>2. /\ wpc[t] = "load" /\ UNCHANGED <<apc, own_i, value>> /\ OwnMain'
        /\ \A u \in Own!Indexes : wpc'[u] = IF u = t THEN "store" ELSE wpc[u]
        /\ wpc' \in [Own!Indexes -> {"none", "index", "wait", "load", "store", "post", "exited"}]
    BY <2>1, OwnMoves
  <2>3. thread_idx[t] = t
    BY <1>1, <2>2 DEF OwnAdds
  <2>4. OwnTypeOK'
    BY <1>1, <2>1, <2>2, <2>3 DEF OwnTypeOK
  <2>5. \A u \in Own!Indexes : reg'[u] = IF u = t THEN shared[t] ELSE reg[u]
    BY <1>1, <2>1, <2>3 DEF OwnTypeOK
  <2>6. OwnAdds'
    BY <1>1, <2>1, <2>2, <2>5 DEF OwnAdds, OwnDone, Own!Wrap
  <2> QED BY <2>2, <2>4, <2>6 DEF OwnInv
<1>5. CASE Own!Store(t)
  <2>1. /\ Own!Move(t, "store", "post")
        /\ shared' = [shared EXCEPT ![thread_idx[t]] = Own!Wrap(reg[t] + v1)]
        /\ UNCHANGED <<thread_idx, iter, reg, sem>>
    BY <1>5 DEF Own!Store
  <2>2. /\ wpc[t] = "store" /\ UNCHANGED <<apc, own_i, value>> /\ OwnMain'
        /\ \A u \in Own!Indexes : wpc'[u] = IF u = t THEN "post" ELSE wpc[u]
        /\ wpc' \in [Own!Indexes -> {"none", "index", "wait", "load", "store", "post", "exited"}]
    BY <2>1, OwnMoves
  <2>3. /\ thread_idx[t] = t /\ reg[t] = shared[t] /\ iter[t] \in Int /\ iter[t] < m1
        /\ shared[t] = Own!Wrap(iter[t] * v1)
    BY <1>1, <2>2 DEF OwnAdds, OwnTypeOK, OwnDone
  <2>4. Own!Wrap(reg[t] + v1) = Own!Wrap((iter[t] + 1) * v1) /\ Own!Wrap(reg[t] + v1) \in Int
    <3> DEFINE a == iter[t] * v1
    <3>1. a \in Int /\ v1 \in Int /\ a + v1 = (iter[t] + 1) * v1
      BY <2>3, OwnParameters
    <3> HIDE DEF a
    <3>2. Own!Wrap(Own!Wrap(a) + v1) = Own!Wrap(a + v1) /\ Own!Wrap(a + v1) \in Int
      BY <3>1, OwnWraps
    <3> QED BY <2>3, <3>1, <3>2 DEF a
  <2>5. OwnTypeOK'
    BY <1>1, <2>1, <2>2, <2>3, <2>4 DEF OwnTypeOK
  <2>6. \A u \in Own!Indexes : shared'[u] = IF u = t THEN Own!Wrap((iter[t] + 1) * v1) ELSE shared[u]
    BY <1>1, <2>1, <2>3, <2>4 DEF OwnTypeOK
  <2>7. OwnAdds'
    <3> SUFFICES ASSUME NEW u \in Own!Indexes
                 PROVE  /\ wpc'[u] \notin {"none", "index"} => thread_idx'[u] = u
                        /\ wpc'[u] \in {"load", "store", "post"} => iter'[u] < m1
                        /\ wpc'[u] = "exited" => iter'[u] = m1
                        /\ wpc'[u] \in {"none", "index"} => iter'[u] = 0
                        /\ wpc'[u] = "store" => reg'[u] = shared'[u]
                        /\ shared'[u] = Own!Wrap(OwnDone(u)' * v1)
      BY DEF OwnAdds, Own!Wrap
    <3>1. CASE u = t
      <4>1. OwnDone(u)' = iter[t] + 1
        BY <2>1, <2>2, <3>1 DEF OwnDone
      <4> QED BY <2>1, <2>2, <2>3, <2>6, <3>1, <4>1
    <3>2. CASE u # t
      <4>1. OwnDone(u)' = OwnDone(u)
        BY <2>1, <2>2, <3>2 DEF OwnDone
      <4> QED BY <1>1, <2>1, <2>2, <2>6, <3>2, <4>1 DEF OwnAdds
    <3> QED BY <3>1, <3>2
  <2> QED BY <2>2, <2>5, <2>7 DEF OwnInv
<1>6. CASE Own!Leave(t)
  <2>1. /\ Own!Move(t, "post", "wait") /\ iter' = [iter EXCEPT ![t] = @ + 1]
        /\ UNCHANGED <<thread_idx, reg, shared, sem>>
    BY <1>6 DEF Own!Leave
  <2>2. /\ wpc[t] = "post" /\ UNCHANGED <<apc, own_i, value>> /\ OwnMain'
        /\ \A u \in Own!Indexes : wpc'[u] = IF u = t THEN "wait" ELSE wpc[u]
        /\ wpc' \in [Own!Indexes -> {"none", "index", "wait", "load", "store", "post", "exited"}]
    BY <2>1, OwnMoves
  <2>3. iter[t] < m1 /\ iter[t] \in 0 .. m1 /\ m1 \in Nat
    BY <1>1, <2>2, OwnParameters DEF OwnAdds, OwnTypeOK
  <2>4. OwnTypeOK'
    <3>1. iter[t] + 1 \in 0 .. m1
      BY <2>3
    <3>2. iter' \in [Own!Indexes -> 0 .. m1]
      BY <1>1, <2>1, <3>1 DEF OwnTypeOK
    <3> QED BY <1>1, <2>1, <2>2, <3>2 DEF OwnTypeOK
  <2>5. \A u \in Own!Indexes : iter'[u] = (IF u = t THEN iter[t] + 1 ELSE iter[u])
                               /\ OwnDone(u)' = OwnDone(u)
    BY <1>1, <2>1, <2>2, <2>3 DEF OwnTypeOK, OwnDone
  <2>6. OwnAdds'
    BY <1>1, <2>1, <2>2, <2>5 DEF OwnAdds, Own!Wrap
  <2> QED BY <2>2, <2>4, <2>6 DEF OwnInv
<1> QED BY <1>2, <1>3, <1>4, <1>5, <1>6 DEF Own!Thread

LEMMA OwnInductive ==
    ASSUME OwnInv, [Own!Next]_ownVars
    PROVE  OwnInv'
<1>1. CASE UNCHANGED ownVars
  BY <1>1 DEF ownVars, OwnInv, OwnTypeOK, OwnAdds, OwnMain, OwnDone, Own!Wrap
<1>2. CASE Own!Next
  BY <1>2, OwnMainStep, OwnThreadStep DEF Own!Next
<1> QED BY <1>1, <1>2

LEMMA OwnExpected == OwnInv => Own!ReportsExpected
<1> SUFFICES ASSUME OwnInv, apc = "done" PROVE value = Own!expected_value
  BY DEF Own!ReportsExpected
<1>1. n1 * (m1 * v1) = n1 * m1 * v1
  BY OwnParameters
<1> QED BY <1>1 DEF OwnInv, OwnMain, Own!expected_value

-----------------------------------------------------------------------------
(* Adders: e2, where the threads add to one variable under a semaphore. *)

Inside == {"load", "store", "post"}

\* The additions that thread t has made, as <<thread, turn>>, and those of all.
OneDone == [t \in One!Indexes |-> xiter[t] + IF xpc[t] = "post" THEN 1 ELSE 0]
Additions(S, done, total) == {a \in S \X (1 .. total) : a[2] <= done[a[1]]}
Made == Cardinality(Additions(One!Indexes, OneDone, m2))

OneTypeOK ==
    /\ bpc \in {"create", "join", "done", "failed"} /\ one_i \in 0 .. n2
    /\ xpc \in [One!Indexes -> {"none", "index", "wait", "load", "store", "post", "exited"}]
    /\ xiter \in [One!Indexes -> 0 .. m2] /\ xreg \in [One!Indexes -> Int]
    /\ xidx \in [One!Indexes -> {0}] /\ xshared \in [One!Indexes -> Int]
    /\ xsem \in Nat

\* One thread adds at a time; what it has loaded is still the value.
OneAlone ==
    /\ xsem + Count(One!Indexes, xpc, Inside) = 1
    /\ \A t \in One!Indexes :
          /\ xpc[t] \in Inside => xiter[t] < m2
          /\ xpc[t] = "exited" => xiter[t] = m2
          /\ xpc[t] \in {"none", "index"} => xiter[t] = 0
          /\ xpc[t] = "store" => xreg[t] = xshared[0]

\* The variable holds all additions of all threads.
OneSum == n2 > 0 => xshared[0] = One!Wrap(Made * v2)

\* main has started the threads up to its counter; or joined them.
OneMain ==
    /\ bpc = "create" => \A t \in One!Indexes : t >= one_i => xpc[t] = "none"
    /\ bpc = "join" => \A t \in One!Indexes : t < one_i => xpc[t] = "exited"
    /\ bpc \in {"create", "join", "failed"} => xvalue = 0
    /\ bpc = "done" => /\ \A t \in One!Indexes : xpc[t] = "exited"
                       /\ xvalue = IF n2 > 0 THEN xshared[0] ELSE 0

OneInv == OneTypeOK /\ OneAlone /\ OneSum /\ OneMain

LEMMA OneParameters ==
    /\ n2 \in Nat /\ m2 \in Nat /\ v2 \in Int /\ ULONG_MAX + 1 \in Nat \ {0}
    /\ IsFiniteSet(One!Indexes) /\ Cardinality(One!Indexes) = n2
    /\ n2 > 0 => 0 \in One!Indexes
<1>1. n2 \in Nat /\ m2 \in Nat /\ v2 \in Int /\ ULONG_MAX + 1 \in Nat \ {0}
  BY StandaloneAssumption DEF One!AddersAssumption
<1>2. IsFiniteSet(0 .. n2-1) /\ Cardinality(0 .. n2-1) = n2
  <2>1. 0 \in Int /\ n2 - 1 \in Int /\ (IF 0 > n2 - 1 THEN 0 ELSE (n2 - 1) - 0 + 1) = n2
    BY <1>1
  <2>2. \A a, b \in Int : /\ IsFiniteSet(a .. b)
                          /\ Cardinality(a .. b) = IF a > b THEN 0 ELSE b - a + 1
    BY FS_Interval
  <2> QED BY <2>1, <2>2
<1> QED BY <1>1, <1>2 DEF One!Indexes

\* The additions are finitely many; one more of a thread adds one.
LEMMA OneMore ==
    ASSUME NEW S, IsFiniteSet(S), NEW total \in Nat, NEW done \in [S -> Nat], NEW a \in S,
           NEW new \in [S -> Nat], done[a] < total,
           \A x \in S : new[x] = IF x = a THEN done[a] + 1 ELSE done[x]
    PROVE  Cardinality(Additions(S, new, total)) = Cardinality(Additions(S, done, total)) + 1
<1> DEFINE Done == Additions(S, done, total)
           d == <<a, done[a] + 1>>
<1>1. IsFiniteSet(Done)
  <2>1. IsFiniteSet(1 .. total)
    BY FS_Interval
  <2>2. IsFiniteSet(S \X (1 .. total))
    BY <2>1, FS_Product
  <2> QED BY <2>2, FS_Subset, Done \subseteq S \X (1 .. total) DEF Additions
<1>2. d \notin Done
  BY DEF Additions
<1>3. Additions(S, new, total) = Done \cup {d}
  <2>1. \A x \in S, y \in 1 .. total :
          y <= new[x] <=> y <= done[x] \/ (x = a /\ y = done[a] + 1)
    OBVIOUS
  <2> QED BY <2>1 DEF Additions
<1> QED BY <1>1, <1>2, <1>3, FS_AddElement

\* All additions, and none.
LEMMA AllMade ==
    ASSUME NEW S, IsFiniteSet(S), NEW total \in Nat, NEW done \in [S -> Nat]
    PROVE  /\ Cardinality(Additions(S, done, total)) \in Nat
           /\ (\A x \in S : done[x] = 0) => Cardinality(Additions(S, done, total)) = 0
           /\ (\A x \in S : done[x] = total) =>
                  Cardinality(Additions(S, done, total)) = Cardinality(S) * total
<1> DEFINE Done == Additions(S, done, total)
           All == S \X (1 .. total)
<1>1. IsFiniteSet(1 .. total) /\ Cardinality(1 .. total) = total
  BY FS_Interval
<1>2. IsFiniteSet(All) /\ Cardinality(All) = Cardinality(S) * total
  BY <1>1, FS_Product
<1>3. Cardinality(Done) \in Nat
  BY <1>2, FS_Subset, FS_CardinalityType, Done \subseteq All DEF Additions
<1>4. (\A x \in S : done[x] = 0) => Done = {}
  BY DEF Additions
<1>5. (\A x \in S : done[x] = total) => Done = All
  BY DEF Additions
<1> QED BY <1>2, <1>3, <1>4, <1>5, FS_EmptySet

LEMMA OneWraps ==
    ASSUME NEW a \in Int, NEW b \in Int
    PROVE  One!Wrap(a) \in Int /\ One!Wrap(0) = 0 /\ One!Wrap(One!Wrap(a) + b) = One!Wrap(a + b)
<1> DEFINE M == ULONG_MAX + 1
<1>1. M \in Nat \ {0}
  BY OneParameters
<1> HIDE DEF M
<1>2. ((a % M) + b) % M = (a + b) % M
  BY <1>1, ModAdd
<1>3. a % M \in Int
  BY <1>1, ModDef
<1>4. 0 % M = 0
  BY <1>1, ModSmall
<1> QED BY <1>2, <1>3, <1>4 DEF One!Wrap, M

LEMMA OneInitially == One!Init => OneInv
<1> SUFFICES ASSUME One!Init PROVE OneInv
  OBVIOUS
<1>1. OneTypeOK
  BY OneParameters DEF One!Init, OneTypeOK, One!Indexes
<1>2. OneAlone
  <2>1. \A t \in One!Indexes : xpc[t] \notin Inside
    BY DEF One!Init, Inside
  <2>2. Count(One!Indexes, xpc, Inside) = 0
    BY <2>1, CountNone
  <2> QED BY <2>2 DEF One!Init, OneAlone, Inside
<1>3. OneSum
  <2>1. OneDone \in [One!Indexes -> Nat] /\ \A t \in One!Indexes : OneDone[t] = 0
    BY DEF One!Init, OneDone
  <2> DEFINE done == OneDone
  <2> HIDE DEF done
  <2>2. Cardinality(Additions(One!Indexes, done, m2)) = 0
    BY <2>1, OneParameters, AllMade DEF done
  <2>3. Made * v2 = 0
    BY <2>2, OneParameters DEF Made, done
  <2>4. One!Wrap(0) = 0
    BY OneWraps
  <2> QED BY <2>3, <2>4, OneParameters DEF One!Init, OneSum
<1> QED BY <1>1, <1>2, <1>3 DEF One!Init, OneMain, OneInv

\* main.
LEMMA OneMainStep ==
    ASSUME OneInv, One!Main \/ One!CreateFails
    PROVE  OneInv'
<1>1. OneTypeOK /\ OneAlone /\ OneSum /\ OneMain
  BY DEF OneInv
<1>2. CASE One!Create /\ one_i < n2
  <2>1. /\ xpc' = [xpc EXCEPT ![one_i] = "index"] /\ one_i' = one_i + 1 /\ bpc = "create"
        /\ UNCHANGED <<bpc, xidx, xiter, xreg, xshared, xsem, xvalue>>
    BY <1>2 DEF One!Create
  <2>2. one_i \in One!Indexes /\ xpc[one_i] = "none"
    BY <1>1, <1>2, <2>1, OneParameters DEF OneTypeOK, OneMain, One!Indexes
  <2>3. OneTypeOK'
    BY <1>1, <1>2, <2>1, <2>2, OneParameters DEF OneTypeOK
  <2>4. \A t \in One!Indexes : xpc'[t] = IF t = one_i THEN "index" ELSE xpc[t]
    BY <1>1, <2>1 DEF OneTypeOK
  <2>5. Count(One!Indexes, xpc', Inside) = Count(One!Indexes, xpc, Inside)
    <3> DEFINE f == xpc
               g == xpc'
    <3>1. /\ \A t \in One!Indexes \ {one_i} : g[t] = f[t]
          /\ g[one_i] \in Inside <=> f[one_i] \in Inside
      BY <2>2, <2>4 DEF Inside
    <3> HIDE DEF f, g
    <3>2. one_i \in One!Indexes /\ IsFiniteSet(One!Indexes)
      BY <2>2, OneParameters
    <3> DEFINE S == One!Indexes
    <3> HIDE DEF S
    <3>3. Count(S, g, Inside) = Count(S, f, Inside)
      BY <3>1, <3>2, CountMove DEF S
    <3> QED BY <3>3 DEF f, g, S
  <2>6. OneAlone'
    BY <1>1, <2>1, <2>2, <2>4, <2>5 DEF OneAlone, Inside
  <2>7. OneDone' = OneDone
    BY <2>1, <2>2, <2>4 DEF OneDone
  <2>8. OneSum'
    BY <1>1, <2>1, <2>7 DEF OneSum, Made, One!Wrap
  <2>9. OneMain'
    BY <1>1, <2>1, <2>4 DEF OneMain, OneTypeOK, One!Indexes
  <2> QED BY <2>3, <2>6, <2>8, <2>9 DEF OneInv
<1>3. CASE One!Create /\ ~(one_i < n2)
  <2>1. /\ bpc' = "join" /\ one_i' = 0 /\ bpc = "create"
        /\ UNCHANGED <<xpc, xidx, xiter, xreg, xshared, xsem, xvalue>>
    BY <1>3 DEF One!Create
  <2> QED BY <1>1, <2>1, OneParameters
          DEF OneInv, OneTypeOK, OneAlone, OneSum, OneMain, Made, OneDone, One!Wrap, One!Indexes
<1>4. CASE One!CreateFails
  <2>1. bpc' = "failed" /\ bpc = "create"
        /\ UNCHANGED <<one_i, xpc, xidx, xiter, xreg, xshared, xsem, xvalue>>
    BY <1>4 DEF One!CreateFails
  <2> QED BY <1>1, <2>1
          DEF OneInv, OneTypeOK, OneAlone, OneSum, OneMain, Made, OneDone, One!Wrap
<1>5. CASE One!JoinThread /\ one_i < n2
  <2>1. /\ bpc = "join" /\ xpc[one_i] = "exited" /\ one_i' = one_i + 1
        /\ UNCHANGED <<bpc, xpc, xidx, xiter, xreg, xshared, xsem, xvalue>>
    BY <1>5 DEF One!JoinThread
  <2>2. OneTypeOK' /\ OneAlone' /\ OneSum'
    BY <1>1, <1>5, <2>1, OneParameters DEF OneTypeOK, OneAlone, OneSum, Made, OneDone, One!Wrap
  <2>3. OneMain'
    BY <1>1, <2>1, OneParameters DEF OneMain, OneTypeOK, One!Indexes
  <2> QED BY <2>2, <2>3 DEF OneInv
<1>6. CASE One!JoinThread /\ ~(one_i < n2)
  <2>1. /\ bpc = "join" /\ bpc' = "done"
        /\ xvalue' = IF n2 > 0 THEN xshared[0] ELSE xvalue
        /\ UNCHANGED <<one_i, xpc, xidx, xiter, xreg, xshared, xsem>>
    BY <1>6 DEF One!JoinThread
  <2>2. OneTypeOK' /\ OneAlone' /\ OneSum'
    BY <1>1, <2>1 DEF OneTypeOK, OneAlone, OneSum, Made, OneDone, One!Wrap
  <2>3. one_i = n2
    BY <1>1, <1>6, OneParameters DEF OneTypeOK
  <2>4. OneMain'
    BY <1>1, <2>1, <2>3, OneParameters DEF OneMain, OneTypeOK, One!Indexes
  <2> QED BY <2>2, <2>4 DEF OneInv
<1> QED BY <1>2, <1>3, <1>4, <1>5, <1>6 DEF One!Main, One!Create, One!JoinThread

\* What a move of a thread does: to the count of those inside, and to main.
LEMMA OneMoves ==
    ASSUME OneInv, NEW t \in One!Indexes, NEW from, NEW to, One!Move(t, from, to),
           from \notin {"none", "exited"},
           to \in {"index", "wait", "load", "store", "post", "exited"}
    PROVE  /\ xpc[t] = from /\ UNCHANGED <<bpc, one_i, xvalue>> /\ bpc # "done"
           /\ \A u \in One!Indexes : xpc'[u] = IF u = t THEN to ELSE xpc[u]
           /\ xpc' \in [One!Indexes -> {"none", "index", "wait", "load", "store", "post", "exited"}]
           /\ to \in Inside /\ from \notin Inside =>
                 Count(One!Indexes, xpc', Inside) = Count(One!Indexes, xpc, Inside) + 1
           /\ to \notin Inside /\ from \in Inside =>
                 Count(One!Indexes, xpc', Inside) = Count(One!Indexes, xpc, Inside) - 1
           /\ (to \in Inside <=> from \in Inside) =>
                 Count(One!Indexes, xpc', Inside) = Count(One!Indexes, xpc, Inside)
           /\ Count(One!Indexes, xpc, Inside) \in Nat
           /\ OneMain'
<1>1. xpc[t] = from /\ xpc' = [xpc EXCEPT ![t] = to] /\ UNCHANGED <<bpc, one_i, xvalue>>
  BY DEF One!Move
<1>2. /\ \A u \in One!Indexes : xpc'[u] = IF u = t THEN to ELSE xpc[u]
      /\ xpc' \in [One!Indexes -> {"none", "index", "wait", "load", "store", "post", "exited"}]
  BY <1>1 DEF OneInv, OneTypeOK
<1>3. bpc # "done"
  BY <1>1 DEF OneInv, OneMain
<1>4. OneMain'
  BY <1>1, <1>2, <1>3 DEF OneInv, OneMain
<1> DEFINE f == xpc
           g == xpc'
<1>5. g[t] = to /\ f[t] = from /\ \A u \in One!Indexes \ {t} : g[u] = f[u]
  BY <1>1, <1>2
<1> HIDE DEF f, g
<1>6. /\ g[t] \in Inside /\ f[t] \notin Inside =>
            Count(One!Indexes, g, Inside) = Count(One!Indexes, f, Inside) + 1
      /\ g[t] \notin Inside /\ f[t] \in Inside =>
            Count(One!Indexes, g, Inside) = Count(One!Indexes, f, Inside) - 1
      /\ (g[t] \in Inside <=> f[t] \in Inside) =>
            Count(One!Indexes, g, Inside) = Count(One!Indexes, f, Inside)
      /\ Count(One!Indexes, f, Inside) \in Nat
  BY <1>5, OneParameters, CountMove, CountType
<1> QED BY <1>1, <1>2, <1>3, <1>4, <1>5, <1>6 DEF f, g

\* While one thread is inside no other is.
LEMMA OneInside ==
    ASSUME OneInv, NEW t \in One!Indexes, xpc[t] \in Inside
    PROVE  /\ xsem = 0 /\ \A u \in One!Indexes \ {t} : xpc[u] \notin Inside
<1> DEFINE f == xpc
<1>1. f[t] \in Inside /\ xsem \in Nat /\ xsem + Count(One!Indexes, f, Inside) = 1
  BY DEF OneInv, OneTypeOK, OneAlone
<1>2. IsFiniteSet(One!Indexes)
  BY OneParameters
<1> HIDE DEF f
<1>3. Count(One!Indexes, f, Inside) >= 1 /\ Count(One!Indexes, f, Inside) \in Nat
  BY <1>1, <1>2, CountOne, CountType
<1>4. ASSUME NEW u \in One!Indexes \ {t}, f[u] \in Inside PROVE FALSE
  <2>1. Count(One!Indexes, f, Inside) >= 2
    BY <1>1, <1>2, <1>4, CountTwo
  <2> QED BY <1>1, <1>3, <2>1
<1> QED BY <1>1, <1>3, <1>4 DEF f

LEMMA OneThreadStep ==
    ASSUME OneInv, NEW t \in One!Indexes, One!Thread(t)
    PROVE  OneInv'
<1>1. OneTypeOK /\ OneAlone /\ OneSum /\ OneMain
  BY DEF OneInv
<1>2. CASE One!ReadIndex(t)
  <2>1. /\ One!Move(t, "index", "wait") /\ xidx' = [xidx EXCEPT ![t] = 0]
        /\ UNCHANGED <<xiter, xreg, xshared, xsem>>
    BY <1>2 DEF One!ReadIndex
  <2>2. /\ xpc[t] = "index" /\ UNCHANGED <<bpc, one_i, xvalue>> /\ OneMain'
        /\ \A u \in One!Indexes : xpc'[u] = IF u = t THEN "wait" ELSE xpc[u]
        /\ xpc' \in [One!Indexes -> {"none", "index", "wait", "load", "store", "post", "exited"}]
        /\ Count(One!Indexes, xpc', Inside) = Count(One!Indexes, xpc, Inside)
    <3>1. "wait" \notin Inside /\ "index" \notin Inside
      BY DEF Inside
    <3> QED BY <2>1, <3>1, OneMoves
  <2>3. OneTypeOK'
    BY <1>1, <2>1, <2>2 DEF OneTypeOK
  <2>4. OneAlone'
    BY <1>1, <2>1, <2>2 DEF OneAlone, Inside
  <2>5. OneDone' = OneDone
    BY <2>1, <2>2 DEF OneDone
  <2>6. OneSum'
    BY <1>1, <2>1, <2>5 DEF OneSum, Made, One!Wrap
  <2> QED BY <2>2, <2>3, <2>4, <2>6 DEF OneInv
<1>3. CASE One!Enter(t) /\ xiter[t] < m2
  <2>1. /\ One!Move(t, "wait", "load") /\ xsem > 0 /\ xsem' = xsem - 1
        /\ UNCHANGED <<xidx, xiter, xreg, xshared>>
    BY <1>3 DEF One!Enter
  <2>2. /\ xpc[t] = "wait" /\ UNCHANGED <<bpc, one_i, xvalue>> /\ OneMain'
        /\ \A u \in One!Indexes : xpc'[u] = IF u = t THEN "load" ELSE xpc[u]
        /\ xpc' \in [One!Indexes -> {"none", "index", "wait", "load", "store", "post", "exited"}]
        /\ Count(One!Indexes, xpc', Inside) = Count(One!Indexes, xpc, Inside) + 1
        /\ Count(One!Indexes, xpc, Inside) \in Nat
    <3>1. "load" \in Inside /\ "wait" \notin Inside
      BY DEF Inside
    <3> QED BY <2>1, <3>1, OneMoves
  <2>3. xsem \in Nat /\ xsem' \in Nat /\ xsem' + Count(One!Indexes, xpc', Inside) = 1
    BY <1>1, <2>1, <2>2 DEF OneTypeOK, OneAlone
  <2>4. OneTypeOK'
    BY <1>1, <2>1, <2>2, <2>3 DEF OneTypeOK
  <2>5. OneAlone'
    BY <1>1, <1>3, <2>1, <2>2, <2>3 DEF OneAlone, Inside
  <2>6. OneDone' = OneDone
    BY <2>1, <2>2 DEF OneDone
  <2>7. OneSum'
    BY <1>1, <2>1, <2>6 DEF OneSum, Made, One!Wrap
  <2> QED BY <2>2, <2>4, <2>5, <2>7 DEF OneInv
<1>4. CASE One!Enter(t) /\ ~(xiter[t] < m2)
  <2>1. /\ One!Move(t, "wait", "exited") /\ UNCHANGED <<xidx, xiter, xreg, xshared, xsem>>
    BY <1>4 DEF One!Enter
  <2>2. /\ xpc[t] = "wait" /\ UNCHANGED <<bpc, one_i, xvalue>> /\ OneMain'
        /\ \A u \in One!Indexes : xpc'[u] = IF u = t THEN "exited" ELSE xpc[u]
        /\ xpc' \in [One!Indexes -> {"none", "index", "wait", "load", "store", "post", "exited"}]
        /\ Count(One!Indexes, xpc', Inside) = Count(One!Indexes, xpc, Inside)
    <3>1. "exited" \notin Inside /\ "wait" \notin Inside
      BY DEF Inside
    <3> QED BY <2>1, <3>1, OneMoves
  <2>3. OneTypeOK'
    BY <1>1, <2>1, <2>2 DEF OneTypeOK
  <2>4. xiter[t] = m2
    BY <1>1, <1>4, OneParameters DEF OneTypeOK
  <2>5. OneAlone'
    BY <1>1, <2>1, <2>2, <2>4 DEF OneAlone, Inside
  <2>6. OneDone' = OneDone
    BY <2>1, <2>2 DEF OneDone
  <2>7. OneSum'
    BY <1>1, <2>1, <2>6 DEF OneSum, Made, One!Wrap
  <2> QED BY <2>2, <2>3, <2>5, <2>7 DEF OneInv
<1>5. CASE One!Load(t)
  <2>1. /\ One!Move(t, "load", "store") /\ xreg' = [xreg EXCEPT ![t] = xshared[xidx[t]]]
        /\ UNCHANGED <<xidx, xiter, xshared, xsem>>
    BY <1>5 DEF One!Load
  <2>2. /\ xpc[t] = "load" /\ UNCHANGED <<bpc, one_i, xvalue>> /\ OneMain'
        /\ \A u \in One!Indexes : xpc'[u] = IF u = t THEN "store" ELSE xpc[u]
        /\ xpc' \in [One!Indexes -> {"none", "index", "wait", "load", "store", "post", "exited"}]
        /\ Count(One!Indexes, xpc', Inside) = Count(One!Indexes, xpc, Inside)
    <3>1. "load" \in Inside /\ "store" \in Inside
      BY DEF Inside
    <3> QED BY <2>1, <3>1, OneMoves
  <2>3. xidx[t] = 0 /\ 0 \in One!Indexes
    BY <1>1, OneParameters DEF OneTypeOK, One!Indexes
  <2>4. OneTypeOK'
    BY <1>1, <2>1, <2>2, <2>3 DEF OneTypeOK
  <2>5. \A u \in One!Indexes : xreg'[u] = IF u = t THEN xshared[0] ELSE xreg[u]
    BY <1>1, <2>1, <2>3 DEF OneTypeOK
  <2>6. OneAlone'
    BY <1>1, <2>1, <2>2, <2>5 DEF OneAlone, Inside
  <2>7. OneDone' = OneDone
    BY <2>1, <2>2 DEF OneDone
  <2>8. OneSum'
    BY <1>1, <2>1, <2>7 DEF OneSum, Made, One!Wrap
  <2> QED BY <2>2, <2>4, <2>6, <2>8 DEF OneInv
<1>6. CASE One!Store(t)
  <2>1. /\ One!Move(t, "store", "post")
        /\ xshared' = [xshared EXCEPT ![xidx[t]] = One!Wrap(xreg[t] + v2)]
        /\ UNCHANGED <<xidx, xiter, xreg, xsem>>
    BY <1>6 DEF One!Store
  <2>2. /\ xpc[t] = "store" /\ UNCHANGED <<bpc, one_i, xvalue>> /\ bpc # "done"
        /\ \A u \in One!Indexes : xpc'[u] = IF u = t THEN "post" ELSE xpc[u]
        /\ xpc' \in [One!Indexes -> {"none", "index", "wait", "load", "store", "post", "exited"}]
        /\ Count(One!Indexes, xpc', Inside) = Count(One!Indexes, xpc, Inside)
        /\ OneMain'
    <3>1. "post" \in Inside /\ "store" \in Inside
      BY DEF Inside
    <3> QED BY <2>1, <3>1, OneMoves
  <2>3. xidx[t] = 0 /\ 0 \in One!Indexes /\ n2 > 0 /\ xreg[t] = xshared[0] /\ xiter[t] < m2
    BY <1>1, <2>2, OneParameters DEF OneTypeOK, One!Indexes, OneAlone, Inside
  <2>4. /\ OneDone \in [One!Indexes -> Nat] /\ OneDone' \in [One!Indexes -> Nat]
        /\ OneDone[t] < m2
        /\ \A u \in One!Indexes : OneDone'[u] = IF u = t THEN OneDone[t] + 1 ELSE OneDone[u]
    BY <1>1, <2>1, <2>2, <2>3, OneParameters DEF OneDone, OneTypeOK
  <2>5. Made' = Made + 1 /\ Made \in Nat
    <3> DEFINE f == OneDone
               g == OneDone'
    <3>1. /\ f \in [One!Indexes -> Nat] /\ g \in [One!Indexes -> Nat] /\ f[t] < m2
          /\ \A u \in One!Indexes : g[u] = IF u = t THEN f[t] + 1 ELSE f[u]
      BY <2>4
    <3> HIDE DEF f, g
    <3>2. /\ Cardinality(Additions(One!Indexes, g, m2)) =
                 Cardinality(Additions(One!Indexes, f, m2)) + 1
          /\ Cardinality(Additions(One!Indexes, f, m2)) \in Nat
      BY <3>1, OneParameters, OneMore, AllMade
    <3> QED BY <3>2 DEF f, g, Made
  <2>6. One!Wrap(xreg[t] + v2) = One!Wrap(Made' * v2) /\ One!Wrap(xreg[t] + v2) \in Int
    <3> DEFINE a == Made * v2
    <3>1. a \in Int /\ v2 \in Int /\ a + v2 = Made' * v2
      <4> DEFINE c == Made
      <4>1. c \in Nat /\ v2 \in Int /\ Made' = c + 1
        BY <2>5, OneParameters
      <4> HIDE DEF c
      <4>2. c * v2 \in Int /\ c * v2 + v2 = (c + 1) * v2
        BY <4>1
      <4> QED BY <4>1, <4>2 DEF c
    <3> HIDE DEF a
    <3>2. One!Wrap(One!Wrap(a) + v2) = One!Wrap(a + v2) /\ One!Wrap(a + v2) \in Int
      BY <3>1, OneWraps
    <3>3. xreg[t] = One!Wrap(a)
      BY <1>1, <2>3 DEF OneSum, a
    <3> QED BY <3>1, <3>2, <3>3
  <2>7. xshared' \in [One!Indexes -> Int] /\ xshared'[0] = One!Wrap(Made' * v2)
    BY <1>1, <2>1, <2>3, <2>6 DEF OneTypeOK
  <2>8. OneTypeOK'
    BY <1>1, <2>1, <2>2, <2>7 DEF OneTypeOK
  <2>9. \A u \in One!Indexes : xpc'[u] # "store"
    BY <2>2, OneInside DEF Inside
  <2>10. OneAlone'
    BY <1>1, <2>1, <2>2, <2>9 DEF OneAlone, Inside
  <2>11. OneSum'
    BY <2>7 DEF OneSum, One!Wrap
  <2> QED BY <2>2, <2>8, <2>10, <2>11 DEF OneInv
<1>7. CASE One!Leave(t)
  <2>1. /\ One!Move(t, "post", "wait") /\ xiter' = [xiter EXCEPT ![t] = @ + 1]
        /\ xsem' = xsem + 1 /\ UNCHANGED <<xidx, xreg, xshared>>
    BY <1>7 DEF One!Leave
  <2>2. /\ xpc[t] = "post" /\ UNCHANGED <<bpc, one_i, xvalue>> /\ OneMain'
        /\ \A u \in One!Indexes : xpc'[u] = IF u = t THEN "wait" ELSE xpc[u]
        /\ xpc' \in [One!Indexes -> {"none", "index", "wait", "load", "store", "post", "exited"}]
        /\ Count(One!Indexes, xpc', Inside) = Count(One!Indexes, xpc, Inside) - 1
        /\ Count(One!Indexes, xpc, Inside) \in Nat
    <3>1. "post" \in Inside /\ "wait" \notin Inside
      BY DEF Inside
    <3> QED BY <2>1, <3>1, OneMoves
  <2>3. xsem \in Nat /\ xsem' \in Nat /\ xsem' + Count(One!Indexes, xpc', Inside) = 1
    BY <1>1, <2>1, <2>2 DEF OneTypeOK, OneAlone
  <2>4. xiter' \in [One!Indexes -> 0 .. m2]
    <3>1. xiter[t] < m2 /\ xiter[t] \in 0 .. m2 /\ m2 \in Nat
      BY <1>1, <2>2, OneParameters DEF OneAlone, OneTypeOK, Inside
    <3>2. xiter[t] + 1 \in 0 .. m2
      BY <3>1
    <3> QED BY <1>1, <2>1, <3>2 DEF OneTypeOK
  <2>5. \A u \in One!Indexes : xiter'[u] = (IF u = t THEN xiter[t] + 1 ELSE xiter[u])
    BY <1>1, <2>1 DEF OneTypeOK
  <2>6. OneTypeOK'
    BY <1>1, <2>1, <2>2, <2>3, <2>4 DEF OneTypeOK
  <2>7. OneAlone'
    BY <1>1, <2>1, <2>2, <2>3, <2>5 DEF OneAlone, Inside
  <2>8. OneDone' = OneDone
    BY <1>1, <2>2, <2>5 DEF OneDone, OneTypeOK
  <2>9. OneSum'
    BY <1>1, <2>1, <2>8 DEF OneSum, Made, One!Wrap
  <2> QED BY <2>2, <2>6, <2>7, <2>9 DEF OneInv
<1> QED BY <1>2, <1>3, <1>4, <1>5, <1>6, <1>7 DEF One!Thread, One!Enter

LEMMA OneInductive ==
    ASSUME OneInv, [One!Next]_oneVars
    PROVE  OneInv'
<1>1. CASE UNCHANGED oneVars
  BY <1>1 DEF oneVars, OneInv, OneTypeOK, OneAlone, OneSum, OneMain, Made, OneDone, One!Wrap
<1>2. CASE One!Next
  BY <1>2, OneMainStep, OneThreadStep DEF One!Next
<1> QED BY <1>1, <1>2

LEMMA OneExpected == OneInv => One!ReportsExpected
<1> SUFFICES ASSUME OneInv, bpc = "done" PROVE xvalue = One!Wrap(n2 * m2 * v2)
  BY DEF One!ReportsExpected, One!expected_value
<1>1. CASE n2 = 0
  <2>1. n2 * m2 * v2 = 0
    BY <1>1, OneParameters
  <2>2. One!Wrap(0) = 0
    BY OneWraps
  <2> QED BY <1>1, <2>1, <2>2 DEF OneInv, OneMain
<1>2. CASE n2 > 0
  <2>1. \A t \in One!Indexes : xpc[t] = "exited" /\ xiter[t] = m2
    BY DEF OneInv, OneMain, OneAlone
  <2>2. OneDone \in [One!Indexes -> Nat] /\ \A t \in One!Indexes : OneDone[t] = m2
    BY <2>1, OneParameters DEF OneDone
  <2>3. Made = n2 * m2
    <3> DEFINE f == OneDone
    <3>1. f \in [One!Indexes -> Nat] /\ \A t \in One!Indexes : f[t] = m2
      BY <2>2
    <3> HIDE DEF f
    <3>2. Cardinality(Additions(One!Indexes, f, m2)) = n2 * m2
      BY <3>1, OneParameters, AllMade
    <3> QED BY <3>2 DEF f, Made
  <2> QED BY <1>2, <2>3 DEF OneInv, OneMain, OneSum
<1> QED BY <1>1, <1>2, OneParameters

-----------------------------------------------------------------------------
(* Vpn. *)

InLoop == {"bind", "select", "tun", "tun+udp", "udp"}

VpTypeOK ==
    /\ vpc \in [VP!Ends -> InLoop \cup {"start", "setup", "handler", "cleanup", "signal", "exited",
                                        "failed", "refused", "killed"}]
    /\ step \in [VP!Ends -> VP!All] /\ rules \in [VP!Ends -> SUBSET VP!All]
    /\ packets \in [VP!Senders -> Nat]

\* A cleanup has taken away the rules before the one it is at; it starts at
\* the first.
Cleaned(e) ==
    /\ vpc[e] \in InLoop \cup {"handler"} => step[e] = 1
    /\ vpc[e] \in {"cleanup", "signal"} => \A r \in rules[e] : r >= step[e]
    /\ vpc[e] = "exited" => rules[e] = {}

\* What the server's host and the third party sent.
Outside == {"server", "stranger"}
FromOutside(sent, d) == \E p \in Outside : \E x \in 1 .. sent[p] : d = VP!Packet(p, x)

\* The client hears from outside only, and so never sends to itself; what is
\* at its socket and what it delivered was sent from outside.
Peer ==
    /\ vpn_addr \in [VP!Ends -> VP!Senders] /\ vpn_addr["client"] # "client"
    /\ DOMAIN socket = VP!Ends /\ DOMAIN delivered = VP!Ends
    /\ \A d \in socket["client"] : d[1] \in Outside /\ FromOutside(packets, d[2])
    /\ \A d \in socket["server"] : d[1] \in VP!Senders
    /\ \A d \in delivered["client"] : FromOutside(packets, d)

VpInv == VpTypeOK /\ (\A e \in VP!Ends : Cleaned(e)) /\ Peer

LEMMA VpParameters == Rules \in Nat \ {0} /\ VP!All = 1 .. Rules /\ 1 \in VP!All
BY StandaloneAssumption DEF VP!VpnAssumption, VP!All

LEMMA VpInitially == VP!Init => VpInv
<1> SUFFICES ASSUME VP!Init PROVE VpInv
  OBVIOUS
<1>1. VpTypeOK /\ \A e \in VP!Ends : Cleaned(e)
  BY VpParameters DEF VP!Init, VpTypeOK, Cleaned, InLoop
<1>2. Peer
  BY DEF VP!Init, Peer, VP!Ends, VP!Senders
<1> QED BY <1>1, <1>2 DEF VpInv

\* The part of an end that starts, stops or cleans up: its buffers and the
\* network are left alone.
LEMMA VpControl ==
    ASSUME VpInv, NEW e \in VP!Ends, UNCHANGED <<VP!bufVars>>, VpTypeOK',
           \A o \in VP!Ends \ {e} : vpc'[o] = vpc[o] /\ step'[o] = step[o] /\ rules'[o] = rules[o],
           Cleaned(e)'
    PROVE  VpInv'
<1>1. \A o \in VP!Ends : Cleaned(o)'
  BY DEF VpInv, Cleaned
<1>2. Peer'
  BY DEF VpInv, VP!bufVars, Peer, FromOutside, VP!Packet
<1> QED BY <1>1, <1>2 DEF VpInv

\* A move that changes the position, and at most takes the routes over the
\* device away.
LEMMA VpMove ==
    ASSUME VpInv, NEW e \in VP!Ends, NEW from, NEW to,
           (VP!Move(e, from, to) /\ UNCHANGED rules) \/ VP!CloseTun(e, from, to),
           UNCHANGED <<step, VP!bufVars>>,
           to \in InLoop \cup {"setup", "failed", "refused", "cleanup"},
           to \in InLoop => from \in InLoop \cup {"handler"},
           to = "cleanup" => from \in InLoop
    PROVE  VpInv'
<1>1. vpc[e] = from /\ vpc' = [vpc EXCEPT ![e] = to] /\ UNCHANGED step
  BY DEF VP!Move, VP!CloseTun
<1>2. VpTypeOK /\ packets' = packets
  BY DEF VpInv, VP!bufVars
<1>3. /\ rules' \in [VP!Ends -> SUBSET VP!All] /\ rules'[e] \subseteq rules[e]
      /\ \A o \in VP!Ends \ {e} : rules'[o] = rules[o]
  BY <1>2 DEF VpTypeOK, VP!CloseTun
<1>4. VpTypeOK'
  BY <1>1, <1>2, <1>3 DEF VpTypeOK
<1>5. vpc'[e] = to /\ \A o \in VP!Ends \ {e} : vpc'[o] = vpc[o]
  BY <1>1, <1>2 DEF VpTypeOK
<1>6. Cleaned(e)'
  <2>1. to = "cleanup" => step[e] = 1 /\ rules'[e] \subseteq VP!All
    BY <1>1, <1>2, <1>3 DEF VpInv, Cleaned, VpTypeOK
  <2>2. \A r \in VP!All : r >= 1
    BY VpParameters
  <2> QED BY <1>1, <1>5, <2>1, <2>2 DEF VpInv, Cleaned, InLoop
<1> QED BY <1>1, <1>3, <1>4, <1>5, <1>6, VpControl

LEMMA VpSetupStep ==
    ASSUME VpInv, NEW e \in VP!Ends, VP!SetupRoute(e)
    PROVE  VpInv'
<1>1. VpTypeOK
  BY DEF VpInv
<1>2. CASE VP!CloseTun(e, "setup", "failed") /\ UNCHANGED step
  BY <1>2, VpMove DEF VP!SetupRoute, InLoop
<1>3. CASE ~(VP!CloseTun(e, "setup", "failed") /\ UNCHANGED step)
  <2> DEFINE to == IF step[e] = Rules THEN "handler" ELSE "setup"
             next == IF step[e] = Rules THEN 1 ELSE step[e] + 1
  <2>1. /\ vpc' = [vpc EXCEPT ![e] = to] /\ vpc[e] = "setup"
        /\ rules' = [rules EXCEPT ![e] = @ \cup {step[e]}] /\ step' = [step EXCEPT ![e] = next]
        /\ UNCHANGED VP!bufVars
    BY <1>3 DEF VP!SetupRoute, VP!Move
  <2>2. /\ to \in {"handler", "setup"} /\ (to = "handler" => next = 1)
        /\ next \in VP!All /\ step[e] \in VP!All
    BY <1>1, VpParameters DEF VpTypeOK
  <2> HIDE DEF to, next
  <2>3. /\ vpc'[e] = to /\ step'[e] = next
        /\ \A o \in VP!Ends \ {e} : vpc'[o] = vpc[o] /\ step'[o] = step[o] /\ rules'[o] = rules[o]
    BY <1>1, <2>1 DEF VpTypeOK
  <2>4. VpTypeOK'
    BY <1>1, <2>1, <2>2 DEF VpTypeOK, VP!bufVars
  <2>5. Cleaned(e)'
    BY <2>2, <2>3 DEF Cleaned, InLoop
  <2> QED BY <2>1, <2>3, <2>4, <2>5, VpControl
<1> QED BY <1>2, <1>3

LEMMA VpCleanupStep ==
    ASSUME VpInv, NEW e \in VP!Ends, NEW here \in {"cleanup", "signal"}, VP!CleanupRoute(e, here)
    PROVE  VpInv'
<1>1. VpTypeOK
  BY DEF VpInv
<1> DEFINE refusal == IF step[e] \in rules[e] THEN "refused" ELSE "failed"
<1>2. CASE VP!CloseTun(e, here, refusal) /\ UNCHANGED step
  <2>1. refusal \in {"refused", "failed"} /\ UNCHANGED VP!bufVars
    BY DEF VP!CleanupRoute
  <2> HIDE DEF refusal
  <2> QED BY <1>2, <2>1, VpMove DEF InLoop
<1>3. CASE ~(VP!CloseTun(e, here, refusal) /\ UNCHANGED step)
  <2> DEFINE to == IF step[e] = Rules THEN "exited" ELSE here
             next == IF step[e] = Rules THEN 1 ELSE step[e] + 1
  <2>1. /\ vpc' = [vpc EXCEPT ![e] = to] /\ vpc[e] = here
        /\ rules' = [rules EXCEPT ![e] = @ \ {step[e]}] /\ step' = [step EXCEPT ![e] = next]
        /\ UNCHANGED VP!bufVars
    BY <1>3 DEF VP!CleanupRoute, VP!Move
  <2>2. next \in VP!All /\ step[e] \in VP!All /\ rules[e] \subseteq VP!All
    BY <1>1, VpParameters DEF VpTypeOK
  <2>3. VpTypeOK'
    BY <1>1, <2>1, <2>2 DEF VpTypeOK, VP!bufVars
  <2>4. \A r \in rules[e] : r \in 1 .. Rules /\ r >= step[e]
    BY <2>1, <2>2, VpParameters DEF VpInv, Cleaned
  <2>5. /\ vpc'[e] = to /\ step'[e] = next /\ rules'[e] = rules[e] \ {step[e]}
        /\ \A o \in VP!Ends \ {e} : vpc'[o] = vpc[o] /\ step'[o] = step[o] /\ rules'[o] = rules[o]
    BY <1>1, <2>1 DEF VpTypeOK
  <2>6. Cleaned(e)'
    <3>1. CASE step[e] = Rules
      <4>1. rules'[e] = {}
        BY <2>2, <2>4, <2>5, <3>1, VpParameters
      <4> QED BY <2>5, <3>1, <4>1 DEF Cleaned, InLoop
    <3>2. CASE step[e] # Rules
      <4>1. \A r \in rules'[e] : r >= step[e] + 1
        BY <2>2, <2>4, <2>5, VpParameters
      <4> QED BY <2>5, <3>2, <4>1 DEF Cleaned, InLoop
    <3> QED BY <3>1, <3>2
  <2> HIDE DEF to, next
  <2> QED BY <2>1, <2>3, <2>5, <2>6, VpControl
<1> QED BY <1>2, <1>3

\* A signal starts the cleanup at the first rule, or ends the process.
LEMMA VpSignalStep ==
    ASSUME VpInv, NEW e \in VP!Ends, VP!Signal(e)
    PROVE  VpInv'
<1>1. VpTypeOK
  BY DEF VpInv
<1>2. PICK to \in {"killed", "signal"} :
          /\ vpc' = [vpc EXCEPT ![e] = to]
          /\ rules' = rules \/ rules' = [rules EXCEPT ![e] = @ \ VP!TunRoutes(e)]
  BY DEF VP!Signal, VP!CloseTun, VP!Move
<1>3. step' = [step EXCEPT ![e] = 1] /\ UNCHANGED VP!bufVars
  BY DEF VP!Signal
<1>4. VpTypeOK'
  BY <1>1, <1>2, <1>3, VpParameters DEF VpTypeOK, VP!bufVars
<1>5. /\ vpc'[e] = to /\ step'[e] = 1 /\ rules'[e] \subseteq rules[e]
      /\ \A o \in VP!Ends \ {e} : vpc'[o] = vpc[o] /\ step'[o] = step[o] /\ rules'[o] = rules[o]
  BY <1>1, <1>2, <1>3 DEF VpTypeOK
<1>6. Cleaned(e)'
  <2>1. \A r \in rules[e] : r >= 1
    BY <1>1, VpParameters DEF VpTypeOK
  <2> QED BY <1>5, <2>1 DEF Cleaned, InLoop
<1> QED BY <1>3, <1>4, <1>5, <1>6, VpControl

\* A packet from the host goes to the last sender: what arrives at the client
\* is the server's, because the client does not send to itself.
LEMMA VpReadTunStep ==
    ASSUME VpInv, NEW e \in VP!Ends, VP!ReadTun(e)
    PROVE  VpInv'
<1>1. VpTypeOK /\ Peer
  BY DEF VpInv
<1>2. PICK to \in {"select", "udp"} : vpc[e] \in InLoop /\ vpc' = [vpc EXCEPT ![e] = to]
  BY DEF VP!ReadTun, VP!Move, InLoop
<1>3. /\ packets' = [packets EXCEPT ![e] = @ + 1]
      /\ VP!Arrives(e, VP!Packet(e, packets[e] + 1))
      /\ UNCHANGED <<step, rules, vpn_addr, delivered>>
  BY DEF VP!ReadTun
<1>4. VpTypeOK'
  <2>1. VP!Ends \subseteq VP!Senders
    BY DEF VP!Senders
  <2> QED BY <1>1, <1>2, <1>3, <2>1 DEF VpTypeOK, InLoop
<1>5. \A o \in VP!Ends : Cleaned(o)'
  BY <1>1, <1>2, <1>3 DEF VpInv, VpTypeOK, Cleaned, InLoop
<1>6. /\ "server" \in VP!Ends /\ "client" \in VP!Ends /\ VP!Ends = {"server", "client"}
      /\ VP!Ends \subseteq VP!Senders /\ Outside \subseteq VP!Senders
  BY DEF VP!Ends, VP!Senders, Outside
<1>7. /\ packets[e] \in Nat /\ packets'[e] = packets[e] + 1
      /\ \A p \in VP!Senders : packets[p] \in Nat /\ packets'[p] \in Nat /\ packets'[p] >= packets[p]
  BY <1>1, <1>3, <1>6 DEF VpTypeOK
<1>8. ASSUME NEW d, FromOutside(packets, d) PROVE FromOutside(packets', d)
  <2>1. PICK p \in Outside : \E x \in 1 .. packets[p] : d = VP!Packet(p, x)
    BY <1>8 DEF FromOutside
  <2>2. PICK x \in 1 .. packets[p] : d = VP!Packet(p, x)
    BY <2>1
  <2>3. x \in 1 .. packets'[p]
    BY <1>6, <1>7
  <2> QED BY <2>2, <2>3 DEF FromOutside
<1>9. e = "server" => FromOutside(packets', VP!Packet(e, packets[e] + 1))
  <2>1. e = "server" => e \in Outside /\ packets[e] + 1 \in 1 .. packets'[e]
    BY <1>7 DEF Outside
  <2> QED BY <2>1 DEF FromOutside
<1>10. Peer'
  <2>1. CASE UNCHANGED socket
    BY <1>1, <1>3, <1>8, <2>1 DEF Peer
  <2>2. CASE /\ vpn_addr[e] \in VP!Ends
             /\ socket' = [socket EXCEPT ![vpn_addr[e]] = @ \cup {<<e, VP!Packet(e, packets[e] + 1)>>}]
    <3> DEFINE d == <<e, VP!Packet(e, packets[e] + 1)>>
    <3>1. d[1] = e /\ d[2] = VP!Packet(e, packets[e] + 1)
      OBVIOUS
    <3> HIDE DEF d
    <3>2. /\ DOMAIN socket' = VP!Ends
          /\ \A o \in VP!Ends : socket'[o] = IF o = vpn_addr[e] THEN socket[o] \cup {d} ELSE socket[o]
      BY <1>1, <2>2 DEF Peer, d
    <3>3. vpn_addr[e] = "client" => e = "server"
      BY <1>1, <1>6 DEF Peer
    <3>4. \A x \in socket'["client"] : x[1] \in Outside /\ FromOutside(packets', x[2])
      <4> SUFFICES ASSUME NEW x \in socket'["client"]
                   PROVE  x[1] \in Outside /\ FromOutside(packets', x[2])
        OBVIOUS
      <4>1. CASE x \in socket["client"]
        BY <1>1, <1>8, <4>1 DEF Peer
      <4>2. CASE x \notin socket["client"]
        <5>1. x = d /\ e = "server"
          BY <1>6, <3>2, <3>3, <4>2
        <5> QED BY <1>9, <3>1, <5>1 DEF Outside
      <4> QED BY <4>1, <4>2
    <3>5. \A x \in socket'["server"] : x[1] \in VP!Senders
      BY <1>1, <1>6, <3>1, <3>2 DEF Peer
    <3> QED BY <1>1, <1>3, <1>8, <3>2, <3>4, <3>5 DEF Peer
  <2> QED BY <1>3, <2>1, <2>2 DEF VP!Arrives
<1> QED BY <1>4, <1>5, <1>10 DEF VpInv

\* A datagram of the third party.
LEMMA VpStrangerStep ==
    ASSUME VpInv, NEW e \in VP!Ends, VP!Stranger(e)
    PROVE  VpInv'
<1>1. VpTypeOK /\ Peer
  BY DEF VpInv
<1> DEFINE d == <<"stranger", VP!Packet("stranger", packets["stranger"] + 1)>>
<1>2. /\ packets' = [packets EXCEPT !["stranger"] = @ + 1]
      /\ socket' = [socket EXCEPT ![e] = @ \cup {d}]
      /\ UNCHANGED <<vpc, step, rules, vpn_addr, delivered>>
  BY DEF VP!Stranger
<1>3. /\ "server" \in VP!Ends /\ "client" \in VP!Ends /\ VP!Ends = {"server", "client"}
      /\ Outside \subseteq VP!Senders /\ "stranger" \in VP!Senders
  BY DEF VP!Ends, VP!Senders, Outside
<1>4. /\ VpTypeOK' /\ packets'["stranger"] = packets["stranger"] + 1
      /\ \A p \in VP!Senders : packets[p] \in Nat /\ packets'[p] \in Nat /\ packets'[p] >= packets[p]
  BY <1>1, <1>2, <1>3 DEF VpTypeOK
<1>5. \A o \in VP!Ends : Cleaned(o)'
  BY <1>2 DEF VpInv, Cleaned
<1>6. ASSUME NEW x, FromOutside(packets, x) PROVE FromOutside(packets', x)
  <2>1. PICK p \in Outside : \E k \in 1 .. packets[p] : x = VP!Packet(p, k)
    BY <1>6 DEF FromOutside
  <2>2. PICK k \in 1 .. packets[p] : x = VP!Packet(p, k)
    BY <2>1
  <2>3. k \in 1 .. packets'[p]
    BY <1>3, <1>4
  <2> QED BY <2>2, <2>3 DEF FromOutside
<1>7. d[1] = "stranger" /\ FromOutside(packets', d[2])
  <2>1. "stranger" \in Outside /\ packets["stranger"] + 1 \in 1 .. packets'["stranger"]
    BY <1>3, <1>4 DEF Outside
  <2> QED BY <2>1 DEF FromOutside
<1> HIDE DEF d
<1>8. /\ DOMAIN socket' = VP!Ends
      /\ \A o \in VP!Ends : socket'[o] \subseteq socket[o] \cup {d}
  BY <1>1, <1>2 DEF Peer
<1>9. \A x \in socket'["client"] : x[1] \in Outside /\ FromOutside(packets', x[2])
  <2> SUFFICES ASSUME NEW x \in socket'["client"] PROVE x[1] \in Outside /\ FromOutside(packets', x[2])
    OBVIOUS
  <2>1. CASE x \in socket["client"]
    BY <1>1, <1>6, <2>1 DEF Peer
  <2>2. CASE x = d
    BY <1>7, <2>2 DEF Outside
  <2> QED BY <1>3, <1>8, <2>1, <2>2
<1>10. \A x \in socket'["server"] : x[1] \in VP!Senders
  BY <1>1, <1>3, <1>7, <1>8 DEF Peer
<1>11. Peer'
  BY <1>1, <1>2, <1>6, <1>8, <1>9, <1>10 DEF Peer
<1> QED BY <1>4, <1>5, <1>11 DEF VpInv

\* A datagram from the socket: whoever sent it is the peer from now on.
LEMMA VpReadUdpStep ==
    ASSUME VpInv, NEW e \in VP!Ends, VP!ReadUdp(e)
    PROVE  VpInv'
<1>1. VpTypeOK /\ Peer
  BY DEF VpInv
<1>2. vpc[e] = "udp" /\ vpc' = [vpc EXCEPT ![e] = "select"] /\ UNCHANGED <<step, rules, packets>>
  BY DEF VP!ReadUdp, VP!Move
<1>3. PICK d \in socket[e] :
          /\ socket' = [socket EXCEPT ![e] = @ \ {d}]
          /\ vpn_addr' = [vpn_addr EXCEPT ![e] = d[1]]
          /\ delivered' = [delivered EXCEPT ![e] = @ \cup {d[2]}]
  BY DEF VP!ReadUdp
<1>4. VpTypeOK' /\ \A o \in VP!Ends : Cleaned(o)'
  BY <1>1, <1>2 DEF VpInv, VpTypeOK, Cleaned, InLoop
<1>5. "server" \in VP!Ends /\ "client" \in VP!Ends /\ VP!Ends = {"server", "client"}
  BY DEF VP!Ends
<1>6. /\ DOMAIN socket' = VP!Ends /\ \A o \in VP!Ends : socket'[o] \subseteq socket[o]
      /\ DOMAIN delivered' = VP!Ends
      /\ delivered'["client"] = IF e = "client" THEN delivered["client"] \cup {d[2]}
                                                ELSE delivered["client"]
      /\ vpn_addr'["client"] = IF e = "client" THEN d[1] ELSE vpn_addr["client"]
  BY <1>1, <1>3, <1>5 DEF Peer
<1>7. ASSUME NEW x PROVE FromOutside(packets', x) <=> FromOutside(packets, x)
  BY <1>2 DEF FromOutside, VP!Packet
<1>8. d[1] \in VP!Senders /\ (e = "client" => d[1] # "client" /\ FromOutside(packets, d[2]))
  BY <1>1, <1>3, <1>5 DEF Peer, VP!Senders, Outside
<1>9. vpn_addr' \in [VP!Ends -> VP!Senders]
  BY <1>1, <1>3, <1>8 DEF Peer
<1>10. Peer'
  BY <1>1, <1>5, <1>6, <1>7, <1>8, <1>9 DEF Peer
<1> QED BY <1>4, <1>10 DEF VpInv

LEMMA VpInductive ==
    ASSUME VpInv, [VP!Next]_vpnVars
    PROVE  VpInv'
<1>1. CASE UNCHANGED vpnVars
  <2>1. VpTypeOK' /\ \A e \in VP!Ends : Cleaned(e)'
    BY <1>1 DEF vpnVars, VpInv, VpTypeOK, Cleaned
  <2>2. Peer'
    BY <1>1 DEF vpnVars, VpInv, Peer, FromOutside, VP!Packet
  <2> QED BY <2>1, <2>2 DEF VpInv
<1>2. ASSUME NEW e \in VP!Ends, VP!Main(e) PROVE VpInv'
  <2>1. CASE VP!Start(e)
    BY <2>1, VpMove DEF VP!Start, InLoop
  <2>2. CASE VP!InstallHandler(e)
    BY <2>2, VpMove DEF VP!InstallHandler, InLoop
  <2>3. CASE VP!UdpBind(e)
    BY <2>3, VpMove DEF VP!UdpBind, InLoop
  <2>4. CASE VP!Select(e)
    BY <2>4, VpMove DEF VP!Select, InLoop
  <2>5. CASE VP!LoopError(e)
    BY <2>5, VpMove DEF VP!LoopError, VP!Loop, InLoop
  <2> QED BY <1>2, <2>1, <2>2, <2>3, <2>4, <2>5, VpSetupStep, VpCleanupStep, VpReadTunStep,
             VpReadUdpStep DEF VP!Main
<1> QED BY <1>1, <1>2, VpSignalStep, VpStrangerStep DEF VP!Next

LEMMA VpHolds == VpInv => VP!NoRuleLeft /\ OnlyFromOutside
BY DEF VpInv, Cleaned, Peer, FromOutside, Outside, VP!NoRuleLeft, OnlyFromOutside, VP!OnlyFromOutside

-----------------------------------------------------------------------------
(* Copy. *)

Byte == 0 .. 255

CopyTypeOK ==
    /\ ppc \in {"read", "write", "done", "failed"}
    /\ offset \in 0 .. Len(src) /\ block \in Seq(Byte) /\ Len(block) <= offset
    /\ written \in Nat /\ dest_offset \in 0 .. offset
    /\ old \in Seq(Byte)

\* The block is what was read last, and what is left of it is what the
\* destination lacks of what was read.
CopyInv ==
    /\ CopyTypeOK
    /\ block = SubSeq(src, offset - Len(block) + 1, offset)
    /\ ppc = "write" => /\ block # <<>> /\ written < Len(block)
                        /\ dest_offset = offset - Len(block) + written
    /\ ppc \in {"read", "done"} => dest_offset = offset - Len(block)
    /\ ppc = "done" => offset = Len(src) /\ block = <<>>
    /\ dest = Co!Overwritten(old, 0, SubSeq(src, 1, dest_offset))

LEMMA CopyParameters ==
    block_size \in Nat \ {0} /\ src \in Seq(Byte) /\ OldFiles \subseteq Seq(Byte)
BY StandaloneAssumption DEF Co!CopyAssumption, Byte

\* What follows the first n elements.
LEMMA SubSeqFrom ==
    ASSUME NEW S, NEW s \in Seq(S), NEW n \in Nat
    PROVE  /\ SubSeq(s, n + 1, Len(s)) \in Seq(S)
           /\ Len(SubSeq(s, n + 1, Len(s))) = IF n <= Len(s) THEN Len(s) - n ELSE 0
           /\ \A x \in 1 .. Len(SubSeq(s, n + 1, Len(s))) : SubSeq(s, n + 1, Len(s))[x] = s[n + x]
<1>1. Len(s) \in Nat /\ \A x \in n + 1 .. Len(s) : s[x] \in S
  BY ElementOfSeq
<1>2. /\ SubSeq(s, n + 1, Len(s)) \in Seq(S)
      /\ Len(SubSeq(s, n + 1, Len(s))) = IF n + 1 <= Len(s) THEN Len(s) - (n + 1) + 1 ELSE 0
      /\ \A x \in 1 .. Len(s) - (n + 1) + 1 : SubSeq(s, n + 1, Len(s))[x] = s[n + 1 + x - 1]
  BY <1>1, SubSeqProperties
<1>3. Len(SubSeq(s, n + 1, Len(s))) = IF n <= Len(s) THEN Len(s) - n ELSE 0
  BY <1>1, <1>2
<1>4. ASSUME NEW x \in 1 .. Len(SubSeq(s, n + 1, Len(s)))
      PROVE  SubSeq(s, n + 1, Len(s))[x] = s[n + x]
  <2>1. x \in 1 .. Len(s) - (n + 1) + 1 /\ n + 1 + x - 1 = n + x
    BY <1>1, <1>3
  <2> QED BY <1>2, <2>1
<1> QED BY <1>2, <1>3, <1>4

\* What is written over a file after its first part a keeps what comes later.
LEMMA Splice ==
    ASSUME NEW S, NEW a \in Seq(S), NEW bytes \in Seq(S), NEW o \in Seq(S), NEW f,
           f = a \o SubSeq(o, Len(a) + 1, Len(o))
    PROVE  /\ SubSeq(f, 1, Len(a)) = a
           /\ SubSeq(f, Len(a) + Len(bytes) + 1, Len(f))
                  = SubSeq(o, Len(a) + Len(bytes) + 1, Len(o))
<1> DEFINE b == SubSeq(o, Len(a) + 1, Len(o))
           n == Len(a) + Len(bytes)
           rest == SubSeq(o, n + 1, Len(o))
<1>1. Len(a) \in Nat /\ Len(bytes) \in Nat /\ Len(o) \in Nat /\ n \in Nat
  OBVIOUS
<1>2. /\ b \in Seq(S) /\ Len(b) = IF Len(a) <= Len(o) THEN Len(o) - Len(a) ELSE 0
      /\ \A x \in 1 .. Len(b) : b[x] = o[Len(a) + x]
  BY <1>1, SubSeqFrom
<1>3. /\ rest \in Seq(S) /\ Len(rest) = IF n <= Len(o) THEN Len(o) - n ELSE 0
      /\ \A x \in 1 .. Len(rest) : rest[x] = o[n + x]
  BY <1>1, SubSeqFrom
<1>4. f = a \o b
  OBVIOUS
<1> HIDE DEF b, rest
<1>5. /\ f \in Seq(S) /\ Len(f) = Len(a) + Len(b)
      /\ \A x \in 1 .. Len(a) + Len(b) : f[x] = IF x <= Len(a) THEN a[x] ELSE b[x - Len(a)]
  BY <1>2, <1>4, ConcatProperties
<1>6. SubSeq(f, 1, Len(a)) = a
  <2>1. CASE a = <<>>
    BY <2>1, SubSeqEmpty
  <2>2. CASE a # <<>>
    <3>1. 1 \in 1 .. Len(a) /\ Len(a) \in 1 .. Len(a)
      BY <1>1, <2>2, EmptySeq
    <3> QED BY <1>2, <1>4, <3>1, SubSeqOfConcat1, SubSeqFull
  <2> QED BY <2>1, <2>2
<1>7. SubSeq(f, n + 1, Len(f)) = rest
  <2>1. /\ SubSeq(f, n + 1, Len(f)) \in Seq(S)
        /\ Len(SubSeq(f, n + 1, Len(f))) = IF n <= Len(f) THEN Len(f) - n ELSE 0
        /\ \A x \in 1 .. Len(SubSeq(f, n + 1, Len(f))) : SubSeq(f, n + 1, Len(f))[x] = f[n + x]
    BY <1>1, <1>5, SubSeqFrom
  <2>2. Len(SubSeq(f, n + 1, Len(f))) = Len(rest)
    BY <1>1, <1>2, <1>3, <1>5, <2>1
  <2>3. ASSUME NEW x \in 1 .. Len(rest) PROVE SubSeq(f, n + 1, Len(f))[x] = rest[x]
    <3>1. x \in Nat /\ x >= 1 /\ n + x <= Len(o)
      BY <1>1, <1>3
    <3>2. n + x \in 1 .. Len(a) + Len(b) /\ ~(n + x <= Len(a)) /\ n + x - Len(a) \in 1 .. Len(b)
          /\ Len(a) + (n + x - Len(a)) = n + x
      BY <1>1, <1>2, <3>1
    <3>3. f[n + x] = b[n + x - Len(a)]
      BY <1>5, <3>2
    <3>4. b[n + x - Len(a)] = o[n + x]
      BY <1>2, <3>2
    <3>5. rest[x] = o[n + x] /\ SubSeq(f, n + 1, Len(f))[x] = f[n + x]
      BY <1>3, <2>1, <2>2
    <3> QED BY <3>3, <3>4, <3>5
  <2> QED BY <1>3, <2>1, <2>2, <2>3, SeqEqual
<1> QED BY <1>6, <1>7 DEF rest

\* Where the source has been written over the file: the source so far, then
\* the rest of the file.
LEMMA OverwrittenSoFar ==
    ASSUME NEW d \in 0 .. Len(src), NEW o \in Seq(Byte)
    PROVE  /\ SubSeq(src, 1, d) \in Seq(Byte) /\ Len(SubSeq(src, 1, d)) = d
           /\ Co!Overwritten(o, 0, SubSeq(src, 1, d))
                  = SubSeq(src, 1, d) \o SubSeq(o, d + 1, Len(o))
<1>1. src \in Seq(Byte) /\ Len(src) \in Nat /\ Len(o) \in Nat /\ d \in Nat
  BY CopyParameters
<1>2. SubSeq(src, 1, d) \in Seq(Byte) /\ Len(SubSeq(src, 1, d)) = d
  BY <1>1, SubSeqProperties, ElementOfSeq
<1>3. SubSeq(o, 1, 0) = <<>> /\ <<>> \o SubSeq(src, 1, d) = SubSeq(src, 1, d)
  BY <1>2, SubSeqEmpty, ConcatEmptySeq
<1>4. 0 + Len(SubSeq(src, 1, d)) + 1 = d + 1
  BY <1>1, <1>2
<1>5. Co!Overwritten(o, 0, SubSeq(src, 1, d))
          = (SubSeq(o, 1, 0) \o SubSeq(src, 1, d))
                \o SubSeq(o, 0 + Len(SubSeq(src, 1, d)) + 1, Len(o))
  BY Zenon DEF Co!Overwritten
<1> QED BY <1>2, <1>3, <1>4, <1>5

LEMMA OverwriteMore ==
    ASSUME NEW d \in 0 .. Len(src), NEW k \in Nat, d + k <= Len(src), NEW o \in Seq(Byte)
    PROVE  Co!Overwritten(Co!Overwritten(o, 0, SubSeq(src, 1, d)), d, SubSeq(src, d + 1, d + k))
               = Co!Overwritten(o, 0, SubSeq(src, 1, d + k))
<1> DEFINE a == SubSeq(src, 1, d)
           bytes == SubSeq(src, d + 1, d + k)
           f == Co!Overwritten(o, 0, a)
<1>1. src \in Seq(Byte) /\ Len(src) \in Nat /\ d \in Nat /\ d + k \in 0 .. Len(src)
  BY CopyParameters
<1>2. a \in Seq(Byte) /\ Len(a) = d /\ f = a \o SubSeq(o, d + 1, Len(o))
  BY OverwrittenSoFar
<1>3. bytes \in Seq(Byte) /\ Len(bytes) = k
  <2>1. \A x \in d + 1 .. d + k : src[x] \in Byte
    BY <1>1, ElementOfSeq
  <2>2. /\ bytes \in Seq(Byte)
        /\ Len(bytes) = IF d + 1 <= d + k THEN d + k - (d + 1) + 1 ELSE 0
    BY <1>1, <2>1, SubSeqProperties
  <2> QED BY <1>1, <2>2
<1>4. a \o bytes = SubSeq(src, 1, d + k)
  <2>1. 1 \in 1 .. Len(src) + 1 /\ d \in 1 - 1 .. Len(src) /\ d + k \in d .. Len(src)
    BY <1>1
  <2> QED BY <1>1, <2>1, ConcatAdjacentSubSeq
<1>5. Co!Overwritten(o, 0, SubSeq(src, 1, d + k))
          = SubSeq(src, 1, d + k) \o SubSeq(o, d + k + 1, Len(o))
  BY <1>1, OverwrittenSoFar
<1>6. Co!Overwritten(f, d, bytes)
          = (SubSeq(f, 1, d) \o bytes) \o SubSeq(f, d + Len(bytes) + 1, Len(f))
  BY Zenon DEF Co!Overwritten
<1> HIDE DEF a, bytes, f
<1>7. SubSeq(f, 1, d) = a /\ SubSeq(f, d + k + 1, Len(f)) = SubSeq(o, d + k + 1, Len(o))
  <2>1. ASSUME NEW A \in Seq(Byte), NEW N \in Seq(Byte), NEW F, F = A \o SubSeq(o, Len(A) + 1, Len(o))
        PROVE  /\ SubSeq(F, 1, Len(A)) = A
               /\ SubSeq(F, Len(A) + Len(N) + 1, Len(F)) = SubSeq(o, Len(A) + Len(N) + 1, Len(o))
    BY <2>1, Splice
  <2>2. f = a \o SubSeq(o, Len(a) + 1, Len(o))
    BY <1>2
  <2>3. a \in Seq(Byte) /\ bytes \in Seq(Byte)
    BY <1>2, <1>3
  <2>4. SubSeq(f, 1, Len(a)) = a
    BY <2>1, <2>2, <2>3, Zenon
  <2>5. SubSeq(f, Len(a) + Len(bytes) + 1, Len(f)) = SubSeq(o, Len(a) + Len(bytes) + 1, Len(o))
    BY <2>1, <2>2, <2>3, SMTT(60)
  <2> QED BY <1>2, <1>3, <2>4, <2>5
<1>8. Co!Overwritten(f, d, bytes) = Co!Overwritten(o, 0, SubSeq(src, 1, d + k))
  BY <1>3, <1>4, <1>5, <1>6, <1>7
<1> QED BY <1>8 DEF a, bytes, f

LEMMA CopyInitially == Co!Init => CopyInv
<1> SUFFICES ASSUME Co!Init PROVE CopyInv
  OBVIOUS
<1>1. /\ ppc = "read" /\ offset = 0 /\ block = <<>> /\ written = 0
      /\ old \in Seq(Byte) /\ dest = old /\ dest_offset = 0
  BY CopyParameters DEF Co!Init
<1>2. CopyTypeOK /\ Len(block) = 0
  BY <1>1, CopyParameters, EmptySeq DEF CopyTypeOK
<1>3. block = SubSeq(src, offset - Len(block) + 1, offset)
  BY <1>1, <1>2, SubSeqEmpty
<1>4. dest = Co!Overwritten(old, 0, SubSeq(src, 1, dest_offset))
  <2>1. 0 \in 0 .. Len(src) /\ SubSeq(src, 1, 0) = <<>>
    BY CopyParameters, SubSeqEmpty
  <2>2. Co!Overwritten(old, 0, SubSeq(src, 1, 0)) = <<>> \o SubSeq(old, 0 + 1, Len(old))
    BY <1>1, <2>1, OverwrittenSoFar
  <2>3. SubSeq(old, 0 + 1, Len(old)) = old /\ <<>> \o old = old
    BY <1>1, SubSeqFull, ConcatEmptySeq
  <2> QED BY <1>1, <2>2, <2>3
<1>5. dest_offset = offset - Len(block)
  <2>1. dest_offset = 0 /\ offset = 0 /\ Len(block) = 0
    BY <1>1, <1>2
  <2> QED BY <2>1
<1> QED BY <1>1, <1>2, <1>3, <1>4, <1>5 DEF CopyInv

\* A read appends the next k bytes of the source to the block.
LEMMA CopyReadStep ==
    ASSUME CopyInv, Co!Read
    PROVE  CopyInv'
<1>1. CopyTypeOK /\ ppc = "read" /\ written' = 0 /\ UNCHANGED <<dest, dest_offset, old>>
  BY DEF CopyInv, Co!Read
<1>2. src \in Seq(Byte) /\ Len(src) \in Nat /\ Len(block) \in Nat /\ offset \in Nat
  BY <1>1, CopyParameters DEF CopyTypeOK
<1>3. ASSUME NEW k \in Nat \ {0}, offset + k <= Len(src),
             block' = block \o SubSeq(src, offset + 1, offset + k), offset' = offset + k,
             ppc' \in {"read", "write"}
      PROVE  CopyInv'
  <2> DEFINE more == SubSeq(src, offset + 1, offset + k)
  <2>1. more \in Seq(Byte) /\ Len(more) = k
    <3>1. \A x \in offset + 1 .. offset + k : src[x] \in Byte
      BY <1>2, <1>3, ElementOfSeq
    <3>2. /\ more \in Seq(Byte)
          /\ Len(more) = IF offset + 1 <= offset + k THEN offset + k - (offset + 1) + 1 ELSE 0
      BY <1>2, <3>1, SubSeqProperties
    <3> QED BY <1>2, <3>2
  <2>2. block' \in Seq(Byte) /\ Len(block') = Len(block) + k
    <3> HIDE DEF more
    <3>1. block \in Seq(Byte) /\ block' = block \o more
      BY <1>1, <1>3 DEF CopyTypeOK, more
    <3> QED BY <2>1, <3>1, ConcatProperties
  <2>3. block' = SubSeq(src, offset' - Len(block') + 1, offset')
    <3>1. /\ offset - Len(block) + 1 \in 1 .. Len(src) + 1
          /\ offset \in (offset - Len(block) + 1) - 1 .. Len(src) /\ offset + k \in offset .. Len(src)
      BY <1>1, <1>2, <1>3 DEF CopyTypeOK
    <3>2. SubSeq(src, offset - Len(block) + 1, offset) \o more
              = SubSeq(src, offset - Len(block) + 1, offset + k)
      BY <1>2, <3>1, ConcatAdjacentSubSeq
    <3>3. offset' - Len(block') = offset - Len(block)
      BY <1>2, <1>3, <2>2
    <3> QED BY <1>3, <3>2, <3>3 DEF CopyInv
  <2>4. CopyTypeOK'
    BY <1>1, <1>2, <1>3, <2>2 DEF CopyTypeOK
  <2>5. block' # <<>> /\ written' < Len(block')
    BY <1>1, <1>2, <2>2, EmptySeq
  <2>6. dest_offset' = offset' - Len(block') + written' /\ dest_offset' = offset' - Len(block')
    BY <1>1, <1>2, <1>3, <2>2 DEF CopyInv
  <2>7. dest' = Co!Overwritten(old', 0, SubSeq(src, 1, dest_offset'))
    BY <1>1 DEF CopyInv
  <2> QED BY <1>3, <2>3, <2>4, <2>5, <2>6, <2>7 DEF CopyInv
<1>4. CASE /\ offset = Len(src) /\ UNCHANGED <<offset, block>>
           /\ ppc' = IF block = <<>> THEN "done" ELSE "write"
  <2>1. CopyTypeOK'
    BY <1>1, <1>2, <1>4 DEF CopyTypeOK
  <2>2. dest' = Co!Overwritten(old', 0, SubSeq(src, 1, dest_offset'))
        /\ block' = SubSeq(src, offset' - Len(block') + 1, offset')
    BY <1>1, <1>4 DEF CopyInv
  <2>3. dest_offset' = offset' - Len(block') + written' /\ dest_offset' = offset' - Len(block')
    BY <1>1, <1>2, <1>4 DEF CopyInv
  <2>4. block # <<>> => written' < Len(block')
    BY <1>1, <1>2, <1>4, EmptySeq DEF CopyTypeOK
  <2> QED BY <1>4, <2>1, <2>2, <2>3, <2>4 DEF CopyInv
<1>5. \A a, b \in Int : \A k \in 1 .. Co!Min({a, b}) : k <= a /\ k <= b
  <2> SUFFICES ASSUME NEW a \in Int, NEW b \in Int, NEW k \in 1 .. Co!Min({a, b})
               PROVE  k <= a /\ k <= b
    OBVIOUS
  <2>1. \E x \in {a, b} : \A y \in {a, b} : x =< y
    OBVIOUS
  <2>2. Co!Min({a, b}) \in {a, b} /\ \A y \in {a, b} : Co!Min({a, b}) =< y
    BY <2>1 DEF Co!Min
  <2> QED BY <2>2
<1>6. CASE \E k \in 1 .. Co!Min({block_size - Len(block), Len(src) - offset}) :
             /\ block' = block \o SubSeq(src, offset + 1, offset + k) /\ offset' = offset + k
             /\ ppc' = IF Len(block) + k = block_size THEN "write" ELSE "read"
  <2>1. PICK k \in 1 .. Co!Min({block_size - Len(block), Len(src) - offset}) :
             /\ block' = block \o SubSeq(src, offset + 1, offset + k) /\ offset' = offset + k
             /\ ppc' = IF Len(block) + k = block_size THEN "write" ELSE "read"
    BY <1>6
  <2>2. k <= Len(src) - offset
    BY <1>2, <1>5, CopyParameters
  <2>3. k \in Nat \ {0} /\ offset + k <= Len(src) /\ ppc' \in {"read", "write"}
    BY <1>2, <2>1, <2>2
  <2> QED BY <1>3, <2>1, <2>3
<1> QED BY <1>4, <1>6 DEF Co!Read

\* A write takes the next k bytes of the block, which are the source's.
LEMMA CopyWriteStep ==
    ASSUME CopyInv, Co!Write
    PROVE  CopyInv'
<1>1. CopyTypeOK /\ ppc = "write" /\ UNCHANGED <<offset, old>>
  BY DEF CopyInv, Co!Write
<1>2. PICK k \in 1 .. Len(block) - written :
          /\ dest' = Co!Overwritten(dest, dest_offset, SubSeq(block, written + 1, written + k))
          /\ dest_offset' = dest_offset + k /\ written' = written + k
          /\ ppc' = IF written + k = Len(block) THEN "read" ELSE "write"
          /\ block' = IF written + k = Len(block) THEN <<>> ELSE block
  BY DEF Co!Write
<1>3. /\ src \in Seq(Byte) /\ Len(src) \in Nat /\ Len(block) \in Nat /\ offset \in Nat
      /\ written \in Nat /\ dest_offset \in Nat /\ k \in Nat \ {0} /\ written + k <= Len(block)
      /\ Len(block) <= offset /\ offset <= Len(src)
      /\ dest_offset = offset - Len(block) + written
  BY <1>1, <1>2, CopyParameters DEF CopyTypeOK, CopyInv
<1>4. SubSeq(block, written + 1, written + k) = SubSeq(src, dest_offset + 1, dest_offset + k)
  <2> DEFINE m == offset - Len(block) + 1
  <2>1. /\ m \in 1 .. Len(src) /\ offset \in 1 .. Len(src)
        /\ written + 1 \in 1 .. offset - m + 1 /\ written + k \in 1 .. offset - m + 1
        /\ m + (written + 1) - 1 = dest_offset + 1 /\ m + (written + k) - 1 = dest_offset + k
    BY <1>3
  <2>2. SubSeq(SubSeq(src, m, offset), written + 1, written + k)
            = SubSeq(src, m + (written + 1) - 1, m + (written + k) - 1)
    <3> HIDE DEF m
    <3> QED BY <1>3, <2>1, SubSeqOfSubSeq
  <2> QED BY <2>1, <2>2 DEF CopyInv
<1>5. dest' = Co!Overwritten(old', 0, SubSeq(src, 1, dest_offset'))
  <2>1. dest_offset \in 0 .. Len(src) /\ dest_offset + k <= Len(src) /\ old \in Seq(Byte)
    BY <1>1, <1>3 DEF CopyTypeOK
  <2>2. dest = Co!Overwritten(old, 0, SubSeq(src, 1, dest_offset))
    BY DEF CopyInv
  <2>3. Co!Overwritten(dest, dest_offset, SubSeq(src, dest_offset + 1, dest_offset + k))
            = Co!Overwritten(old, 0, SubSeq(src, 1, dest_offset + k))
    BY <1>3, <2>1, <2>2, OverwriteMore
  <2>4. dest' = Co!Overwritten(dest, dest_offset, SubSeq(src, dest_offset + 1, dest_offset + k))
    BY <1>2, <1>4
  <2> QED BY <1>1, <1>2, <2>3, <2>4
<1>6. CASE written + k = Len(block)
  <2>1. block' = <<>> /\ Len(block') = 0 /\ ppc' = "read" /\ dest_offset' = offset'
    BY <1>1, <1>2, <1>3, <1>6, EmptySeq
  <2>2. dest_offset' \in 0 .. offset' /\ block' \in Seq(Byte)
    BY <1>1, <1>3, <2>1, EmptySeq
  <2>3. block' = SubSeq(src, offset' - Len(block') + 1, offset')
    BY <1>1, <1>3, <2>1, SubSeqEmpty
  <2>4. CopyTypeOK'
    BY <1>1, <1>2, <1>3, <1>6, <2>1, <2>2 DEF CopyTypeOK
  <2>5. dest_offset' = offset' - Len(block')
    BY <1>1, <1>3, <2>1
  <2> QED BY <1>5, <2>1, <2>3, <2>4, <2>5 DEF CopyInv
<1>7. CASE written + k # Len(block)
  <2>1. block' = block /\ ppc' = "write" /\ written' = written + k /\ dest_offset' = dest_offset + k
    BY <1>2, <1>7
  <2>2. CopyTypeOK'
    BY <1>1, <1>3, <2>1 DEF CopyTypeOK
  <2>3. block' = SubSeq(src, offset' - Len(block') + 1, offset') /\ block' # <<>>
    BY <1>1, <2>1 DEF CopyInv
  <2>4. dest_offset' = offset' - Len(block') + written' /\ written' < Len(block')
    BY <1>1, <1>3, <1>7, <2>1
  <2> QED BY <1>5, <2>1, <2>2, <2>3, <2>4 DEF CopyInv
<1> QED BY <1>6, <1>7

LEMMA CopyInductive ==
    ASSUME CopyInv, [Co!Next]_copyVars
    PROVE  CopyInv'
<1>1. CASE UNCHANGED copyVars
  BY <1>1 DEF copyVars, CopyInv, CopyTypeOK, Co!Overwritten
<1>2. CASE Co!IOError
  BY <1>2 DEF Co!IOError, CopyInv, CopyTypeOK, Co!Overwritten
<1> QED BY <1>1, <1>2, CopyReadStep, CopyWriteStep DEF Co!Next

LEMMA CopyHolds == CopyInv => Co!CopiedSoFar
<1> SUFFICES ASSUME CopyInv PROVE Co!CopiedSoFar
  OBVIOUS
<1> DEFINE a == SubSeq(src, 1, dest_offset)
           b == SubSeq(old, dest_offset + 1, Len(old))
<1>1. /\ src \in Seq(Byte) /\ Len(src) \in Nat /\ old \in Seq(Byte) /\ Len(old) \in Nat
      /\ dest_offset \in 0 .. Len(src) /\ dest_offset \in Nat
  BY CopyParameters DEF CopyInv, CopyTypeOK
<1>2. a \in Seq(Byte) /\ Len(a) = dest_offset /\ dest = a \o b
  BY <1>1, OverwrittenSoFar DEF CopyInv
<1>3. /\ b \in Seq(Byte) /\ Len(b) = IF dest_offset <= Len(old) THEN Len(old) - dest_offset ELSE 0
  BY <1>1, SubSeqFrom
<1>4. SubSeq(dest, 1, dest_offset) = a
  <2>1. dest = a \o SubSeq(old, Len(a) + 1, Len(old)) /\ <<>> \in Seq(Byte)
    BY <1>2, EmptySeq
  <2> HIDE DEF a, b
  <2> QED BY <1>1, <1>2, <2>1, Splice
<1> HIDE DEF a, b
<1>5. dest_offset <= Len(dest)
  BY <1>1, <1>2, <1>3, ConcatProperties
<1>6. ASSUME ppc = "done" PROVE dest_offset = Len(src) /\ (Len(old) <= Len(src) => dest = src)
  <2>1. dest_offset = Len(src)
    BY <1>1, <1>6, EmptySeq DEF CopyInv
  <2>2. a = src
    BY <1>1, <2>1, SubSeqFull DEF a
  <2>3. Len(old) <= Len(src) => b = <<>>
    BY <1>1, <1>3, <2>1, EmptySeq
  <2> QED BY <1>1, <1>2, <2>1, <2>2, <2>3, ConcatEmptySeq
<1> QED BY <1>4, <1>5, <1>6 DEF Co!CopiedSoFar, a

-----------------------------------------------------------------------------
(* The programs together. *)

\* The invariants of the programs, with which the others do not interfere.
IInv == RiInv /\ ScInv /\ OwnInv /\ OneInv /\ VpInv /\ CopyInv

\* Whichever program was chosen, each of them does its own step or nothing.
LEMMA EachAlone ==
    [Next]_vars => /\ [Ri!Next]_riepilogoVars /\ [Sc!Next]_schedVars
                   /\ [Own!Next]_ownVars /\ [One!Next]_oneVars
                   /\ [VP!Next]_vpnVars /\ [Co!Next]_copyVars
BY DEF Next, vars

LEMMA Inductive ==
    ASSUME IInv, [Next]_vars
    PROVE  IInv'
BY EachAlone, RiInductive, ScInductive, OwnInductive, OneInductive, VpInductive, CopyInductive
   DEF IInv

\* Each of the programs stays within its invariant, whichever of them runs.
THEOREM Invariant == Spec => []IInv
<1>1. Init => IInv
  BY RiInitially, ScInitially, OwnInitially, OneInitially, VpInitially, CopyInitially
     DEF Init, IInv
<1>2. IInv /\ [Next]_vars => IInv'
  BY Inductive
<1> QED BY <1>1, <1>2, PTL DEF Spec

\* Riepilogo: no child starts a batch before main has seen all of them
\* arrive, however many children and threads there are.
THEOREM BarrierKept == Spec => []Barrier
<1>1. IInv => Barrier
  BY BarrierHolds DEF IInv, Barrier
<1> QED BY <1>1, Invariant, PTL

\* Riepilogo: once main has reported, every child is gone, the file holds all
\* of their whole batches, and main has named a child that ran the most.
THEOREM ReportFinal == Spec => []Ri!Final
<1>1. IInv => Ri!Final
  BY DEF IInv, RiInv
<1> QED BY <1>1, Invariant, PTL

\* Scheduler: the semaphore admits no more threads than there are resources,
\* however many bursts are spawned, and before and after it is freed.
THEOREM ResourcesKept == Spec => []Sc!WithinResources
<1>1. IInv => Sc!WithinResources
  BY ScWithin DEF IInv
<1> QED BY <1>1, Invariant, PTL

\* Adders: what is reported is the sum of what the threads were to add, modulo
\* the width of the type, in the program where each thread has a counter of
\* its own and in the one where they share one under a semaphore.
THEOREM SumsExpected == Spec => [](Own!ReportsExpected /\ One!ReportsExpected)
<1>1. IInv => Own!ReportsExpected /\ One!ReportsExpected
  BY OwnExpected, OneExpected DEF IInv
<1> QED BY <1>1, Invariant, PTL

\* Vpn: whoever sends to the sockets, and whomever the ends answer for it, the
\* host of the client gets what came from outside, and nothing of its own.
THEOREM OutsideOnly == Spec => []OnlyFromOutside
<1>1. IInv => OnlyFromOutside
  BY VpHolds DEF IInv
<1> QED BY <1>1, Invariant, PTL

\* Vpn: an end that exits with status 0 has taken all its rules away, however
\* often a signal starts the cleanup again.
THEOREM RulesGone == Spec => []VP!NoRuleLeft
<1>1. IInv => VP!NoRuleLeft
  BY VpHolds DEF IInv
<1> QED BY <1>1, Invariant, PTL

\* Copy: however reads and writes are split, the destination starts with the
\* part of the source written so far, and at the end it is the source, unless
\* it was longer before.
THEOREM CopyExact == Spec => []Co!CopiedSoFar
<1>1. IInv => Co!CopiedSoFar
  BY CopyHolds DEF IInv
<1> QED BY <1>1, Invariant, PTL
=============================================================================
