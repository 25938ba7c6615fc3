-------------------------- MODULE ShmBuffer_proofs --------------------------
(***************************************************************************)
(* ShmBuffer for any plans and numbers of children, slots and operations:  *)
(* IInv is inductive, and launched in order no call of a program that      *)
(* nobody kills fails.  With ShmRivals: of two producer programs started   *)
(* beside each other one at a time is past its set-up, and with a single   *)
(* one the children that share the memory share its semaphores.  Then      *)
(* QInv, which relates the semaphores, the indexes and the content of the  *)
(* memory: every shared memory object implements a FIFO.                   *)
(***************************************************************************)
EXTENDS ShmRivals, Lemmas

-----------------------------------------------------------------------------
(* The inductive invariant. *)

PWorking == {"wait_empty", "wait_cs", "write", "advance", "post_cs", "post_filled"}
CWorking == {"wait_filled", "wait_cs", "read", "advance", "post_cs", "post_empty"}

TypeOK ==
    /\ plan \in Plans
    /\ pmain \in Ended \cup {"setup", "run", "destroy"} /\ pstep \in 1 .. 8
    /\ cmain \in Ended \cup {"connect", "run", "destroy"} /\ cstep \in 1 .. 4
    /\ Len(objs) \in Nat /\ objs = [i \in 1 .. Len(objs) |-> objs[i]]
    /\ names \in [Names -> 0 .. Len(objs)]
    /\ phandle \in [Names -> 0 .. Len(objs)] /\ chandle \in [Names -> 0 .. Len(objs)]
    /\ ppc \in [Producers -> PWorking \cup {"none", "exit"}] /\ pops \in [Producers -> Nat]
    /\ cpc \in [Consumers -> CWorking \cup {"none", "exit"}] /\ cops \in [Consumers -> Int]
    /\ pruns \in Nat /\ cruns \in Nat /\ kills \in 0 .. plan.kills

\* Children work while their program runs.
Working ==
    /\ \A p \in Producers : ppc[p] \in PWorking =>
          pmain = "run" /\ p \in plan.producers /\ pops[p] \in 1 .. OPS_PER_PRODUCER
    /\ \A p \in Producers : ppc[p] = "exit" => pops[p] = 0
    /\ \A p \in plan.producers : pmain = "run" => ppc[p] # "none"
    /\ \A c \in Consumers : cpc[c] \in CWorking => cmain = "run" /\ c \in plan.consumers
    /\ cmain = "run" => cstep = 1

\* The semaphore empty of either program or of the name, and no other object.
Empties == {names["empty"], phandle["empty"], chandle["empty"]} \ {0}

Apart == \A nm \in Names \ {"empty"} : {names[nm], phandle[nm], chandle[nm]} \cap Empties = {}

\* The producer is past that call of its set-up, and its children not joined.
SetUp(step) == pmain = "run" \/ (pmain = "setup" /\ pstep > step)

Made ==
    /\ SetUp(5) => phandle["filled"] # 0
    /\ SetUp(6) => phandle["empty"] # 0
    /\ phandle["empty"] # 0 => objs[phandle["empty"]] \in [value : Nat]

\* A consumer program that runs, or is at its end, posts to the producers.
Opened == cmain \in {"run", "destroy"} /\ chandle["empty"] = phandle["empty"]

Unkilled == pmain \notin {"failed", "killed"} /\ cmain # "killed"

\* What set-up has unlinked stays so until set-up creates it.
Setting ==
    /\ names["mem"] # 0 => pmain \in {"run", "destroy"} /\ names["mem"] = phandle["mem"]
    /\ names["empty"] # 0 => names["empty"] = phandle["empty"]
    /\ pmain = "setup" =>
          /\ pstep \in 2 .. 5 => names["filled"] = 0
          /\ pstep \in 3 .. 6 => names["empty"] = 0
          /\ pstep \in 4 .. 7 => names["cs_prod"] = 0
          /\ pstep > 6 => objs[phandle["empty"]].value = BUFFER_SIZE /\ ~Opened

\* The name filled outlives its producer's children only until the consumer
\* that let them finish removes it.
Filled ==
    names["filled"] # 0 =>
        /\ names["filled"] = phandle["filled"]
        /\ SetUp(5) \/ (Opened /\ (cmain = "destroy" => cstep = 1))

\* A consumer that has found filled is connecting to the current producer.
Connecting ==
    cmain = "connect" =>
        /\ cstep > 1 => SetUp(5) /\ chandle["filled"] = phandle["filled"]
        /\ cstep > 2 => SetUp(6) /\ chandle["empty"] = phandle["empty"]

Destroying ==
    cmain = "destroy" /\ cstep > 1 /\ pmain = "run" /\ chandle["empty"] = phandle["empty"]
        => names["filled"] # phandle["filled"]

\* The operations of the producers that have taken a slot.
Waits == {w \in plan.producers \X (1 .. OPS_PER_PRODUCER) :
             \/ w[2] > pops[w[1]]
             \/ w[2] = pops[w[1]] /\ ppc[w[1]] \in PWorking \ {"wait_empty"}}

\* Until a consumer is there to give slots back, the producers have the
\* slots that the semaphore does not count.
Unposted ==
    /\ pmain = "run" /\ ~Opened
    /\ names["filled"] = phandle["filled"] \/ (cmain = "connect" /\ cstep > 1)
    => objs[phandle["empty"]].value + Cardinality(Waits) = BUFFER_SIZE

Same ==
    cmain = "run" /\ pmain # "setup" /\ chandle["mem"] = phandle["mem"]
        => \A nm \in {"filled", "empty"} : phandle[nm] = chandle[nm]

InStep == Setting /\ Filled /\ Connecting /\ Destroying /\ Unposted /\ Same

IInv == /\ TypeOK /\ Working /\ Apart /\ Made
        /\ plan.kills = 0 => Unkilled /\ InStep

\* Launched in order, each program finds the names that it needs.
Present(nms) == \A nm \in nms : names[nm] # 0

Ready == pmain = "run" /\ Present({"filled", "empty", "cs_prod", "mem"})

Ordered ==
    /\ cruns = pruns \/ (cruns + 1 = pruns /\ cmain \in Ended)
    /\ cmain # "failed"
    /\ pmain = "setup" =>
          /\ cmain \in Ended /\ cruns < pruns
          /\ pstep > 4 => names["cs_cons"] = 0
          /\ pstep > 5 => Present({"filled"})
          /\ pstep > 6 => Present({"empty"})
          /\ pstep > 7 => Present({"cs_prod"})
    /\ cruns < pruns /\ pmain # "setup" => Ready /\ names["cs_cons"] = 0
    /\ cmain = "connect" => /\ Ready
                            /\ IF cstep < 4 THEN names["cs_cons"] = 0 ELSE Present({"cs_cons"})
    /\ cmain = "run" => Present({"filled", "empty", "cs_prod", "cs_cons"})
    /\ cmain = "destroy" => /\ cstep = 1 => Present({"filled"})
                            /\ cstep < 3 => Present({"empty"})
                            /\ cstep < 4 => Present({"cs_prod"})
                            /\ Present({"cs_cons"})

OInv == IInv /\ (Undisturbed => Ordered)

-----------------------------------------------------------------------------
(* The plan and the objects. *)

\* What the assumption says of the plan.
LEMMA Parameters ==
    ASSUME plan \in Plans
    PROVE  /\ BUFFER_SIZE \in Nat \ {0} /\ NUM_OPERATIONS > BUFFER_SIZE
           /\ plan.kills \in Nat /\ plan.producers \subseteq Producers
           /\ IsFiniteSet(plan.producers)
           /\ OPS_PER_PRODUCER \in Nat \ {0}
           /\ Cardinality(plan.producers) * OPS_PER_PRODUCER = NUM_OPERATIONS
<1> DEFINE n == Cardinality(plan.producers)
<1>1. /\ BUFFER_SIZE \in Nat \ {0} /\ NUM_OPERATIONS \in Nat /\ NUM_OPERATIONS > BUFFER_SIZE
      /\ plan.kills \in Nat /\ IsFiniteSet(plan.producers) /\ plan.producers # {}
      /\ NUM_OPERATIONS % n = 0
  BY ShmAssumption
<1>2. plan.producers \subseteq Producers
  BY DEF Producers
<1>3. n \in Nat \ {0}
  BY <1>1, FS_CardinalityType, FS_EmptySet
<1> HIDE DEF n
<1>4. /\ NUM_OPERATIONS \div n \in Int
      /\ NUM_OPERATIONS = (NUM_OPERATIONS \div n) * n
  BY <1>1, <1>3, ModDef
<1>5. NUM_OPERATIONS \div n \in Nat \ {0}
  <2> DEFINE q == NUM_OPERATIONS \div n
  <2>1. q \in Int /\ q * n > 0 /\ n > 0
    BY <1>1, <1>3, <1>4
  <2> HIDE DEF q
  <2>2. q > 0
    <3>1. CASE q <= 0
      <4>1. q * n <= 0
        BY <1>3, <2>1, <3>1, SMT
      <4> QED BY <1>3, <2>1, <4>1, SMT
    <3> QED BY <2>1, <3>1, SMT
  <2> QED BY <2>1, <2>2 DEF q
<1>6. n * (NUM_OPERATIONS \div n) = NUM_OPERATIONS
  <2> DEFINE q == NUM_OPERATIONS \div n
  <2>1. q \in Int /\ NUM_OPERATIONS = q * n
    BY <1>4
  <2> HIDE DEF q
  <2>2. n * q = NUM_OPERATIONS
    BY <1>3, <2>1, SMT
  <2> QED BY <2>2 DEF q
<1> QED BY <1>1, <1>2, <1>5, <1>6 DEF n, OPS_PER_PRODUCER

\* t is s but for one of its elements.
Changed(s, t, o) ==
    /\ Len(t) = Len(s) /\ t = [i \in 1 .. Len(t) |-> t[i]]
    /\ \A i \in 1 .. Len(s) : i # o => t[i] = s[i]

LEMMA ChangedByExcept ==
    ASSUME NEW s, Len(s) \in Nat, s = [i \in 1 .. Len(s) |-> s[i]], NEW o, NEW v, NEW t,
           t = [s EXCEPT ![o] = v]
    PROVE  Changed(s, t, o) /\ (o \in 1 .. Len(s) => t[o] = v)
<1> DEFINE n == Len(s)
<1>1. t = [i \in 1 .. n |-> IF i = o THEN v ELSE s[i]]
  BY Zenon
<1>2. Len(t) = n
  <2> HIDE DEF n
  <2> QED BY <1>1, n \in Nat DEF n
<1> QED BY <1>1, <1>2 DEF Changed

\* A new object is the last of them.
LEMMA Created ==
    ASSUME NEW s, Len(s) \in Nat, s = [i \in 1 .. Len(s) |-> s[i]], NEW x
    PROVE  LET t == Append(s, x) IN
           /\ Len(t) = Len(s) + 1 /\ t = [i \in 1 .. Len(t) |-> t[i]]
           /\ \A i \in 1 .. Len(s) : t[i] = s[i]
           /\ t[Len(s) + 1] = x
<1> DEFINE n == Len(s)
           S == {s[i] : i \in 1 .. n} \cup {x}
<1>1. s \in Seq(S)
  <2>1. s \in [1 .. n -> S]
    OBVIOUS
  <2>2. n \in Nat
    OBVIOUS
  <2> HIDE DEF S, n
  <2> QED BY <2>1, <2>2, SeqDef
<1>2. x \in S
  OBVIOUS
<1> HIDE DEF S
<1>3. /\ Append(s, x) \in Seq(S) /\ Len(Append(s, x)) = n + 1
      /\ \A i \in 1 .. n : Append(s, x)[i] = s[i]
      /\ Append(s, x)[n + 1] = x
  BY <1>1, <1>2, AppendProperties
<1>4. Append(s, x) = [i \in 1 .. Len(Append(s, x)) |-> Append(s, x)[i]]
  <2> DEFINE u == Append(s, x)
  <2> HIDE DEF u
  <2>1. u \in [1 .. Len(u) -> S]
    BY <1>3, LenProperties DEF u
  <2>2. u = [i \in 1 .. Len(u) |-> u[i]]
    BY <2>1, Zenon
  <2> QED BY <2>2 DEF u
<1> QED BY <1>3, <1>4

-----------------------------------------------------------------------------
(* The slots that the producers have taken. *)

\* When all of them are at their end they have taken more than there are.
LEMMA AllTaken ==
    ASSUME plan \in Plans, Working, pmain = "run",
           \A p \in plan.producers : ppc[p] = "exit"
    PROVE  Cardinality(Waits) > BUFFER_SIZE
<1>1. /\ IsFiniteSet(plan.producers) /\ plan.producers \subseteq Producers
      /\ OPS_PER_PRODUCER \in Nat /\ BUFFER_SIZE \in Nat /\ NUM_OPERATIONS > BUFFER_SIZE
      /\ Cardinality(plan.producers) * OPS_PER_PRODUCER = NUM_OPERATIONS
  BY Parameters
<1>2. \A p \in plan.producers : pops[p] = 0
  BY <1>1 DEF Working
<1>3. Waits = plan.producers \X (1 .. OPS_PER_PRODUCER)
  BY <1>1, <1>2 DEF Waits
<1>4. IsFiniteSet(1 .. OPS_PER_PRODUCER) /\ Cardinality(1 .. OPS_PER_PRODUCER) = OPS_PER_PRODUCER
  BY <1>1, FS_Interval
<1>5. Cardinality(Waits) = Cardinality(plan.producers) * OPS_PER_PRODUCER
  BY <1>1, <1>3, <1>4, FS_Product
<1> QED BY <1>1, <1>5

\* They are finitely many.
LEMMA WaitsFinite ==
    ASSUME plan \in Plans
    PROVE  IsFiniteSet(Waits) /\ Cardinality(Waits) \in Nat
<1>1. IsFiniteSet(plan.producers) /\ OPS_PER_PRODUCER \in Nat
  BY Parameters
<1>2. IsFiniteSet(1 .. OPS_PER_PRODUCER)
  BY <1>1, FS_Interval
<1>3. IsFiniteSet(plan.producers \X (1 .. OPS_PER_PRODUCER))
  BY <1>1, <1>2, FS_Product
<1>4. Waits \subseteq plan.producers \X (1 .. OPS_PER_PRODUCER)
  BY DEF Waits
<1> QED BY <1>3, <1>4, FS_Subset, FS_CardinalityType

\* At the start none is taken.
LEMMA NoneTaken ==
    ASSUME plan \in Plans, OPS_PER_PRODUCER \in Nat,
           \A p \in plan.producers : pops[p] = OPS_PER_PRODUCER /\ ppc[p] = "wait_empty"
    PROVE  Cardinality(Waits) = 0
<1>1. Waits = {}
  BY DEF Waits
<1> QED BY <1>1, FS_EmptySet

\* A child that gets past its wait takes one, and so it keeps until its end.
LEMMA TakesOne ==
    ASSUME TypeOK, Working, NEW p \in Producers, ppc[p] = "wait_empty",
           ppc' = [ppc EXCEPT ![p] = "wait_cs"], UNCHANGED <<pops, plan>>
    PROVE  Cardinality(Waits') = Cardinality(Waits) + 1
<1> DEFINE w == <<p, pops[p]>>
<1>1. p \in plan.producers /\ pops[p] \in 1 .. OPS_PER_PRODUCER
  BY DEF Working, PWorking
<1>2. w \notin Waits
  BY <1>1 DEF Waits
<1>3. Waits' = Waits \cup {w}
  BY <1>1 DEF Waits, OPS_PER_PRODUCER, TypeOK, PWorking
<1>4. IsFiniteSet(Waits)
  BY WaitsFinite DEF TypeOK
<1> HIDE DEF w
<1> QED BY <1>2, <1>3, <1>4, FS_AddElement

LEMMA TakesNone ==
    ASSUME TypeOK, Working, NEW p \in Producers, ppc[p] \in PWorking \ {"wait_empty"},
           NEW to \in PWorking \cup {"exit"}, ppc' = [ppc EXCEPT ![p] = to], UNCHANGED plan,
           \/ to \in PWorking \ {"wait_empty"} /\ UNCHANGED pops
           \/ to \in {"wait_empty", "exit"} /\ pops' = [pops EXCEPT ![p] = @ - 1]
    PROVE  Waits' = Waits
<1>1. p \in plan.producers /\ pops[p] \in 1 .. OPS_PER_PRODUCER
  BY DEF Working
<1>2. CASE to \in PWorking \ {"wait_empty"} /\ UNCHANGED pops
  BY <1>1, <1>2 DEF Waits, OPS_PER_PRODUCER, TypeOK
<1>3. CASE to \in {"wait_empty", "exit"} /\ pops' = [pops EXCEPT ![p] = @ - 1]
  <2>1. \A q \in Producers, k \in 1 .. OPS_PER_PRODUCER :
          (k > pops'[q] \/ (k = pops'[q] /\ ppc'[q] \in PWorking \ {"wait_empty"}))
            <=> (k > pops[q] \/ (k = pops[q] /\ ppc[q] \in PWorking \ {"wait_empty"}))
    BY <1>1, <1>3, Parameters DEF TypeOK, PWorking
  <2>2. plan.producers \subseteq Producers
    BY Parameters DEF TypeOK
  <2> QED BY <2>1, <2>2 DEF Waits, OPS_PER_PRODUCER
<1> QED BY <1>2, <1>3

-----------------------------------------------------------------------------
(* The children. *)

Still == UNCHANGED <<names, pmain, pstep, phandle, cmain, cstep, chandle, counts>>

\* What remains to be shown of a step of a child.
LEMMA ChildStep ==
    ASSUME IInv, Still, TypeOK', Working',
           phandle["empty"] # 0 => objs'[phandle["empty"]] \in [value : Nat],
           pmain = "setup" /\ pstep > 6 /\ ~Opened
               => objs'[phandle["empty"]] = objs[phandle["empty"]],
           plan.kills = 0 => Unposted'
    PROVE  IInv'
<1>1. Apart'
  BY DEF IInv, Apart, Empties, Still
<1>2. Made'
  BY DEF IInv, Made, SetUp, Still
<1>3. ASSUME plan.kills = 0 PROVE (Unkilled /\ InStep)'
  <2>1. Unkilled /\ InStep /\ Unposted'
    BY <1>3 DEF IInv
  <2>2. Unkilled' /\ Filled' /\ Connecting' /\ Destroying' /\ Same'
    BY <2>1 DEF InStep, Unkilled, Filled, Connecting, Destroying, Same, Still, SetUp, Opened
  <2>3. Setting'
    BY <2>1 DEF InStep, Setting, Still, Opened
  <2> QED BY <2>1, <2>2, <2>3 DEF InStep
<1> QED BY <1>1, <1>2, <1>3 DEF IInv, Still, counts

\* A wait and a post change one semaphore.
LEMMA SemStep ==
    ASSUME TypeOK, NEW o, SemWait(o) \/ SemPost(o)
    PROVE  /\ Changed(objs, objs', o)
           /\ o \in 1 .. Len(objs) /\ objs[o] \in [value : Nat] =>
                 /\ objs'[o] \in [value : Nat]
                 /\ SemWait(o) => objs'[o].value = objs[o].value - 1
<1>0. Len(objs) \in Nat /\ objs = [i \in 1 .. Len(objs) |-> objs[i]]
  BY DEF TypeOK
<1>1. CASE SemWait(o)
  <2> DEFINE v == [objs[o] EXCEPT !.value = @ - 1]
  <2>1. objs' = [objs EXCEPT ![o] = v] /\ objs[o].value > 0
    BY <1>1 DEF SemWait
  <2>2. objs[o] \in [value : Nat] => v \in [value : Nat] /\ v.value = objs[o].value - 1
    BY <2>1
  <2> HIDE DEF v
  <2>3. Changed(objs, objs', o) /\ (o \in 1 .. Len(objs) => objs'[o] = v)
    BY <1>0, <2>1, ChangedByExcept
  <2> QED BY <2>2, <2>3
<1>2. CASE SemPost(o) /\ ~SemWait(o)
  <2> DEFINE v == [objs[o] EXCEPT !.value = @ + 1]
  <2>1. objs' = [objs EXCEPT ![o] = v]
    BY <1>2 DEF SemPost
  <2>2. objs[o] \in [value : Nat] => v \in [value : Nat]
    OBVIOUS
  <2> HIDE DEF v
  <2>3. Changed(objs, objs', o) /\ (o \in 1 .. Len(objs) => objs'[o] = v)
    BY <1>0, <2>1, ChangedByExcept
  <2> QED BY <1>2, <2>2, <2>3
<1> QED BY <1>1, <1>2

\* Types and positions after the step of a child of the producer.
LEMMA ProduceTypes ==
    ASSUME TypeOK, Working, Still, NEW p \in Producers, NEW from \in PWorking, NEW to,
           PMove(p, from, to), NEW o, Changed(objs, objs', o),
           \/ to \in PWorking /\ from # "post_filled" /\ UNCHANGED pops
           \/ /\ from = "post_filled" /\ pops' = [pops EXCEPT ![p] = @ - 1]
              /\ to = IF pops[p] > 1 THEN "wait_empty" ELSE "exit"
    PROVE  TypeOK' /\ Working'
<1>1. p \in plan.producers /\ pops[p] \in 1 .. OPS_PER_PRODUCER /\ pmain = "run"
  BY DEF Working, PMove
<1>2. to \in PWorking \cup {"exit"} /\ ppc' = [ppc EXCEPT ![p] = to]
  BY DEF PMove, PWorking
<1>3. OPS_PER_PRODUCER \in Nat
  BY Parameters DEF TypeOK
<1>4. pops' \in [Producers -> Nat] /\ (to = "exit" => pops'[p] = 0)
      /\ (to \in PWorking => pops'[p] \in 1 .. OPS_PER_PRODUCER)
      /\ \A q \in Producers \ {p} : pops'[q] = pops[q]
  BY <1>1, <1>3 DEF TypeOK, PWorking
<1>5. UNCHANGED <<plan, pmain, cmain, cstep, cpc, cops, pstep, names, phandle, chandle,
                  pruns, cruns, kills>>
  BY DEF Still, counts, PMove, cvars
<1>6. TypeOK'
  <2>1. Len(objs') \in Nat /\ Len(objs') = Len(objs)
        /\ objs' = [i \in 1 .. Len(objs') |-> objs'[i]]
    BY DEF TypeOK, Changed
  <2>2. ppc' \in [Producers -> PWorking \cup {"none", "exit"}]
    BY <1>2 DEF TypeOK
  <2> QED BY <1>4, <1>5, <2>1, <2>2 DEF TypeOK
<1>7. Working'
  <2>1. OPS_PER_PRODUCER' = OPS_PER_PRODUCER
    BY <1>5 DEF OPS_PER_PRODUCER
  <2>2. \A q \in Producers \ {p} : ppc'[q] = ppc[q]
    BY <1>2 DEF TypeOK
  <2>3. ppc'[p] = to
    BY <1>2 DEF TypeOK
  <2>4. "exit" \notin PWorking /\ "none" \notin PWorking
    BY DEF PWorking
  <2> QED BY <1>1, <1>2, <1>4, <1>5, <2>1, <2>2, <2>3, <2>4 DEF Working
<1> QED BY <1>6, <1>7

\* The handles of a producer that runs: its semaphore empty is no other object.
LEMMA Handles ==
    ASSUME TypeOK, Apart, Made
    PROVE  /\ phandle["empty"] # 0 =>
                 /\ phandle["empty"] \in 1 .. Len(objs)
                 /\ objs[phandle["empty"]] \in [value : Nat]
                 /\ \A nm \in Names \ {"empty"} :
                       phandle[nm] # phandle["empty"] /\ chandle[nm] # phandle["empty"]
           /\ pmain = "run" => phandle["empty"] # 0
<1>1. "empty" \in Names
  BY DEF Names
<1>2. phandle["empty"] \in 0 .. Len(objs) /\ Len(objs) \in Nat
  BY <1>1 DEF TypeOK
<1>3. ASSUME phandle["empty"] # 0, NEW nm \in Names \ {"empty"}
      PROVE  phandle[nm] # phandle["empty"] /\ chandle[nm] # phandle["empty"]
  BY <1>3 DEF Apart, Empties
<1>4. pmain = "run" => phandle["empty"] # 0
  BY DEF Made, SetUp
<1>5. phandle["empty"] # 0 => objs[phandle["empty"]] \in [value : Nat]
  BY DEF Made
<1> QED BY <1>2, <1>3, <1>4, <1>5

\* A step of a child of the producer keeps the invariant.
LEMMA ProduceKeeps ==
    ASSUME IInv, NEW p \in Producers, ProduceChild(p)
    PROVE  IInv'
<1>0. TypeOK /\ Working /\ Apart /\ Made
  BY DEF IInv
<1> DEFINE e == phandle["empty"]
           m == phandle["mem"]
<1>1. /\ Still /\ pmain = "run" /\ p \in plan.producers
      /\ p \in Producers => ppc[p] \in PWorking
  BY <1>0 DEF ProduceChild, PMove, Still, cvars, PWorking, Working
<1>2. /\ e \in 1 .. Len(objs) /\ objs[e] \in [value : Nat]
      /\ \A nm \in Names \ {"empty"} : phandle[nm] # e
  BY <1>0, <1>1, Handles
<1>3. "cs_prod" \in Names \ {"empty"} /\ "filled" \in Names \ {"empty"} /\ "mem" \in Names \ {"empty"}
  BY DEF Names
<1>4. Len(objs) \in Nat /\ objs = [i \in 1 .. Len(objs) |-> objs[i]]
  BY <1>0 DEF TypeOK
<1>5. UNCHANGED <<names, pmain, pstep, phandle, cmain, cstep, chandle, plan>>
  BY <1>1 DEF Still, counts
<1>6. CASE PMove(p, "wait_empty", "wait_cs") /\ SemWait(e) /\ UNCHANGED pops
  <2>1. Changed(objs, objs', e) /\ objs'[e] \in [value : Nat] /\ objs'[e].value = objs[e].value - 1
    BY <1>0, <1>2, <1>6, SemStep
  <2>2. TypeOK' /\ Working'
    BY <1>0, <1>1, <1>6, <2>1, ProduceTypes DEF PWorking
  <2>3. Cardinality(Waits') = Cardinality(Waits) + 1
    BY <1>0, <1>5, <1>6, TakesOne DEF PMove
  <2>4. Cardinality(Waits) \in Nat
    BY <1>0, WaitsFinite DEF TypeOK
  <2>5. ASSUME plan.kills = 0 PROVE Unposted'
    <3>1. Unposted /\ BUFFER_SIZE \in Nat
      BY <1>0, <2>5, Parameters DEF IInv, InStep, TypeOK
    <3> HIDE DEF e
    <3>2. objs[e].value \in Nat
      BY <1>2
    <3>3. objs[e].value + Cardinality(Waits) = BUFFER_SIZE
             => objs'[e].value + Cardinality(Waits') = BUFFER_SIZE
      BY <2>1, <2>3, <2>4, <3>1, <3>2
    <3> QED BY <1>5, <3>1, <3>3 DEF Unposted, Opened, e
  <2> QED BY <1>1, <2>1, <2>2, <2>5, ChildStep
<1>7. ASSUME NEW o, o # e, Changed(objs, objs', o), TypeOK', Working', Waits' = Waits
      PROVE  IInv'
  <2>1. objs'[e] = objs[e]
    BY <1>2, <1>7 DEF Changed
  <2>2. ASSUME plan.kills = 0 PROVE Unposted'
    <3>1. Unposted
      BY <2>2 DEF IInv, InStep
    <3> QED BY <1>5, <1>7, <2>1, <3>1 DEF Unposted, Opened
  <2> QED BY <1>1, <1>2, <1>7, <2>1, <2>2, ChildStep
<1>8. CASE PMove(p, "wait_cs", "write") /\ SemWait(phandle["cs_prod"]) /\ UNCHANGED pops
  <2> DEFINE o == phandle["cs_prod"]
  <2>1. Changed(objs, objs', o) /\ o # e
    BY <1>0, <1>2, <1>3, <1>8, SemStep
  <2>2. TypeOK' /\ Working'
    BY <1>0, <1>1, <1>8, <2>1, ProduceTypes DEF PWorking
  <2>3. Waits' = Waits
    BY <1>0, <1>5, <1>8, TakesNone DEF PMove, PWorking
  <2> QED BY <1>7, <2>1, <2>2, <2>3
<1>9. CASE /\ PMove(p, "write", "advance") /\ UNCHANGED pops
           /\ objs' = [objs EXCEPT ![m].buf[objs[m].write_index] = <<p, pops[p]>>,
                                   ![m].stored = Append(@, <<p, pops[p]>>)]
  <2> DEFINE v == [objs[m] EXCEPT !.buf[objs[m].write_index] = <<p, pops[p]>>]
             s == [objs EXCEPT ![m] = v]
             v2 == [s[m] EXCEPT !.stored = Append(@, <<p, pops[p]>>)]
  <2>0. objs' = [s EXCEPT ![m] = v2]
    BY <1>9
  <2>1. Changed(objs, objs', m) /\ m # e
    <3> HIDE DEF v, v2
    <3>1. Changed(objs, s, m)
      BY <1>4, ChangedByExcept
    <3> HIDE DEF s
    <3>2. Len(s) \in Nat /\ s = [i \in 1 .. Len(s) |-> s[i]]
      BY <1>4, <3>1 DEF Changed
    <3> HIDE DEF m
    <3>3. Changed(s, objs', m)
      BY <2>0, <3>2, ChangedByExcept
    <3>4. Changed(objs, objs', m)
      BY <3>1, <3>3 DEF Changed
    <3> QED BY <1>2, <1>3, <3>4 DEF m
  <2>2. TypeOK' /\ Working'
    BY <1>0, <1>1, <1>9, <2>1, ProduceTypes DEF PWorking
  <2>3. Waits' = Waits
    BY <1>0, <1>5, <1>9, TakesNone DEF PMove, PWorking
  <2> QED BY <1>7, <2>1, <2>2, <2>3
<1>10. CASE /\ PMove(p, "advance", "post_cs") /\ UNCHANGED pops
            /\ objs' = [objs EXCEPT ![m].write_index = Wrapped(@)]
  <2> DEFINE v == [objs[m] EXCEPT !.write_index = Wrapped(@)]
  <2>0. objs' = [objs EXCEPT ![m] = v]
    BY <1>10
  <2>1. Changed(objs, objs', m) /\ m # e
    <3> HIDE DEF v
    <3>1. Changed(objs, objs', m)
      BY <1>4, <2>0, ChangedByExcept
    <3> QED BY <1>2, <1>3, <3>1
  <2>2. TypeOK' /\ Working'
    BY <1>0, <1>1, <1>10, <2>1, ProduceTypes DEF PWorking
  <2>3. Waits' = Waits
    BY <1>0, <1>5, <1>10, TakesNone DEF PMove, PWorking
  <2> QED BY <1>7, <2>1, <2>2, <2>3
<1>11. CASE PMove(p, "post_cs", "post_filled") /\ SemPost(phandle["cs_prod"]) /\ UNCHANGED pops
  <2> DEFINE o == phandle["cs_prod"]
  <2>1. Changed(objs, objs', o) /\ o # e
    BY <1>0, <1>2, <1>3, <1>11, SemStep
  <2>2. TypeOK' /\ Working'
    BY <1>0, <1>1, <1>11, <2>1, ProduceTypes DEF PWorking
  <2>3. Waits' = Waits
    BY <1>0, <1>5, <1>11, TakesNone DEF PMove, PWorking
  <2> QED BY <1>7, <2>1, <2>2, <2>3
<1>12. CASE /\ PMove(p, "post_filled", IF pops[p] > 1 THEN "wait_empty" ELSE "exit")
            /\ SemPost(phandle["filled"]) /\ pops' = [pops EXCEPT ![p] = @ - 1]
  <2> DEFINE o == phandle["filled"]
             to == IF pops[p] > 1 THEN "wait_empty" ELSE "exit"
  <2>1. Changed(objs, objs', o) /\ o # e
    BY <1>0, <1>2, <1>3, <1>12, SemStep
  <2>2. TypeOK' /\ Working'
    BY <1>0, <1>1, <1>12, <2>1, ProduceTypes DEF PWorking
  <2>3. to \in {"wait_empty", "exit"} /\ ppc[p] = "post_filled" /\ ppc' = [ppc EXCEPT ![p] = to]
        /\ pops' = [pops EXCEPT ![p] = @ - 1] /\ UNCHANGED plan
    BY <1>5, <1>12 DEF PMove
  <2> HIDE DEF to
  <2>4. Waits' = Waits
    BY <1>0, <2>3, TakesNone DEF PWorking
  <2> QED BY <1>7, <2>1, <2>2, <2>4
<1> QED BY <1>6, <1>8, <1>9, <1>10, <1>11, <1>12 DEF ProduceChild

\* Types and positions after the step of a child of the consumer.
LEMMA ConsumeTypes ==
    ASSUME TypeOK, Working, Still, NEW c \in Consumers, NEW from \in CWorking, NEW to,
           CMove(c, from, to), NEW o, Changed(objs, objs', o),
           \/ to \in CWorking /\ UNCHANGED cops
           \/ /\ from = "post_empty" /\ cops' = [cops EXCEPT ![c] = @ - 1]
              /\ to = IF cops[c] > 1 THEN "wait_filled" ELSE "exit"
    PROVE  TypeOK' /\ Working'
<1>1. cmain = "run" /\ c \in plan.consumers
  BY DEF Working, CMove
<1>2. to \in CWorking \cup {"exit"} /\ cpc' = [cpc EXCEPT ![c] = to]
  BY DEF CMove, CWorking
<1>3. cops' \in [Consumers -> Int]
  BY DEF TypeOK
<1>4. UNCHANGED <<plan, pmain, pstep, cmain, cstep, ppc, pops, names, phandle, chandle,
                  pruns, cruns, kills>>
  BY DEF Still, counts, CMove, pvars
<1>5. TypeOK'
  <2>1. Len(objs') \in Nat /\ Len(objs') = Len(objs)
        /\ objs' = [i \in 1 .. Len(objs') |-> objs'[i]]
    BY DEF TypeOK, Changed
  <2>2. cpc' \in [Consumers -> CWorking \cup {"none", "exit"}]
    BY <1>2 DEF TypeOK
  <2> QED BY <1>3, <1>4, <2>1, <2>2 DEF TypeOK
<1>6. Working'
  <2>1. OPS_PER_PRODUCER' = OPS_PER_PRODUCER
    BY <1>4 DEF OPS_PER_PRODUCER
  <2>2. \A d \in Consumers \ {c} : cpc'[d] = cpc[d]
    BY <1>2 DEF TypeOK
  <2> QED BY <1>1, <1>4, <2>1, <2>2 DEF Working
<1> QED BY <1>5, <1>6

\* A step of a child of the consumer keeps the invariant.
LEMMA ConsumeKeeps ==
    ASSUME IInv, NEW c \in Consumers, ConsumeChild(c)
    PROVE  IInv'
<1>0. TypeOK /\ Working /\ Apart /\ Made
  BY DEF IInv
<1> DEFINE e == phandle["empty"]
           m == chandle["mem"]
<1>1. Still /\ cmain = "run" /\ cpc[c] \in CWorking /\ UNCHANGED pvars
  BY <1>0 DEF ConsumeChild, CMove, Still, pvars, CWorking, Working
<1>2. e # 0 => /\ e \in 1 .. Len(objs) /\ objs[e] \in [value : Nat]
               /\ \A nm \in Names \ {"empty"} : chandle[nm] # e
  BY <1>0, Handles
<1>3. "cs_cons" \in Names \ {"empty"} /\ "filled" \in Names \ {"empty"} /\ "mem" \in Names \ {"empty"}
  BY DEF Names
<1>4. Len(objs) \in Nat /\ objs = [i \in 1 .. Len(objs) |-> objs[i]]
  BY <1>0 DEF TypeOK
<1>5. UNCHANGED <<names, pmain, pstep, phandle, cmain, cstep, chandle, plan, ppc, pops>>
  BY <1>1 DEF Still, counts, pvars
<1>6. Waits' = Waits
  BY <1>5 DEF Waits, OPS_PER_PRODUCER
<1>7. ASSUME NEW o, Changed(objs, objs', o), TypeOK', Working',
             e # 0 => objs'[e] \in [value : Nat],
             o # e \/ Opened \/ e = 0
      PROVE  IInv'
  <2>1. e # 0 /\ ~Opened => objs'[e] = objs[e]
    BY <1>2, <1>7 DEF Changed
  <2>2. pmain = "setup" /\ pstep > 6 => e # 0
    BY <1>0 DEF Made, SetUp
  <2>3. pmain = "run" => e # 0
    BY <1>0 DEF Made, SetUp
  <2>4. ASSUME plan.kills = 0 PROVE Unposted'
    <3>1. Unposted
      BY <2>4 DEF IInv, InStep
    <3> QED BY <1>5, <1>6, <2>1, <2>3, <3>1 DEF Unposted, Opened
  <2> QED BY <1>1, <1>7, <2>1, <2>2, <2>4, ChildStep
<1>8. ASSUME NEW o, o # e \/ e = 0, Changed(objs, objs', o), TypeOK', Working'
      PROVE  IInv'
  <2>1. e # 0 => objs'[e] = objs[e] /\ objs[e] \in [value : Nat]
    BY <1>2, <1>8 DEF Changed
  <2> QED BY <1>7, <1>8, <2>1
<1>9. CASE CMove(c, "wait_filled", "wait_cs") /\ SemWait(chandle["filled"]) /\ UNCHANGED cops
  <2> DEFINE o == chandle["filled"]
  <2>1. Changed(objs, objs', o) /\ (o # e \/ e = 0)
    BY <1>0, <1>2, <1>3, <1>9, SemStep
  <2>2. TypeOK' /\ Working'
    BY <1>0, <1>1, <1>9, <2>1, ConsumeTypes DEF CWorking
  <2> QED BY <1>8, <2>1, <2>2
<1>10. CASE CMove(c, "wait_cs", "read") /\ SemWait(chandle["cs_cons"]) /\ UNCHANGED cops
  <2> DEFINE o == chandle["cs_cons"]
  <2>1. Changed(objs, objs', o) /\ (o # e \/ e = 0)
    BY <1>0, <1>2, <1>3, <1>10, SemStep
  <2>2. TypeOK' /\ Working'
    BY <1>0, <1>1, <1>10, <2>1, ConsumeTypes DEF CWorking
  <2> QED BY <1>8, <2>1, <2>2
<1>11. CASE /\ CMove(c, "read", "advance") /\ UNCHANGED cops
            /\ objs' = [objs EXCEPT ![m].taken = Append(@, objs[m].buf[objs[m].read_index])]
  <2> DEFINE v == [objs[m] EXCEPT !.taken = Append(@, objs[m].buf[objs[m].read_index])]
  <2>0. objs' = [objs EXCEPT ![m] = v]
    BY <1>11
  <2>1. Changed(objs, objs', m) /\ (m # e \/ e = 0)
    <3> HIDE DEF v
    <3>1. Changed(objs, objs', m)
      BY <1>4, <2>0, ChangedByExcept
    <3> QED BY <1>2, <1>3, <3>1
  <2>2. TypeOK' /\ Working'
    BY <1>0, <1>1, <1>11, <2>1, ConsumeTypes DEF CWorking
  <2> QED BY <1>8, <2>1, <2>2
<1>12. CASE /\ CMove(c, "advance", "post_cs") /\ UNCHANGED cops
            /\ objs' = [objs EXCEPT ![m].read_index = Wrapped(@)]
  <2> DEFINE v == [objs[m] EXCEPT !.read_index = Wrapped(@)]
  <2>0. objs' = [objs EXCEPT ![m] = v]
    BY <1>12
  <2>1. Changed(objs, objs', m) /\ (m # e \/ e = 0)
    <3> HIDE DEF v
    <3>1. Changed(objs, objs', m)
      BY <1>4, <2>0, ChangedByExcept
    <3> QED BY <1>2, <1>3, <3>1
  <2>2. TypeOK' /\ Working'
    BY <1>0, <1>1, <1>12, <2>1, ConsumeTypes DEF CWorking
  <2> QED BY <1>8, <2>1, <2>2
<1>13. CASE CMove(c, "post_cs", "post_empty") /\ SemPost(chandle["cs_cons"]) /\ UNCHANGED cops
  <2> DEFINE o == chandle["cs_cons"]
  <2>1. Changed(objs, objs', o) /\ (o # e \/ e = 0)
    BY <1>0, <1>2, <1>3, <1>13, SemStep
  <2>2. TypeOK' /\ Working'
    BY <1>0, <1>1, <1>13, <2>1, ConsumeTypes DEF CWorking
  <2> QED BY <1>8, <2>1, <2>2
<1>14. CASE /\ CMove(c, "post_empty", IF cops[c] > 1 THEN "wait_filled" ELSE "exit")
            /\ SemPost(chandle["empty"]) /\ cops' = [cops EXCEPT ![c] = @ - 1]
  <2> DEFINE o == chandle["empty"]
  <2>1. /\ Changed(objs, objs', o)
        /\ o \in 1 .. Len(objs) /\ objs[o] \in [value : Nat] => objs'[o] \in [value : Nat]
    BY <1>0, <1>14, SemStep
  <2>2. TypeOK' /\ Working'
    BY <1>0, <1>1, <1>14, <2>1, ConsumeTypes DEF CWorking
  <2>3. o # e \/ Opened
    BY <1>1 DEF Opened
  <2>4. e # 0 => objs'[e] \in [value : Nat]
    BY <1>2, <2>1 DEF Changed
  <2> QED BY <1>7, <2>1, <2>2, <2>3, <2>4
<1> QED BY <1>9, <1>10, <1>11, <1>12, <1>13, <1>14 DEF ConsumeChild

-----------------------------------------------------------------------------
(* The main processes: launched, joining, killed. *)

\* A kill ends what nothing is claimed of without kills.
LEMMA KillsKeep ==
    ASSUME IInv, KillProducer \/ KillConsumer
    PROVE  IInv'
<1>0. TypeOK /\ Working /\ Apart /\ Made /\ plan.kills \in Nat
  BY Parameters DEF IInv, TypeOK
<1>1. plan.kills # 0 /\ UNCHANGED plan /\ kills' \in 0 .. plan.kills
  BY <1>0 DEF KillProducer, KillConsumer, MayKill, TypeOK
<1>2. CASE KillProducer
  <2>1. TypeOK'
    BY <1>0, <1>1, <1>2 DEF TypeOK, KillProducer, Ended, cvars
  <2>2. Working'
    BY <1>0, <1>1, <1>2 DEF Working, KillProducer, cvars, PWorking, TypeOK
  <2>3. Apart' /\ Made'
    BY <1>0, <1>2 DEF Apart, Empties, Made, SetUp, KillProducer, cvars
  <2> QED BY <1>1, <2>1, <2>2, <2>3 DEF IInv
<1>3. CASE KillConsumer
  <2>1. TypeOK'
    BY <1>0, <1>1, <1>3 DEF TypeOK, KillConsumer, Ended, pvars
  <2>2. Working'
    BY <1>0, <1>1, <1>3 DEF Working, KillConsumer, pvars, CWorking, TypeOK, OPS_PER_PRODUCER
  <2>3. Apart' /\ Made'
    BY <1>0, <1>3 DEF Apart, Empties, Made, SetUp, KillConsumer, pvars
  <2> QED BY <1>1, <2>1, <2>2, <2>3 DEF IInv
<1> QED BY <1>2, <1>3

\* A producer is launched when the one before has ended and removed the memory.
LEMMA LaunchProducerKeeps ==
    ASSUME IInv, LaunchProducer
    PROVE  IInv'
<1>0. TypeOK /\ Working /\ Apart /\ Made
  BY DEF IInv
<1>1. /\ pmain \in {"idle", "done", "failed", "killed"} /\ pmain' = "setup" /\ pstep' = 1
      /\ pruns' = pruns + 1
      /\ UNCHANGED <<names, objs, phandle, ppc, pops, cmain, cstep, chandle, cpc, cops,
                     cruns, kills, plan>>
  BY DEF LaunchProducer, cvars
<1>2. TypeOK'
  BY <1>0, <1>1 DEF TypeOK
<1>3. Working'
  BY <1>0, <1>1 DEF Working, OPS_PER_PRODUCER
<1>4. Apart' /\ Made'
  BY <1>0, <1>1 DEF Apart, Empties, Made, SetUp
<1>5. ASSUME plan.kills = 0 PROVE (Unkilled /\ InStep)'
  <2>1. Unkilled /\ InStep
    BY <1>5 DEF IInv
  <2>2. Unkilled' /\ Setting'
    BY <1>1, <2>1 DEF InStep, Unkilled, Setting
  <2>3. Filled' /\ Connecting' /\ Destroying' /\ Unposted' /\ Same'
    BY <1>1, <2>1 DEF InStep, Filled, Connecting, Destroying, Unposted, Same, SetUp, Opened
  <2> QED BY <2>2, <2>3 DEF InStep
<1> QED BY <1>1, <1>2, <1>3, <1>4, <1>5 DEF IInv

LEMMA LaunchConsumerKeeps ==
    ASSUME IInv, LaunchConsumer
    PROVE  IInv'
<1>0. TypeOK /\ Working /\ Apart /\ Made
  BY DEF IInv
<1>1. /\ cmain \in {"idle", "done", "failed", "killed"} /\ cmain' = "connect" /\ cstep' = 1
      /\ cruns' = cruns + 1 /\ chandle' = [nm \in Names |-> 0]
      /\ UNCHANGED <<names, objs, pmain, pstep, phandle, ppc, pops, cpc, cops,
                     pruns, kills, plan>>
  BY DEF LaunchConsumer, pvars
<1>2. TypeOK'
  BY <1>0, <1>1 DEF TypeOK
<1>3. Working'
  BY <1>0, <1>1 DEF Working, OPS_PER_PRODUCER
<1>4. Apart' /\ Made'
  BY <1>0, <1>1 DEF Apart, Empties, Made, SetUp, Names
<1>5. ASSUME plan.kills = 0 PROVE (Unkilled /\ InStep)'
  <2>1. Unkilled /\ InStep
    BY <1>5 DEF IInv
  <2>2. Unkilled' /\ Setting'
    BY <1>1, <2>1 DEF InStep, Unkilled, Setting, Opened
  <2>3. Filled' /\ Connecting' /\ Destroying' /\ Same'
    BY <1>1, <2>1 DEF InStep, Filled, Connecting, Destroying, Same, SetUp, Opened
  <2>4. Unposted'
    <3>1. Waits' = Waits
      BY <1>1 DEF Waits, OPS_PER_PRODUCER
    <3> QED BY <1>1, <2>1, <3>1 DEF InStep, Unposted, Opened
  <2> QED BY <2>2, <2>3, <2>4 DEF InStep
<1> QED BY <1>1, <1>2, <1>3, <1>4, <1>5 DEF IInv

\* The producers' main process has joined them only if some consumer gives
\* their slots back: alone, they would need more than there are.
LEMMA JoinProducersKeeps ==
    ASSUME IInv, JoinProducers
    PROVE  IInv'
<1>0. TypeOK /\ Working /\ Apart /\ Made
  BY DEF IInv
<1>1. /\ pmain = "run" /\ pmain' = "destroy" /\ \A p \in plan.producers : ppc[p] = "exit"
      /\ UNCHANGED <<names, objs, pstep, phandle, ppc, pops, cmain, cstep, chandle, cpc, cops,
                     pruns, cruns, kills, plan>>
  BY DEF JoinProducers, cvars, counts
<1>2. TypeOK'
  BY <1>0, <1>1 DEF TypeOK
<1>3. Working'
  <2>1. \A p \in Producers : ppc[p] \notin PWorking
    BY <1>0, <1>1 DEF Working, PWorking
  <2> QED BY <1>0, <1>1, <2>1 DEF Working, OPS_PER_PRODUCER
<1>4. Apart' /\ Made'
  BY <1>0, <1>1 DEF Apart, Empties, Made, SetUp
<1>5. ASSUME plan.kills = 0 PROVE (Unkilled /\ InStep)'
  <2>1. Unkilled /\ InStep
    BY <1>5 DEF IInv
  <2>2. Cardinality(Waits) > BUFFER_SIZE /\ Cardinality(Waits) \in Nat /\ BUFFER_SIZE \in Nat
    BY <1>0, <1>1, AllTaken, WaitsFinite, Parameters DEF TypeOK
  <2>3. objs[phandle["empty"]].value \in Nat
    BY <1>0, <1>1 DEF Made, SetUp
  <2>4. objs[phandle["empty"]].value + Cardinality(Waits) # BUFFER_SIZE
    BY <2>2, <2>3
  <2>5. names["filled"] = phandle["filled"] => Opened
    BY <1>1, <2>1, <2>4 DEF InStep, Unposted
  <2>6. ~(cmain = "connect" /\ cstep > 1)
    BY <1>1, <2>1, <2>4 DEF InStep, Unposted, Opened
  <2>7. phandle["filled"] # 0
    BY <1>0, <1>1 DEF Made, SetUp
  <2>8. Filled'
    <3>1. ASSUME names["filled"] # 0, cmain = "destroy" PROVE cstep = 1
      <4>1. names["filled"] = phandle["filled"] /\ Opened
        BY <2>1, <2>5, <3>1 DEF InStep, Filled
      <4>2. ~(cstep > 1)
        BY <1>1, <2>1, <3>1, <4>1 DEF InStep, Destroying, Opened
      <4>3. cstep \in 1 .. 4
        BY <1>0 DEF TypeOK
      <4> QED BY <4>2, <4>3
    <3> QED BY <1>1, <2>1, <2>5, <3>1 DEF InStep, Filled, SetUp, Opened
  <2>9. Connecting'
    <3>1. cstep \in 1 .. 4
      BY <1>0 DEF TypeOK
    <3> QED BY <1>1, <2>6, <3>1 DEF Connecting
  <2>10. Unkilled' /\ Setting' /\ Destroying' /\ Unposted' /\ Same'
    BY <1>1, <2>1 DEF InStep, Unkilled, Setting, Destroying, Unposted, Same
  <2> QED BY <2>1, <2>8, <2>9, <2>10 DEF InStep
<1> QED BY <1>1, <1>2, <1>3, <1>4, <1>5 DEF IInv

LEMMA JoinConsumersKeeps ==
    ASSUME IInv, JoinConsumers
    PROVE  IInv'
<1>0. TypeOK /\ Working /\ Apart /\ Made
  BY DEF IInv
<1>1. /\ cmain = "run" /\ cmain' = "destroy" /\ \A c \in plan.consumers : cpc[c] = "exit"
      /\ UNCHANGED <<names, objs, cstep, chandle, cpc, cops, pmain, pstep, phandle, ppc, pops,
                     pruns, cruns, kills, plan>>
  BY DEF JoinConsumers, pvars, counts
<1>2. TypeOK'
  BY <1>0, <1>1 DEF TypeOK
<1>3. Working'
  <2>1. \A c \in Consumers : cpc[c] \notin CWorking
    BY <1>0, <1>1 DEF Working, CWorking
  <2> QED BY <1>0, <1>1, <2>1 DEF Working, OPS_PER_PRODUCER
<1>4. Apart' /\ Made'
  BY <1>0, <1>1 DEF Apart, Empties, Made, SetUp
<1>5. ASSUME plan.kills = 0 PROVE (Unkilled /\ InStep)'
  <2>1. Unkilled /\ InStep /\ cstep = 1
    BY <1>0, <1>1, <1>5 DEF IInv, Working
  <2>2. Unkilled' /\ Setting' /\ Filled' /\ Connecting'
    BY <1>1, <2>1 DEF InStep, Unkilled, Setting, Filled, Connecting, SetUp, Opened
  <2>3. Waits' = Waits
    BY <1>1 DEF Waits, OPS_PER_PRODUCER
  <2>4. Destroying' /\ Unposted' /\ Same'
    BY <1>1, <2>1, <2>3 DEF InStep, Destroying, Unposted, Same, Opened
  <2> QED BY <2>2, <2>4 DEF InStep
<1> QED BY <1>1, <1>2, <1>3, <1>4, <1>5 DEF IInv

-----------------------------------------------------------------------------
(* The calls on the names. *)

\* The producer removes the memory.
LEMMA PDestroyKeeps ==
    ASSUME IInv, PDestroyStep
    PROVE  IInv'
<1>0. TypeOK /\ Working /\ Apart /\ Made
  BY DEF IInv
<1>1. /\ pmain = "destroy" /\ pmain' = "done" /\ names' = [names EXCEPT !["mem"] = 0]
      /\ UNCHANGED <<objs, pstep, phandle, ppc, pops, cmain, cstep, chandle, cpc, cops,
                     pruns, cruns, kills, plan>>
  BY DEF PDestroyStep, PDestroy, Perform, cvars, counts
<1>2. TypeOK'
  <2>1. names \in [Names -> 0 .. Len(objs)] /\ Len(objs) \in Nat
    BY <1>0 DEF TypeOK
  <2>2. names' = [names EXCEPT !["mem"] = 0] /\ 0 \in 0 .. Len(objs)
    BY <1>1, <2>1
  <2>3. names' \in [Names -> 0 .. Len(objs)]
    BY <2>1, <2>2
  <2> QED BY <1>0, <1>1, <2>3 DEF TypeOK, Ended
<1>3. Working'
  BY <1>0, <1>1 DEF Working, OPS_PER_PRODUCER
<1>4. Apart' /\ Made'
  BY <1>0, <1>1 DEF Apart, Empties, Made, SetUp, TypeOK, Names
<1>5. ASSUME plan.kills = 0 PROVE (Unkilled /\ InStep)'
  <2>1. Unkilled /\ InStep
    BY <1>5 DEF IInv
  <2>2. \A nm \in Names : names'[nm] = IF nm = "mem" THEN 0 ELSE names[nm]
    BY <1>0, <1>1 DEF TypeOK
  <2>3. Unkilled' /\ Setting'
    BY <1>1, <2>1, <2>2 DEF InStep, Unkilled, Setting, Opened, Names
  <2>4. Filled' /\ Connecting' /\ Destroying' /\ Unposted' /\ Same'
    BY <1>1, <2>1, <2>2 DEF InStep, Filled, Connecting, Destroying, Unposted, Same, SetUp,
                            Opened, Names
  <2> QED BY <2>3, <2>4 DEF InStep
<1> QED BY <1>1, <1>2, <1>3, <1>4, <1>5 DEF IInv

\* A call of the consumer's end: it removes its name or fails.
LEMMA CDestroyKeeps ==
    ASSUME IInv, CDestroyStep
    PROVE  IInv'
<1>0. TypeOK /\ Working /\ Apart /\ Made /\ cstep \in 1 .. 4
  BY DEF IInv, TypeOK
<1> DEFINE nm == IF cstep = 1 THEN "filled" ELSE IF cstep = 2 THEN "empty"
                 ELSE IF cstep = 3 THEN "cs_prod" ELSE "cs_cons"
<1>1. CDestroy[cstep] = <<"remove", nm>> /\ Len(CDestroy) = 4 /\ nm \in Names
  BY <1>0 DEF CDestroy, Names
<1>2. /\ cmain = "destroy"
      /\ UNCHANGED <<chandle, cpc, cops, pmain, pstep, phandle, ppc, pops,
                     pruns, cruns, kills, plan>>
  BY DEF CDestroyStep, pvars, counts
<1>3. \/ /\ names[nm] # 0 /\ names' = [names EXCEPT ![nm] = 0] /\ UNCHANGED objs
         /\ \/ cstep = 4 /\ cmain' = "done" /\ cstep' = 1
            \/ cstep # 4 /\ cmain' = "destroy" /\ cstep' = cstep + 1
      \/ names[nm] = 0 /\ cmain' = "failed" /\ UNCHANGED <<names, objs, cstep>>
  BY <1>1 DEF CDestroyStep, Succeeds, Perform
<1>4. /\ UNCHANGED objs /\ cstep' \in 1 .. 4 /\ cmain' \in {"done", "destroy", "failed"}
      /\ \A n \in Names : names'[n] = names[n] \/ (names'[n] = 0 /\ n = nm)
      /\ names' \in [Names -> 0 .. Len(objs)]
  <2>1. names \in [Names -> 0 .. Len(objs)] /\ Len(objs) \in Nat
    BY <1>0 DEF TypeOK
  <2> HIDE DEF nm
  <2>2. \A n \in Names : names'[n] = names[n] \/ (names'[n] = 0 /\ n = nm)
    BY <1>3, <2>1
  <2>3. names' \in [Names -> 0 .. Len(objs)]
    BY <1>3, <2>1
  <2>4. UNCHANGED objs /\ cstep' \in 1 .. 4 /\ cmain' \in {"done", "destroy", "failed"}
    BY <1>0, <1>3
  <2> QED BY <2>2, <2>3, <2>4
<1>5. TypeOK'
  BY <1>0, <1>2, <1>4 DEF TypeOK, Ended
<1>6. Working'
  BY <1>0, <1>2, <1>4 DEF Working, OPS_PER_PRODUCER
<1>7. Apart' /\ Made'
  BY <1>0, <1>2, <1>4 DEF Apart, Empties, Made, SetUp, Names
<1>8. ASSUME plan.kills = 0 PROVE (Unkilled /\ InStep)'
  <2>1. Unkilled /\ InStep
    BY <1>8 DEF IInv
  <2>2. Unkilled' /\ Setting'
    BY <1>2, <1>4, <2>1 DEF InStep, Unkilled, Setting, Opened, Names
  <2>3. Connecting' /\ Same'
    BY <1>2, <1>4, <2>1 DEF InStep, Connecting, Same
  <2>4. cstep = 1 => names'["filled"] = 0
    BY <1>0, <1>3, <1>4 DEF TypeOK, Names
  <2>5. names'["filled"] # 0 => names'["filled"] = names["filled"] /\ cstep # 1
    BY <1>4, <2>4 DEF Names
  <2>6. Filled'
    BY <1>2, <2>1, <2>5 DEF InStep, Filled, SetUp, Opened
  <2>7. pmain = "run" => phandle["filled"] # 0
    BY <1>0 DEF Made, SetUp
  <2>8. Destroying'
    BY <1>0, <1>2, <1>4, <2>1, <2>5, <2>7 DEF InStep, Destroying
  <2>9. Unposted'
    <3>1. Waits' = Waits
      BY <1>2 DEF Waits, OPS_PER_PRODUCER
    <3>2. ASSUME pmain = "run", ~Opened', names'["filled"] = phandle["filled"]
          PROVE  ~Opened /\ names["filled"] = phandle["filled"]
      <4>1. names["filled"] = phandle["filled"] /\ cstep # 1
        BY <2>5, <2>7, <3>2
      <4> QED BY <1>0, <1>2, <2>1, <3>2, <4>1 DEF InStep, Destroying, Opened
    <3> QED BY <1>2, <1>4, <2>1, <3>1, <3>2 DEF InStep, Unposted
  <2> QED BY <2>1, <2>2, <2>3, <2>6, <2>8, <2>9 DEF InStep
<1> QED BY <1>2, <1>5, <1>6, <1>7, <1>8 DEF IInv

\* The consumer finds the name filled: it is the producer's, who still runs.
LEMMA ConnectOpenKeeps ==
    ASSUME IInv, cmain = "connect", cstep \in {1, 2, 4},
           NEW nm, nm = IF cstep = 1 THEN "filled" ELSE IF cstep = 2 THEN "empty" ELSE "mem",
           names[nm] # 0, chandle' = [chandle EXCEPT ![nm] = names[nm]],
           \/ cstep # 4 /\ cmain' = "connect" /\ cstep' = cstep + 1 /\ UNCHANGED <<cpc, cops>>
           \/ /\ cstep = 4 /\ cmain' = "run" /\ cstep' = 1
              /\ cpc' = Forked(Consumers, plan.consumers, "wait_filled")
              /\ cops' = [c \in Consumers |-> OPS_PER_CONSUMER],
           OPS_PER_CONSUMER \in Int,
           UNCHANGED <<names, objs, pmain, pstep, phandle, ppc, pops, counts>>
    PROVE  IInv'
<1>0. TypeOK /\ Working /\ Apart /\ Made
  BY DEF IInv
<1>1. /\ UNCHANGED <<names, objs, pmain, pstep, phandle, ppc, pops, pruns, cruns, kills, plan>>
      /\ nm \in Names
  BY DEF counts, Names
<1>2. /\ chandle' \in [Names -> 0 .. Len(objs)]
      /\ \A n \in Names : chandle'[n] = IF n = nm THEN names[n] ELSE chandle[n]
  <2>1. /\ chandle \in [Names -> 0 .. Len(objs)] /\ names \in [Names -> 0 .. Len(objs)]
    BY <1>0 DEF TypeOK
  <2> QED BY <1>1, <2>1
<1>3. cpc' \in [Consumers -> CWorking \cup {"none", "exit"}] /\ cops' \in [Consumers -> Int]
  BY <1>0 DEF TypeOK, Forked, CWorking
<1>4. TypeOK'
  BY <1>0, <1>1, <1>2, <1>3 DEF TypeOK
<1>5. Working'
  <2>1. \A c \in Consumers : cpc'[c] \in CWorking => cmain' = "run" /\ c \in plan.consumers
    BY <1>0 DEF Working, Forked, CWorking
  <2> QED BY <1>0, <1>1, <2>1 DEF Working, OPS_PER_PRODUCER
<1>6. Apart' /\ Made'
  <2>1. Made'
    BY <1>0, <1>1 DEF Made, SetUp
  <2>2. "empty" \in Names
    BY DEF Names
  <2>3. Empties' \subseteq Empties
    BY <1>1, <1>2, <2>2 DEF Empties
  <2>4. \A n \in Names : chandle'[n] = chandle[n] \/ chandle'[n] = names[n]
    BY <1>2
  <2>5. Apart'
    BY <1>0, <1>1, <2>3, <2>4 DEF Apart
  <2> QED BY <2>1, <2>5
<1>7. ASSUME plan.kills = 0 PROVE (Unkilled /\ InStep)'
  <2>1. Unkilled /\ Setting /\ Filled /\ Connecting /\ Unposted
    BY <1>7 DEF IInv, InStep
  <2>2. pstep \in 1 .. 8 /\ cstep \in 1 .. 4 /\ "filled" \in Names /\ "empty" \in Names
        /\ "mem" \in Names
    BY <1>0 DEF TypeOK, Names
  <2>3. cstep = 1 => SetUp(5) /\ names["filled"] = phandle["filled"]
    BY <2>1 DEF Filled, Opened
  <2>4. cstep > 1 => SetUp(5) /\ chandle["filled"] = phandle["filled"]
    BY <2>1 DEF Connecting
  <2>5. cstep = 2 => SetUp(6) /\ names["empty"] = phandle["empty"]
    BY <2>1, <2>2, <2>4 DEF Setting, SetUp
  <2>6. cstep = 4 => /\ pmain \in {"run", "destroy"} /\ SetUp(6)
                     /\ chandle["empty"] = phandle["empty"]
    BY <2>1 DEF Setting, Connecting
  <2>7. cstep = 4 => /\ chandle'["empty"] = phandle["empty"]
                     /\ chandle'["filled"] = phandle["filled"]
    BY <1>2, <2>2, <2>4, <2>6
  <2>8. Unkilled' /\ Setting' /\ Filled'
    <3>1. pmain = "setup" => ~Opened'
      BY <2>6 DEF Opened
    <3>2. Setting'
      BY <1>1, <2>1, <3>1 DEF Setting
    <3>3. Filled'
      BY <1>1, <2>1, <2>7 DEF Filled, SetUp, Opened
    <3> QED BY <1>1, <2>1, <3>2, <3>3 DEF Unkilled
  <2>9. Connecting'
    BY <1>1, <1>2, <2>2, <2>3, <2>4, <2>5 DEF Connecting, SetUp
  <2>10. Destroying'
    BY DEF Destroying
  <2>11. Unposted'
    <3>1. Waits' = Waits
      BY <1>1 DEF Waits, OPS_PER_PRODUCER
    <3>2. cstep = 4 => Opened'
      BY <1>1, <2>7 DEF Opened
    <3>3. cstep # 4 => ~Opened
      BY DEF Opened
    <3> QED BY <1>1, <2>1, <2>3, <3>1, <3>2, <3>3 DEF Unposted
  <2>12. Same'
    BY <1>1, <2>7 DEF Same
  <2> QED BY <2>8, <2>9, <2>10, <2>11, <2>12 DEF InStep
<1> QED BY <1>1, <1>4, <1>5, <1>6, <1>7 DEF IInv

\* It creates its own mutex.
LEMMA ConnectCreateKeeps ==
    ASSUME IInv, cmain = "connect", cstep = 3, cmain' = "connect", cstep' = 4,
           NEW fresh, names' = [names EXCEPT !["cs_cons"] = Len(objs) + 1],
           objs' = Append(objs, fresh), chandle' = [chandle EXCEPT !["cs_cons"] = Len(objs) + 1],
           UNCHANGED <<pmain, pstep, phandle, ppc, pops, cpc, cops, counts>>
    PROVE  IInv'
<1>0. TypeOK /\ Working /\ Apart /\ Made
  BY DEF IInv
<1>1. UNCHANGED <<pmain, pstep, phandle, ppc, pops, cpc, cops, pruns, cruns, kills, plan>>
  BY DEF counts
<1> DEFINE n == Len(objs)
<1>2. /\ n \in Nat /\ objs = [i \in 1 .. n |-> objs[i]]
      /\ names \in [Names -> 0 .. n] /\ phandle \in [Names -> 0 .. n]
      /\ chandle \in [Names -> 0 .. n]
  BY <1>0 DEF TypeOK
<1>3. /\ Len(objs') = n + 1 /\ objs' = [i \in 1 .. Len(objs') |-> objs'[i]]
      /\ \A i \in 1 .. n : objs'[i] = objs[i]
  BY <1>2, Created
<1> HIDE DEF n
<1>4. /\ names' \in [Names -> 0 .. n + 1] /\ chandle' \in [Names -> 0 .. n + 1]
      /\ phandle' \in [Names -> 0 .. n + 1]
  <2>1. /\ names' = [names EXCEPT !["cs_cons"] = n + 1] /\ phandle' = phandle
        /\ chandle' = [chandle EXCEPT !["cs_cons"] = n + 1]
    BY <1>1 DEF n
  <2>2. /\ names \in [Names -> 0 .. n + 1] /\ phandle \in [Names -> 0 .. n + 1]
        /\ chandle \in [Names -> 0 .. n + 1] /\ n + 1 \in 0 .. n + 1
    BY <1>2
  <2>3. names' \in [Names -> 0 .. n + 1]
    BY <2>1, <2>2
  <2>4. chandle' \in [Names -> 0 .. n + 1]
    BY <2>1, <2>2
  <2> QED BY <2>1, <2>2, <2>3, <2>4
<1>5. \A nm \in Names \ {"cs_cons"} : names'[nm] = names[nm] /\ chandle'[nm] = chandle[nm]
  BY <1>2
<1>6. "cs_cons" \in Names /\ names'["cs_cons"] = n + 1 /\ chandle'["cs_cons"] = n + 1
  BY <1>2 DEF Names, n
<1>7. TypeOK'
  <2>1. Len(objs') \in Nat
    BY <1>2, <1>3
  <2> QED BY <1>0, <1>1, <1>3, <1>4, <2>1 DEF TypeOK
<1>8. Working'
  BY <1>0, <1>1 DEF Working, OPS_PER_PRODUCER
<1>9. {"filled", "empty", "mem", "cs_prod"} \subseteq Names \ {"cs_cons"}
  BY DEF Names
<1>10. Made'
  BY <1>0, <1>1, <1>2, <1>3, <1>9 DEF Made, SetUp
<1>11. Apart'
  <2>1. Empties' = Empties /\ Empties \subseteq 1 .. n
    BY <1>1, <1>2, <1>5, <1>9 DEF Empties
  <2>2. ASSUME NEW nm \in Names \ {"empty"}
        PROVE  {names'[nm], phandle'[nm], chandle'[nm]} \cap Empties' = {}
    <3>1. CASE nm = "cs_cons"
      <4>1. phandle[nm] \notin Empties
        BY <1>0, <2>2 DEF Apart
      <4>2. n + 1 \notin Empties
        BY <1>2, <2>1
      <4> QED BY <1>1, <1>6, <2>1, <3>1, <4>1, <4>2
    <3>2. CASE nm # "cs_cons"
      BY <1>0, <1>1, <1>5, <2>1, <3>2 DEF Apart
    <3> QED BY <3>1, <3>2
  <2> QED BY <2>2 DEF Apart
<1>12. ASSUME plan.kills = 0 PROVE (Unkilled /\ InStep)'
  <2>1. Unkilled /\ InStep
    BY <1>12 DEF IInv
  <2>2. SetUp(6) => objs'[phandle["empty"]] = objs[phandle["empty"]]
    BY <1>0, <1>2, <1>3, <1>9 DEF Made
  <2>3. Unkilled' /\ Setting'
    BY <1>1, <1>5, <1>9, <2>1, <2>2 DEF InStep, Unkilled, Setting, Opened, SetUp
  <2>4. Filled' /\ Connecting' /\ Destroying' /\ Same'
    BY <1>1, <1>5, <1>9, <2>1 DEF InStep, Filled, Connecting, Destroying, Same, SetUp, Opened
  <2>5. Unposted'
    <3>1. Waits' = Waits
      BY <1>1 DEF Waits, OPS_PER_PRODUCER
    <3>2. Unposted /\ ~Opened
      BY <2>1 DEF InStep, Opened
    <3>3. pmain = "run" => objs'[phandle["empty"]] = objs[phandle["empty"]]
      BY <2>2 DEF SetUp
    <3>4. names'["filled"] = names["filled"]
      BY <1>5, <1>9
    <3>5. pmain = "run" => objs[phandle["empty"]].value + Cardinality(Waits) = BUFFER_SIZE
      BY <3>2 DEF Unposted
    <3>6. phandle' = phandle /\ pmain' = pmain
      BY <1>1
    <3>7. pmain = "run" => objs'[phandle'["empty"]].value + Cardinality(Waits') = BUFFER_SIZE
      BY <3>1, <3>3, <3>5, <3>6
    <3> QED BY <3>6, <3>7 DEF Unposted
  <2> QED BY <2>3, <2>4, <2>5 DEF InStep
<1> QED BY <1>1, <1>7, <1>8, <1>10, <1>11, <1>12 DEF IInv

LEMMA ConnectKeeps ==
    ASSUME IInv, ConnectStep
    PROVE  IInv'
<1>0. TypeOK /\ Working /\ Apart /\ Made /\ cstep \in 1 .. 4
  BY DEF IInv, TypeOK
<1>1. cmain = "connect" /\ UNCHANGED <<pvars, counts>> /\ Len(Connect) = 4
  BY DEF ConnectStep, Connect
<1>2. CASE /\ Succeeds(Connect[cstep]) /\ Perform(Connect[cstep], Fresh[Connect[cstep][2]])
           /\ chandle' = [chandle EXCEPT ![Connect[cstep][2]] = HandleOf(Connect[cstep])]
           /\ cmain' = IF cstep = 4 THEN "run" ELSE "connect"
           /\ cstep' = IF cstep = 4 THEN 1 ELSE cstep + 1
           /\ cpc' = IF cstep = 4 THEN Forked(Consumers, plan.consumers, "wait_filled") ELSE cpc
           /\ cops' = IF cstep = 4 THEN [c \in Consumers |-> OPS_PER_CONSUMER] ELSE cops
  <2>1. CASE cstep = 3
    <3>1. Connect[cstep] = <<"create", "cs_cons">>
      BY <2>1 DEF Connect
    <3> DEFINE fresh == Fresh["cs_cons"]
    <3>2. /\ names' = [names EXCEPT !["cs_cons"] = Len(objs) + 1]
          /\ objs' = Append(objs, fresh)
          /\ chandle' = [chandle EXCEPT !["cs_cons"] = Len(objs) + 1]
      BY <1>2, <3>1 DEF Perform, HandleOf
    <3> HIDE DEF fresh
    <3>3. /\ cmain' = "connect" /\ cstep' = 4
          /\ UNCHANGED <<pmain, pstep, phandle, ppc, pops, cpc, cops, counts>>
      BY <1>1, <1>2, <2>1 DEF pvars
    <3> QED BY <1>1, <2>1, <3>2, <3>3, ConnectCreateKeeps
  <2>2. CASE cstep # 3
    <3> DEFINE nm == IF cstep = 1 THEN "filled" ELSE IF cstep = 2 THEN "empty" ELSE "mem"
    <3>1. Connect[cstep] = <<"open", nm>> /\ cstep \in {1, 2, 4}
      BY <1>0, <2>2 DEF Connect
    <3> HIDE DEF nm
    <3>2. names[nm] # 0 /\ chandle' = [chandle EXCEPT ![nm] = names[nm]] /\ UNCHANGED objs
      BY <1>2, <3>1 DEF Perform, HandleOf, Succeeds
    <3>3. names' = names
      <4>1. names' = [names EXCEPT ![nm] = names[nm]]
        BY <1>2, <3>1 DEF Perform
      <4> QED BY <1>0, <4>1 DEF TypeOK
    <3>4. OPS_PER_CONSUMER \in Int
      <4>1. NUM_OPERATIONS \in Nat /\ Cardinality(plan.consumers) \in Nat \ {0}
        BY <1>0, ShmAssumption, FS_CardinalityType, FS_EmptySet DEF TypeOK
      <4> QED BY <4>1, ModDef DEF OPS_PER_CONSUMER
    <3>5. /\ \/ cstep # 4 /\ cmain' = "connect" /\ cstep' = cstep + 1 /\ UNCHANGED <<cpc, cops>>
             \/ /\ cstep = 4 /\ cmain' = "run" /\ cstep' = 1
                /\ cpc' = Forked(Consumers, plan.consumers, "wait_filled")
                /\ cops' = [c \in Consumers |-> OPS_PER_CONSUMER]
          /\ UNCHANGED <<pmain, pstep, phandle, ppc, pops, counts>>
      BY <1>1, <1>2 DEF pvars
    <3>6. nm = IF cstep = 1 THEN "filled" ELSE IF cstep = 2 THEN "empty" ELSE "mem"
      BY DEF nm
    <3> QED BY <1>1, <3>1, <3>2, <3>3, <3>4, <3>5, <3>6, ConnectOpenKeeps
  <2> QED BY <2>1, <2>2
<1>3. CASE cmain' = "failed" /\ UNCHANGED <<names, objs, cstep, chandle, cpc, cops>>
  <2>1. UNCHANGED <<pmain, pstep, phandle, ppc, pops, pruns, cruns, kills, plan>>
    BY <1>1 DEF pvars, counts
  <2>2. TypeOK'
    BY <1>0, <1>3, <2>1 DEF TypeOK, Ended
  <2>3. Working'
    BY <1>0, <1>1, <1>3, <2>1 DEF Working, OPS_PER_PRODUCER
  <2>4. Apart' /\ Made'
    BY <1>0, <1>3, <2>1 DEF Apart, Empties, Made, SetUp
  <2>5. ASSUME plan.kills = 0 PROVE (Unkilled /\ InStep)'
    <3>1. Unkilled /\ InStep
      BY <2>5 DEF IInv
    <3>2. Unkilled' /\ Setting' /\ Filled' /\ Connecting' /\ Destroying' /\ Same'
      BY <1>1, <1>3, <2>1, <3>1
         DEF InStep, Unkilled, Setting, Filled, Connecting, Destroying, Same, SetUp, Opened
    <3>3. Unposted'
      <4>1. Waits' = Waits
        BY <2>1 DEF Waits, OPS_PER_PRODUCER
      <4> QED BY <1>1, <1>3, <2>1, <3>1, <4>1 DEF InStep, Unposted, Opened
    <3> QED BY <3>2, <3>3 DEF InStep
  <2> QED BY <2>1, <2>2, <2>3, <2>4, <2>5 DEF IInv
<1> QED BY <1>1, <1>2, <1>3 DEF ConnectStep

\* The producer unlinks what an earlier run may have left.
LEMMA SetupUnlinkKeeps ==
    ASSUME IInv, pmain = "setup", pstep \in 1 .. 4, NEW nm \in Names,
           nm = IF pstep = 1 THEN "filled" ELSE IF pstep = 2 THEN "empty"
                ELSE IF pstep = 3 THEN "cs_prod" ELSE "cs_cons",
           names' = [names EXCEPT ![nm] = 0], pmain' = "setup", pstep' = pstep + 1,
           UNCHANGED <<objs, phandle, ppc, pops, cvars, counts>>
    PROVE  IInv'
<1>0. TypeOK /\ Working /\ Apart /\ Made
  BY DEF IInv
<1>1. UNCHANGED <<objs, phandle, ppc, pops, cmain, cstep, chandle, cpc, cops,
                  pruns, cruns, kills, plan>>
  BY DEF cvars, counts
<1>2. /\ \A n \in Names : names'[n] = IF n = nm THEN 0 ELSE names[n]
      /\ names' \in [Names -> 0 .. Len(objs)]
  <2>1. names \in [Names -> 0 .. Len(objs)] /\ 0 \in 0 .. Len(objs)
    BY <1>0 DEF TypeOK
  <2> QED BY <2>1
<1>3. TypeOK'
  <2>1. pstep' \in 1 .. 8
    OBVIOUS
  <2> QED BY <1>0, <1>1, <1>2, <2>1 DEF TypeOK
<1>4. Working'
  BY <1>0, <1>1 DEF Working, OPS_PER_PRODUCER
<1>5. Apart' /\ Made'
  <2>1. Made'
    BY <1>0, <1>1 DEF Made, SetUp
  <2>2. Empties' \subseteq Empties
    BY <1>1, <1>2 DEF Empties, Names
  <2>3. 0 \notin Empties
    BY DEF Empties
  <2>4. Apart'
    BY <1>0, <1>1, <1>2, <2>2, <2>3 DEF Apart
  <2> QED BY <2>1, <2>4
<1>6. ASSUME plan.kills = 0 PROVE (Unkilled /\ InStep)'
  <2>1. Unkilled /\ InStep
    BY <1>6 DEF IInv
  <2>2. {"filled", "empty", "cs_prod", "mem"} \subseteq Names
    BY DEF Names
  <2>3. Unkilled' /\ Setting'
    BY <1>1, <1>2, <2>1, <2>2 DEF InStep, Unkilled, Setting, Opened
  <2>4. Filled' /\ Connecting'
    BY <1>1, <1>2, <2>1, <2>2 DEF InStep, Filled, Connecting, SetUp, Opened
  <2>5. Destroying' /\ Unposted' /\ Same'
    BY DEF Destroying, Unposted, Same
  <2> QED BY <2>3, <2>4, <2>5 DEF InStep
<1> QED BY <1>1, <1>3, <1>4, <1>5, <1>6 DEF IInv

\* It creates its objects, the memory last, and then forks its children.
LEMMA SetupCreateKeeps ==
    ASSUME IInv, pmain = "setup", pstep \in 5 .. 8, NEW nm \in Names,
           nm = IF pstep = 5 THEN "filled" ELSE IF pstep = 6 THEN "empty"
                ELSE IF pstep = 7 THEN "cs_prod" ELSE "mem",
           NEW fresh, nm = "empty" => fresh = [value |-> BUFFER_SIZE],
           names' = [names EXCEPT ![nm] = Len(objs) + 1],
           phandle' = [phandle EXCEPT ![nm] = Len(objs) + 1],
           objs' = Append(objs, fresh),
           \/ pstep # 8 /\ pmain' = "setup" /\ pstep' = pstep + 1 /\ UNCHANGED <<ppc, pops>>
           \/ /\ pstep = 8 /\ pmain' = "run" /\ pstep' = 1
              /\ ppc' = Forked(Producers, plan.producers, "wait_empty")
              /\ pops' = [p \in Producers |-> OPS_PER_PRODUCER],
           UNCHANGED <<cvars, counts>>
    PROVE  IInv'
<1>0. TypeOK /\ Working /\ Apart /\ Made
  BY DEF IInv
<1>1. UNCHANGED <<cmain, cstep, chandle, cpc, cops, pruns, cruns, kills, plan>>
  BY DEF cvars, counts
<1>2. BUFFER_SIZE \in Nat /\ OPS_PER_PRODUCER \in Nat \ {0} /\ plan.producers \subseteq Producers
  BY <1>0, Parameters DEF TypeOK
<1> DEFINE n == Len(objs)
<1>3. /\ n \in Nat /\ objs = [i \in 1 .. n |-> objs[i]]
      /\ names \in [Names -> 0 .. n] /\ phandle \in [Names -> 0 .. n]
      /\ chandle \in [Names -> 0 .. n]
  BY <1>0 DEF TypeOK
<1>4. /\ Len(objs') = n + 1 /\ objs' = [i \in 1 .. Len(objs') |-> objs'[i]]
      /\ \A i \in 1 .. n : objs'[i] = objs[i]
      /\ objs'[n + 1] = fresh
  <2> DEFINE t == Append(objs, fresh)
  <2>1. /\ Len(t) = n + 1 /\ t = [i \in 1 .. Len(t) |-> t[i]]
        /\ \A i \in 1 .. n : t[i] = objs[i]
        /\ t[n + 1] = fresh
    BY <1>3, Created, Zenon
  <2>2. objs' = t
    OBVIOUS
  <2> HIDE DEF t, n
  <2> QED BY <2>1, <2>2
<1>5. names' = [names EXCEPT ![nm] = n + 1] /\ phandle' = [phandle EXCEPT ![nm] = n + 1]
  OBVIOUS
<1> HIDE DEF n
<1>6. /\ names' \in [Names -> 0 .. n + 1] /\ chandle' \in [Names -> 0 .. n + 1]
      /\ phandle' \in [Names -> 0 .. n + 1]
  <2>1. /\ names \in [Names -> 0 .. n + 1] /\ phandle \in [Names -> 0 .. n + 1]
        /\ chandle \in [Names -> 0 .. n + 1] /\ n + 1 \in 0 .. n + 1
    BY <1>3
  <2>2. names' \in [Names -> 0 .. n + 1]
    BY <1>5, <2>1
  <2>3. phandle' \in [Names -> 0 .. n + 1]
    BY <1>5, <2>1
  <2> QED BY <1>1, <2>1, <2>2, <2>3
<1>7. /\ names'[nm] = n + 1 /\ phandle'[nm] = n + 1
      /\ \A k \in Names \ {nm} : names'[k] = names[k] /\ phandle'[k] = phandle[k]
  BY <1>3, <1>5
<1>8. /\ "filled" \in Names /\ "empty" \in Names /\ "cs_prod" \in Names /\ "mem" \in Names
      /\ nm = "filled" <=> pstep = 5
      /\ nm = "empty" <=> pstep = 6
      /\ nm = "cs_prod" <=> pstep = 7
      /\ nm = "mem" <=> pstep = 8
  BY DEF Names
<1>9. TypeOK'
  <2>1. Len(objs') \in Nat
    BY <1>3, <1>4
  <2>2. ppc' \in [Producers -> PWorking \cup {"none", "exit"}]
    BY <1>0 DEF TypeOK, Forked, PWorking
  <2>3. pops' \in [Producers -> Nat]
    BY <1>0, <1>2 DEF TypeOK
  <2>4. pmain' \in {"setup", "run"} /\ pstep' \in 1 .. 8
    OBVIOUS
  <2> QED BY <1>0, <1>1, <1>4, <1>6, <2>1, <2>2, <2>3, <2>4 DEF TypeOK
<1>10. Working'
  <2>1. OPS_PER_PRODUCER' = OPS_PER_PRODUCER
    BY <1>1 DEF OPS_PER_PRODUCER
  <2>2. CASE pstep = 8
    <3>1. \A p \in Producers : ppc'[p] = IF p \in plan.producers THEN "wait_empty" ELSE "none"
      BY <2>2 DEF Forked
    <3>2. \A p \in Producers : pops'[p] = OPS_PER_PRODUCER
      BY <2>2
    <3> QED BY <1>0, <1>1, <1>2, <2>1, <2>2, <3>1, <3>2 DEF Working, PWorking
  <2>3. CASE pstep # 8
    BY <1>0, <1>1, <2>1, <2>3 DEF Working
  <2> QED BY <2>2, <2>3
<1>11. Made'
  <2>1. phandle["empty"] \in 0 .. n
    BY <1>3, <1>8
  <2>2. phandle'["empty"] # 0 => objs'[phandle'["empty"]] \in [value : Nat]
    <3>1. CASE nm = "empty"
      BY <1>2, <1>4, <1>7, <3>1
    <3>2. CASE nm # "empty"
      <4>1. phandle'["empty"] = phandle["empty"]
        BY <1>7, <1>8, <3>2
      <4>2. phandle["empty"] # 0 => /\ phandle["empty"] \in 1 .. n
                                    /\ objs[phandle["empty"]] \in [value : Nat]
        BY <1>0, <1>3, <2>1 DEF Made
      <4> QED BY <1>4, <4>1, <4>2
    <3> QED BY <3>1, <3>2
  <2>3. SetUp(5)' => phandle'["filled"] # 0
    <3>1. CASE nm = "filled"
      BY <1>3, <1>7, <3>1
    <3>2. CASE nm # "filled"
      <4>1. phandle'["filled"] = phandle["filled"]
        BY <1>7, <1>8, <3>2
      <4>2. SetUp(5)' => SetUp(5)
        BY <3>2 DEF SetUp
      <4> QED BY <1>0, <4>1, <4>2 DEF Made
    <3> QED BY <3>1, <3>2
  <2>4. SetUp(6)' => phandle'["empty"] # 0
    <3>1. CASE nm = "empty"
      BY <1>3, <1>7, <3>1
    <3>2. CASE nm # "empty"
      <4>1. phandle'["empty"] = phandle["empty"]
        BY <1>7, <1>8, <3>2
      <4>2. SetUp(6)' => SetUp(6)
        BY <3>2 DEF SetUp
      <4> QED BY <1>0, <4>1, <4>2 DEF Made
    <3> QED BY <3>1, <3>2
  <2> QED BY <2>2, <2>3, <2>4 DEF Made
<1>12. Apart'
  <2>1. Empties \subseteq 1 .. n
    <3>1. /\ names["empty"] \in 0 .. n /\ phandle["empty"] \in 0 .. n
          /\ chandle["empty"] \in 0 .. n
      BY <1>3, <1>8
    <3> QED BY <1>3, <3>1 DEF Empties
  <2>2. ASSUME NEW k \in Names \ {"empty"}
        PROVE  {names'[k], phandle'[k], chandle'[k]} \cap Empties' = {}
    <3>0. /\ names[k] \in 0 .. n /\ phandle[k] \in 0 .. n /\ chandle[k] \in 0 .. n
          /\ {names[k], phandle[k], chandle[k]} \cap Empties = {}
      BY <1>0, <1>3, <2>2 DEF Apart
    <3>1. CASE nm = "empty"
      <4>1. Empties' \subseteq Empties \cup {n + 1}
        BY <1>1, <1>7, <3>1 DEF Empties
      <4>2. names'[k] = names[k] /\ phandle'[k] = phandle[k] /\ chandle'[k] = chandle[k]
        BY <1>1, <1>7, <2>2, <3>1
      <4>3. n + 1 \notin {names[k], phandle[k], chandle[k]}
        BY <1>3, <3>0
      <4> QED BY <3>0, <4>1, <4>2, <4>3
    <3>2. CASE nm # "empty"
      <4>1. Empties' = Empties
        BY <1>1, <1>7, <1>8, <3>2 DEF Empties
      <4>2. /\ names'[k] \in {names[k], n + 1} /\ phandle'[k] \in {phandle[k], n + 1}
            /\ chandle'[k] = chandle[k]
        BY <1>1, <1>7, <2>2
      <4>3. n + 1 \notin Empties
        BY <1>3, <2>1
      <4> QED BY <3>0, <4>1, <4>2, <4>3
    <3> QED BY <3>1, <3>2
  <2> QED BY <2>2 DEF Apart
<1>13. ASSUME plan.kills = 0 PROVE (Unkilled /\ InStep)'
  <2>1. Unkilled /\ InStep
    BY <1>13 DEF IInv
  <2>2. /\ chandle["empty"] \in 0 .. n /\ chandle["mem"] \in 0 .. n
        /\ phandle["empty"] \in 0 .. n
    BY <1>3, <1>8
  <2>3. pstep > 6 => /\ phandle'["empty"] = phandle["empty"]
                     /\ objs'[phandle["empty"]].value = BUFFER_SIZE /\ ~Opened
    <3> SUFFICES ASSUME pstep > 6
                 PROVE  /\ phandle'["empty"] = phandle["empty"]
                        /\ objs'[phandle["empty"]].value = BUFFER_SIZE /\ ~Opened
      OBVIOUS
    <3>1. phandle["empty"] # 0
      BY <1>0 DEF Made, SetUp
    <3>2. phandle["empty"] \in 1 .. n
      BY <1>3, <2>2, <3>1
    <3>3. objs[phandle["empty"]].value = BUFFER_SIZE /\ ~Opened
      BY <2>1 DEF InStep, Setting
    <3>4. phandle'["empty"] = phandle["empty"]
      BY <1>7, <1>8
    <3> QED BY <1>4, <3>2, <3>3, <3>4
  <2>4. pstep = 6 => /\ objs'[phandle'["empty"]].value = BUFFER_SIZE
                     /\ chandle["empty"] # phandle'["empty"]
    BY <1>3, <1>4, <1>7, <1>8, <2>2
  <2>5. Unkilled'
    BY <1>1, <2>1 DEF Unkilled
  <2>6. Setting'
    <3>1. names'["mem"] # 0 => pmain' = "run" /\ names'["mem"] = phandle'["mem"]
      BY <1>7, <1>8, <2>1 DEF InStep, Setting
    <3>2. names'["empty"] # 0 => names'["empty"] = phandle'["empty"]
      BY <1>7, <1>8, <2>1 DEF InStep, Setting
    <3>3. pmain' = "setup" => /\ pstep' \notin 2 .. 5
                              /\ pstep' \in 3 .. 6 => names'["empty"] = 0
                              /\ pstep' \in 4 .. 7 => names'["cs_prod"] = 0
      BY <1>7, <1>8, <2>1 DEF InStep, Setting
    <3>4. pmain' = "setup" /\ pstep' > 6 =>
              objs'[phandle'["empty"]].value = BUFFER_SIZE /\ ~Opened'
      <4>1. CASE pstep = 6
        BY <1>1, <2>4, <4>1 DEF Opened
      <4>2. CASE pstep = 7
        <5> pstep > 6
          BY <4>2
        <5>1. phandle'["empty"] = phandle["empty"] /\ ~Opened
          BY <2>3, Zenon
        <5>2. objs'[phandle["empty"]].value = BUFFER_SIZE
          BY <2>3, Zenon
        <5>3. ~Opened'
          <6>1. CASE cmain \in {"run", "destroy"}
            BY <1>1, <5>1, <6>1 DEF Opened
          <6>2. CASE cmain \notin {"run", "destroy"}
            BY <1>1, <6>2 DEF Opened
          <6> QED BY <6>1, <6>2
        <5> QED BY <5>1, <5>2, <5>3
      <4>3. CASE pstep \notin {6, 7}
        BY <4>3
      <4> QED BY <4>1, <4>2, <4>3
    <3> QED BY <3>1, <3>2, <3>3, <3>4 DEF Setting
  <2>7. SetUp(5)'
    BY DEF SetUp
  <2>8. Filled'
    <3>1. pstep # 5 => phandle'["filled"] = phandle["filled"] /\ names'["filled"] = names["filled"]
      BY <1>7, <1>8
    <3>2. pstep = 5 => phandle'["filled"] = names'["filled"]
      BY <1>7, <1>8
    <3> QED BY <2>1, <2>7, <3>1, <3>2 DEF InStep, Filled
  <2>9. Connecting'
    <3>1. pstep > 5 => phandle'["filled"] = phandle["filled"]
      BY <1>7, <1>8
    <3> QED BY <1>1, <2>1, <2>3, <2>7, <3>1 DEF InStep, Connecting, SetUp
  <2>10. Destroying'
    BY <1>1, <2>3 DEF Destroying, Opened
  <2>11. Unposted'
    <3>1. ASSUME pmain' = "run" PROVE Cardinality(Waits') = 0
      <4>1. Waits' = {}
        <5>1. \A p \in plan.producers : pops'[p] = OPS_PER_PRODUCER /\ ppc'[p] = "wait_empty"
          BY <1>2, <3>1 DEF Forked
        <5> QED BY <1>1, <1>2, <5>1 DEF Waits, OPS_PER_PRODUCER
      <4> QED BY <4>1, FS_EmptySet
    <3>2. pmain' = "run" => pstep > 6
      OBVIOUS
    <3>3. pmain' = "run" => objs'[phandle'["empty"]].value = BUFFER_SIZE
      BY <2>3, <3>2
    <3>4. pmain' = "run" => objs'[phandle'["empty"]].value + Cardinality(Waits') = BUFFER_SIZE
      <4> DEFINE free == objs'[phandle'["empty"]].value
                 taken == Cardinality(Waits')
      <4>1. pmain' = "run" => free = BUFFER_SIZE /\ taken = 0
        BY <3>1, <3>3
      <4>2. BUFFER_SIZE \in Nat
        BY <1>2
      <4> HIDE DEF free, taken
      <4>3. pmain' = "run" => free + taken = BUFFER_SIZE
        BY <4>1, <4>2
      <4> QED BY <4>3 DEF free, taken
    <3> QED BY <3>4 DEF Unposted
  <2>12. Same'
    BY <1>1, <1>3, <1>7, <1>8, <2>2 DEF Same
  <2> QED BY <2>5, <2>6, <2>8, <2>9, <2>10, <2>11, <2>12 DEF InStep
<1> QED BY <1>1, <1>9, <1>10, <1>11, <1>12, <1>13 DEF IInv

LEMMA SetupKeeps ==
    ASSUME IInv, SetupStep
    PROVE  IInv'
<1>0. TypeOK /\ Working /\ Apart /\ Made /\ pstep \in 1 .. 8
  BY DEF IInv, TypeOK
<1>1. pmain = "setup" /\ UNCHANGED <<cvars, counts>> /\ Len(Setup) = 8
  BY DEF SetupStep, Setup
<1> DEFINE op == Setup[pstep]
<1>2. CASE /\ Succeeds(op) /\ Perform(op, Fresh[op[2]])
           /\ phandle' = IF op[1] = "create"
                         THEN [phandle EXCEPT ![op[2]] = HandleOf(op)] ELSE phandle
           /\ pmain' = IF pstep = 8 THEN "run" ELSE "setup"
           /\ pstep' = IF pstep = 8 THEN 1 ELSE pstep + 1
           /\ ppc' = IF pstep = 8 THEN Forked(Producers, plan.producers, "wait_empty") ELSE ppc
           /\ pops' = IF pstep = 8 THEN [p \in Producers |-> OPS_PER_PRODUCER] ELSE pops
  <2>1. CASE pstep \in 1 .. 4
    <3> DEFINE nm == IF pstep = 1 THEN "filled" ELSE IF pstep = 2 THEN "empty"
                     ELSE IF pstep = 3 THEN "cs_prod" ELSE "cs_cons"
    <3>1. op = <<"unlink", nm>>
      BY <2>1 DEF Setup
    <3>2. nm \in Names
      BY DEF Names
    <3> HIDE DEF nm, op
    <3>3. names' = [names EXCEPT ![nm] = 0] /\ UNCHANGED objs
      BY <1>2, <3>1 DEF Perform
    <3>4. UNCHANGED phandle
      BY <1>2, <3>1
    <3>5. pmain' = "setup" /\ pstep' = pstep + 1 /\ UNCHANGED <<ppc, pops, cvars, counts>>
      BY <1>1, <1>2, <2>1
    <3>6. nm = IF pstep = 1 THEN "filled" ELSE IF pstep = 2 THEN "empty"
               ELSE IF pstep = 3 THEN "cs_prod" ELSE "cs_cons"
      BY DEF nm
    <3> QED BY <1>1, <2>1, <3>2, <3>3, <3>4, <3>5, <3>6, SetupUnlinkKeeps
  <2>2. CASE pstep \in 5 .. 8
    <3> DEFINE nm == IF pstep = 5 THEN "filled" ELSE IF pstep = 6 THEN "empty"
                     ELSE IF pstep = 7 THEN "cs_prod" ELSE "mem"
               fresh == Fresh[nm]
    <3>1. op = <<"create", nm>>
      BY <2>2 DEF Setup
    <3>2. nm \in Names
      BY DEF Names
    <3>3. nm = "empty" => fresh = [value |-> BUFFER_SIZE]
      BY DEF Fresh, Semaphore
    <3> HIDE DEF nm, op, fresh
    <3>4. names' = [names EXCEPT ![nm] = Len(objs) + 1] /\ objs' = Append(objs, fresh)
      BY <1>2, <3>1 DEF Perform, fresh
    <3>5. phandle' = [phandle EXCEPT ![nm] = Len(objs) + 1]
      BY <1>2, <3>1 DEF HandleOf
    <3>6. /\ \/ pstep # 8 /\ pmain' = "setup" /\ pstep' = pstep + 1 /\ UNCHANGED <<ppc, pops>>
             \/ /\ pstep = 8 /\ pmain' = "run" /\ pstep' = 1
                /\ ppc' = Forked(Producers, plan.producers, "wait_empty")
                /\ pops' = [p \in Producers |-> OPS_PER_PRODUCER]
          /\ UNCHANGED <<cvars, counts>>
      BY <1>1, <1>2
    <3>7. nm = IF pstep = 5 THEN "filled" ELSE IF pstep = 6 THEN "empty"
               ELSE IF pstep = 7 THEN "cs_prod" ELSE "mem"
      BY DEF nm
    <3> QED BY <1>1, <2>2, <3>2, <3>3, <3>4, <3>5, <3>6, <3>7, SetupCreateKeeps
  <2> QED BY <1>0, <2>1, <2>2
<1>3. CASE ~Succeeds(op) /\ pmain' = "failed"
           /\ UNCHANGED <<names, objs, pstep, phandle, ppc, pops>>
  <2>1. UNCHANGED <<cmain, cstep, chandle, cpc, cops, pruns, cruns, kills, plan>>
    BY <1>1 DEF cvars, counts
  <2>2. TypeOK'
    BY <1>0, <1>3, <2>1 DEF TypeOK, Ended
  <2>3. Working'
    BY <1>0, <1>1, <1>3, <2>1 DEF Working, OPS_PER_PRODUCER
  <2>4. Apart' /\ Made'
    BY <1>0, <1>3, <2>1 DEF Apart, Empties, Made, SetUp
  <2>5. plan.kills # 0
    <3>1. SUFFICES ASSUME plan.kills = 0 PROVE FALSE
      OBVIOUS
    <3>2. Setting
      BY <3>1 DEF IInv, InStep
    <3>3. pstep \notin 1 .. 4
      <4>1. ASSUME pstep \in 1 .. 4 PROVE op[1] = "unlink"
        BY <4>1 DEF Setup
      <4> HIDE DEF op
      <4> QED BY <1>3, <4>1 DEF Succeeds
    <3>4. CASE pstep = 5
      BY <1>1, <1>3, <3>2, <3>4 DEF Setup, Succeeds, Setting
    <3>5. CASE pstep = 6
      BY <1>1, <1>3, <3>2, <3>5 DEF Setup, Succeeds, Setting
    <3>6. CASE pstep = 7
      BY <1>1, <1>3, <3>2, <3>6 DEF Setup, Succeeds, Setting
    <3>7. CASE pstep = 8
      BY <1>1, <1>3, <3>2, <3>7 DEF Setup, Succeeds, Setting
    <3> QED BY <1>0, <3>3, <3>4, <3>5, <3>6, <3>7
  <2> QED BY <2>1, <2>2, <2>3, <2>4, <2>5 DEF IInv
<1> QED BY <1>1, <1>2, <1>3 DEF SetupStep

-----------------------------------------------------------------------------
(* The theorems. *)

LEMMA Initially ==
    ASSUME Init
    PROVE  IInv
<1>1. /\ plan \in Plans /\ Len(objs) = 0 /\ objs = <<>>
      /\ \A nm \in Names : names[nm] = 0 /\ phandle[nm] = 0 /\ chandle[nm] = 0
      /\ pmain = "idle" /\ cmain = "idle" /\ plan.kills \in Nat /\ "empty" \in Names
  BY Parameters DEF Init, Names
<1>2. TypeOK
  <2>1. objs = [i \in 1 .. Len(objs) |-> objs[i]]
    BY <1>1
  <2> QED BY <1>1, <2>1 DEF Init, TypeOK, Ended, PWorking, CWorking
<1>3. Working
  BY DEF Init, Working, PWorking, CWorking
<1>4. Apart
  BY <1>1 DEF Apart, Empties
<1>5. Made
  BY <1>1 DEF Made, SetUp
<1>6. Unkilled /\ InStep
  BY <1>1 DEF Unkilled, InStep, Setting, Filled, Connecting, Destroying, Unposted, Same, Names
<1> QED BY <1>2, <1>3, <1>4, <1>5, <1>6 DEF IInv

LEMMA Steps ==
    ASSUME IInv, [Next]_vars
    PROVE  IInv'
<1>1. CASE Programs
  BY <1>1, LaunchProducerKeeps, SetupKeeps, JoinProducersKeeps, PDestroyKeeps,
     LaunchConsumerKeeps, ConnectKeeps, JoinConsumersKeeps, CDestroyKeeps DEF Programs
<1>2. CASE KillProducer \/ KillConsumer
  BY <1>2, KillsKeep
<1>3. CASE \E p \in Producers : ProduceChild(p)
  BY <1>3, ProduceKeeps
<1>4. CASE \E c \in Consumers : ConsumeChild(c)
  BY <1>4, ConsumeKeeps
<1>5. CASE UNCHANGED vars
  <2>1. UNCHANGED <<names, objs, pmain, pstep, phandle, ppc, pops, cmain, cstep, chandle,
                    cpc, cops, pruns, cruns, kills, plan>>
    BY <1>5 DEF vars, pvars, cvars, counts
  <2>2. TypeOK' /\ Working' /\ Apart' /\ Made'
    BY <2>1 DEF IInv, TypeOK, Working, Apart, Empties, Made, SetUp, OPS_PER_PRODUCER
  <2>3. Waits' = Waits
    BY <2>1 DEF Waits, OPS_PER_PRODUCER
  <2>4. ASSUME plan.kills = 0 PROVE (Unkilled /\ InStep)'
    <3>1. Unkilled /\ InStep
      BY <2>4 DEF IInv
    <3>2. Unkilled' /\ Setting' /\ Filled' /\ Connecting' /\ Destroying' /\ Same'
      BY <2>1, <3>1
         DEF InStep, Unkilled, Setting, Filled, Connecting, Destroying, Same, SetUp, Opened
    <3>3. Unposted'
      BY <2>1, <2>3, <3>1 DEF InStep, Unposted, Opened
    <3> QED BY <3>2, <3>3 DEF InStep
  <2> QED BY <2>1, <2>2, <2>4 DEF IInv
<1> QED BY <1>1, <1>2, <1>3, <1>4, <1>5 DEF Next, Terminated

\* IInv holds in every reachable state.
THEOREM Invariant == Spec => []IInv
<1>1. Init => IInv
  BY Initially
<1>2. IInv /\ [Next]_vars => IInv'
  BY Steps
<1> QED BY <1>1, <1>2, PTL DEF Spec

-----------------------------------------------------------------------------
(* A second producer beside the first one. *)

Numbered == Len(objs) \in Nat /\ objs = [i \in 1 .. Len(objs) |-> objs[i]]

\* Whoever is past its set-up has created the memory, and nobody else has.
OneAtWork ==
    /\ Numbered /\ names \in [Names -> Nat]
    /\ pstep \in 1 .. 8 /\ rstep \in 1 .. 8 /\ cstep \in 1 .. 4
    /\ pmain \in PastSetUp \/ rmain \in PastSetUp => names["mem"] # 0
    /\ ~ (pmain \in PastSetUp /\ rmain \in PastSetUp)

\* Until somebody starts it, there is ShmBuffer.
FirstOnly == rruns = 0 => IInv /\ rmain = "idle" /\ \A p \in Producers : rpc[p] = "none"

RInv == OneAtWork /\ rruns \in Nat /\ FirstOnly

\* What a call does that succeeds.
LEMMA CallOnName ==
    ASSUME Numbered, names \in [Names -> Nat], NEW op, NEW x, op[2] \in Names,
           op[1] \in {"unlink", "remove", "create", "open"}, Succeeds(op), Perform(op, x)
    PROVE  /\ Numbered' /\ names' \in [Names -> Nat]
           /\ op[2] # "mem" => names'["mem"] = names["mem"]
           /\ op[1] = "create" => names[op[2]] = 0 /\ names'[op[2]] # 0
<1>1. Numbered'
  <2>1. objs' = Append(objs, x) \/ objs' = objs
    BY DEF Perform
  <2> QED BY <2>1, Created DEF Numbered
<1>2. Len(objs) + 1 \in Nat /\ Len(objs) + 1 # 0
  BY DEF Numbered
<1> DEFINE v == CASE op[1] \in {"unlink", "remove"} -> 0
                  [] op[1] = "create" -> Len(objs) + 1
                  [] op[1] = "open" -> names[op[2]]
<1>3. v \in Nat /\ (op[1] = "create" => v # 0)
  BY <1>2
<1>4. names' = [names EXCEPT ![op[2]] = v]
  BY DEF Perform
<1> HIDE DEF v
<1>5. names' \in [Names -> Nat] /\ names'[op[2]] = v /\ "mem" \in Names
      /\ \A nm \in Names \ {op[2]} : names'[nm] = names[nm]
  BY <1>3, <1>4 DEF Names
<1>6. op[1] = "create" => names[op[2]] = 0
  BY DEF Succeeds
<1> QED BY <1>1, <1>3, <1>5, <1>6

\* The second program makes the same calls on the same names and objects.
LEMMA SameCalls ==
    ASSUME NEW op, NEW x
    PROVE  /\ R!Succeeds(op) = Succeeds(op) /\ R!HandleOf(op) = HandleOf(op)
           /\ R!Perform(op, x) <=> Perform(op, x)
           /\ R!Setup = Setup /\ R!PDestroy = PDestroy
<1>1. R!Setup = Setup /\ R!PDestroy = PDestroy
  BY DEF Setup, R!Setup, PDestroy, R!PDestroy
<1> QED BY <1>1, Zenon DEF Succeeds, R!Succeeds, Perform, R!Perform, HandleOf, R!HandleOf

LEMMA SameSemaphores ==
    ASSUME NEW o
    PROVE  (R!SemWait(o) <=> SemWait(o)) /\ (R!SemPost(o) <=> SemPost(o))
BY Zenon DEF SemWait, R!SemWait, SemPost, R!SemPost

\* The producer's calls: only the last one is on the memory.
LEMMA SetupCall ==
    ASSUME NEW i \in 1 .. 8
    PROVE  /\ Len(Setup) = 8 /\ Setup[i][2] \in Names /\ Setup[i][1] \in {"unlink", "create"}
           /\ i = 8 <=> Setup[i][2] = "mem"
           /\ Setup[8] = <<"create", "mem">>
BY DEF Setup, Names

\* Whatever is done to an object, there are as many.
LEMMA StayNumbered ==
    ASSUME Numbered, NEW o,
           \/ SemWait(o) \/ SemPost(o)
           \/ \E v : objs' = [objs EXCEPT ![o] = v]
    PROVE  Numbered'
<1>1. \E v : objs' = [objs EXCEPT ![o] = v]
  BY Zenon DEF SemWait, SemPost
<1>2. PICK v : objs' = [objs EXCEPT ![o] = v]
  BY <1>1
<1>3. Changed(objs, objs', o)
  BY <1>2, ChangedByExcept DEF Numbered
<1> QED BY <1>3 DEF Numbered, Changed


\* A producer's write is two such steps in one.
LEMMA WriteNumbered ==
    ASSUME Numbered, NEW m, NEW i, NEW x,
           objs' = [objs EXCEPT ![m].buf[i] = x, ![m].stored = Append(@, x)]
    PROVE  Numbered'
<1> DEFINE v == [objs[m] EXCEPT !.buf[i] = x]
           s == [objs EXCEPT ![m] = v]
           w == [s[m] EXCEPT !.stored = Append(@, x)]
<1>1. objs' = [s EXCEPT ![m] = w]
  OBVIOUS
<1> HIDE DEF v, w
<1>2. Changed(objs, s, m)
  BY ChangedByExcept DEF Numbered
<1> HIDE DEF s
<1>3. Len(s) \in Nat /\ s = [k \in 1 .. Len(s) |-> s[k]]
  BY <1>2 DEF Numbered, Changed
<1>4. Changed(s, objs', m)
  BY <1>1, <1>3, ChangedByExcept
<1> QED BY <1>3, <1>4 DEF Numbered, Changed

\* The children only change objects.
LEMMA ChildrenOnObjects ==
    ASSUME Numbered,
           \/ \E p \in Producers : ProduceChild(p) \/ R!ProduceChild(p)
           \/ \E c \in Consumers : ConsumeChild(c)
    PROVE  Numbered' /\ UNCHANGED names
<1>1. ASSUME NEW p \in Producers, ProduceChild(p)
      PROVE  Numbered' /\ UNCHANGED names
  <2> DEFINE m == phandle["mem"]
  <2>1. \/ SemWait(phandle["empty"]) \/ SemWait(phandle["cs_prod"])
        \/ SemPost(phandle["filled"]) \/ SemPost(phandle["cs_prod"])
        \/ objs' = [objs EXCEPT ![m].buf[objs[m].write_index] = <<p, pops[p]>>,
                                ![m].stored = Append(@, <<p, pops[p]>>)]
        \/ objs' = [objs EXCEPT ![m].write_index = Wrapped(@)]
    BY <1>1, Zenon DEF ProduceChild
  <2>0. UNCHANGED names
    <3>1. \E from, to : PMove(p, from, to)
      BY <1>1, Zenon DEF ProduceChild
    <3> QED BY <3>1 DEF PMove
  <2> HIDE DEF m
  <2>2. CASE objs' = [objs EXCEPT ![m].write_index = Wrapped(@)]
    <3>1. \E v : objs' = [objs EXCEPT ![m] = v]
      BY <2>2, Zenon
    <3> QED BY <2>0, <3>1, StayNumbered
  <2> QED BY <2>0, <2>1, <2>2, StayNumbered, WriteNumbered
<1>2. ASSUME NEW p \in Producers, R!ProduceChild(p)
      PROVE  Numbered' /\ UNCHANGED names
  <2> DEFINE m == rhandle["mem"]
  <2>1. \/ SemWait(rhandle["empty"]) \/ SemWait(rhandle["cs_prod"])
        \/ SemPost(rhandle["filled"]) \/ SemPost(rhandle["cs_prod"])
        \/ objs' = [objs EXCEPT ![m].buf[objs[m].write_index] = <<p, rops[p]>>,
                                ![m].stored = Append(@, <<p, rops[p]>>)]
        \/ objs' = [objs EXCEPT ![m].write_index = R!Wrapped(@)]
    BY <1>2, SameSemaphores, Zenon DEF R!ProduceChild
  <2>0. UNCHANGED names
    <3>1. \E from, to : R!PMove(p, from, to)
      BY <1>2, Zenon DEF R!ProduceChild
    <3> QED BY <3>1 DEF R!PMove
  <2> HIDE DEF m
  <2>2. CASE objs' = [objs EXCEPT ![m].write_index = R!Wrapped(@)]
    <3>1. \E v : objs' = [objs EXCEPT ![m] = v]
      BY <2>2, Zenon
    <3> QED BY <2>0, <3>1, StayNumbered
  <2> QED BY <2>0, <2>1, <2>2, StayNumbered, WriteNumbered
<1>3. ASSUME NEW c \in Consumers, ConsumeChild(c)
      PROVE  Numbered' /\ UNCHANGED names
  <2> DEFINE m == chandle["mem"]
  <2>1. \/ SemWait(chandle["filled"]) \/ SemWait(chandle["cs_cons"])
        \/ SemPost(chandle["empty"]) \/ SemPost(chandle["cs_cons"])
        \/ objs' = [objs EXCEPT ![m].taken = Append(@, objs[m].buf[objs[m].read_index])]
        \/ objs' = [objs EXCEPT ![m].read_index = Wrapped(@)]
    BY <1>3, Zenon DEF ConsumeChild
  <2>0. UNCHANGED names
    BY <1>3 DEF ConsumeChild, CMove
  <2> HIDE DEF m
  <2>2. CASE \/ objs' = [objs EXCEPT ![m].taken = Append(@, objs[m].buf[objs[m].read_index])]
             \/ objs' = [objs EXCEPT ![m].read_index = Wrapped(@)]
    <3>1. \E v : objs' = [objs EXCEPT ![m] = v]
      BY <2>2, Zenon
    <3> QED BY <2>0, <3>1, StayNumbered
  <2> QED BY <2>0, <2>1, <2>2, StayNumbered
<1> QED BY <1>1, <1>2, <1>3

\* O_EXCL lets at most one producer past its set-up, until its shm_unlink.
LEMMA SetupAtWork ==
    ASSUME OneAtWork, \/ SetupStep /\ UNCHANGED rvars
                      \/ R!SetupStep /\ UNCHANGED <<pvars, pruns>>
    PROVE  OneAtWork'
<1>1. ASSUME SetupStep, UNCHANGED rvars PROVE OneAtWork'
  <2> DEFINE op == Setup[pstep]
  <2>1. pmain = "setup" /\ pstep \in 1 .. 8 /\ UNCHANGED <<cstep, rmain, rstep>>
    BY <1>1 DEF OneAtWork, SetupStep, rvars, cvars
  <2>2. Len(Setup) = 8 /\ op[2] \in Names /\ op[1] \in {"unlink", "create"}
        /\ (pstep = 8 <=> op[2] = "mem") /\ Setup[8] = <<"create", "mem">>
    BY <2>1, SetupCall
  <2>3. CASE Succeeds(op) /\ Perform(op, Fresh[op[2]]) /\ pmain' = (IF pstep = 8 THEN "run" ELSE "setup")
             /\ pstep' = (IF pstep = 8 THEN 1 ELSE pstep + 1)
    <3> HIDE DEF op
    <3>1. /\ Numbered' /\ names' \in [Names -> Nat]
          /\ op[2] # "mem" => names'["mem"] = names["mem"]
          /\ op[1] = "create" => names[op[2]] = 0 /\ names'[op[2]] # 0
      BY <2>2, <2>3, CallOnName DEF OneAtWork
    <3>2. pstep = 8 => rmain \notin PastSetUp /\ names'["mem"] # 0
      BY <2>2, <3>1 DEF OneAtWork, op
    <3>3. pstep' \in 1 .. 8
      BY <2>1, <2>3
    <3> QED BY <2>1, <2>2, <2>3, <3>1, <3>2, <3>3 DEF OneAtWork, PastSetUp
  <2>4. CASE pmain' = "failed" /\ UNCHANGED <<names, objs, pstep>>
    BY <2>1, <2>4 DEF OneAtWork, PastSetUp, Numbered
  <2>5. \/ Succeeds(op) /\ Perform(op, Fresh[op[2]]) /\ pmain' = (IF pstep = 8 THEN "run" ELSE "setup")
             /\ pstep' = (IF pstep = 8 THEN 1 ELSE pstep + 1)
        \/ pmain' = "failed" /\ UNCHANGED <<names, objs, pstep>>
    BY <1>1, <2>2 DEF SetupStep
  <2> QED BY <2>3, <2>4, <2>5
<1>2. ASSUME R!SetupStep, UNCHANGED <<pvars, pruns>> PROVE OneAtWork'
  <2> DEFINE op == Setup[rstep]
  <2>1. rmain = "setup" /\ rstep \in 1 .. 8 /\ UNCHANGED <<cstep, pmain, pstep>>
    BY <1>2 DEF OneAtWork, R!SetupStep, pvars, R!cvars
  <2>2. Len(Setup) = 8 /\ op[2] \in Names /\ op[1] \in {"unlink", "create"}
        /\ (rstep = 8 <=> op[2] = "mem") /\ Setup[8] = <<"create", "mem">>
    BY <2>1, SetupCall
  <2>3. ASSUME NEW x, Succeeds(op) /\ Perform(op, x) /\ rmain' = (IF rstep = 8 THEN "run" ELSE "setup")
               /\ rstep' = (IF rstep = 8 THEN 1 ELSE rstep + 1)
        PROVE  OneAtWork'
    <3> HIDE DEF op
    <3>1. /\ Numbered' /\ names' \in [Names -> Nat]
          /\ op[2] # "mem" => names'["mem"] = names["mem"]
          /\ op[1] = "create" => names[op[2]] = 0 /\ names'[op[2]] # 0
      BY <2>2, <2>3, CallOnName DEF OneAtWork
    <3>2. rstep = 8 => pmain \notin PastSetUp /\ names'["mem"] # 0
      BY <2>2, <3>1 DEF OneAtWork, op
    <3>3. rstep' \in 1 .. 8
      BY <2>1, <2>3
    <3> QED BY <2>1, <2>2, <2>3, <3>1, <3>2, <3>3 DEF OneAtWork, PastSetUp
  <2>4. CASE rmain' = "failed" /\ UNCHANGED <<names, objs, rstep>>
    BY <2>1, <2>4 DEF OneAtWork, PastSetUp, Numbered
  <2>5. \/ \E x : Succeeds(op) /\ Perform(op, x) /\ rmain' = (IF rstep = 8 THEN "run" ELSE "setup")
             /\ rstep' = (IF rstep = 8 THEN 1 ELSE rstep + 1)
        \/ rmain' = "failed" /\ UNCHANGED <<names, objs, rstep>>
    BY <1>2, <2>2, SameCalls DEF R!SetupStep
  <2> QED BY <2>3, <2>4, <2>5
<1> QED BY <1>1, <1>2

LEMMA PDestroyAtWork ==
    ASSUME OneAtWork, \/ PDestroyStep /\ UNCHANGED rvars
                      \/ R!PDestroyStep /\ UNCHANGED <<pvars, pruns>>
    PROVE  OneAtWork'
<1>1. PDestroy = <<"remove", "mem">> /\ "mem" \in Names
  BY DEF PDestroy, Names
<1>2. Succeeds(PDestroy) /\ Perform(PDestroy, 0)
  BY SameCalls DEF PDestroyStep, R!PDestroyStep
<1>3. Numbered' /\ names' \in [Names -> Nat]
  BY <1>1, <1>2, CallOnName DEF OneAtWork
<1>4. /\ UNCHANGED <<pstep, rstep, cstep>>
      /\ \/ pmain \in PastSetUp /\ pmain' = "done" /\ rmain' = rmain
         \/ rmain \in PastSetUp /\ rmain' = "done" /\ pmain' = pmain
  BY DEF PDestroyStep, R!PDestroyStep, cvars, pvars, rvars, R!cvars, PastSetUp
<1> QED BY <1>3, <1>4 DEF OneAtWork, PastSetUp

\* The consumer's calls are on the semaphores, or open the memory.
LEMMA ConsumerAtWork ==
    ASSUME OneAtWork, ConnectStep \/ CDestroyStep, UNCHANGED rvars
    PROVE  OneAtWork'
<1>1. UNCHANGED <<pmain, pstep, rmain, rstep>> /\ cstep \in 1 .. 4
  BY DEF OneAtWork, ConnectStep, CDestroyStep, pvars, rvars
<1>2. CASE UNCHANGED <<names, objs, cstep>>
  BY <1>1, <1>2 DEF OneAtWork, Numbered
<1>3. ASSUME NEW op \in {Connect[cstep], CDestroy[cstep]}, NEW x, Succeeds(op), Perform(op, x)
      PROVE  Numbered' /\ names' \in [Names -> Nat] /\ names'["mem"] = names["mem"]
  <2>1. op[2] \in Names /\ op[1] \in {"remove", "create", "open"}
        /\ (op[2] = "mem" => op = <<"open", "mem">>)
    BY <1>1, <1>3 DEF Connect, CDestroy, Names
  <2>2. op = <<"open", "mem">> => names'["mem"] = names["mem"]
    BY <1>3, <2>1 DEF Perform, OneAtWork
  <2> QED BY <1>3, <2>1, <2>2, CallOnName DEF OneAtWork
<1>4. Len(Connect) = 4 /\ Len(CDestroy) = 4
  BY DEF Connect, CDestroy
<1>5. cstep' \in 1 .. 4
  BY <1>1, <1>4 DEF ConnectStep, CDestroyStep
<1>6. \/ \E x : Succeeds(Connect[cstep]) /\ Perform(Connect[cstep], x)
      \/ \E x : Succeeds(CDestroy[cstep]) /\ Perform(CDestroy[cstep], x)
      \/ UNCHANGED <<names, objs, cstep>>
  BY DEF ConnectStep, CDestroyStep
<1> QED BY <1>1, <1>2, <1>3, <1>5, <1>6 DEF OneAtWork

LEMMA AtWork ==
    ASSUME OneAtWork, [RivalNext]_<<vars, rvars>>
    PROVE  OneAtWork'
<1>1. ASSUME UNCHANGED <<names, objs, pstep, rstep>>, cstep' \in {1, cstep},
             pmain' = pmain \/ pmain' \notin PastSetUp \/ pmain \in PastSetUp,
             rmain' = rmain \/ rmain' \notin PastSetUp \/ rmain \in PastSetUp
      PROVE  OneAtWork'
  BY <1>1 DEF OneAtWork, Numbered
<1>2. ASSUME Next, UNCHANGED rvars PROVE OneAtWork'
  <2>1. UNCHANGED <<rmain, rstep>>
    BY <1>2 DEF rvars
  <2>2. CASE LaunchProducer
    <3>1. UNCHANGED <<names, objs, cstep>> /\ pstep' = 1 /\ pmain' = "setup"
      BY <2>2 DEF LaunchProducer, cvars
    <3> QED BY <2>1, <3>1 DEF OneAtWork, Numbered, PastSetUp
  <2>3. CASE SetupStep \/ PDestroyStep \/ ConnectStep \/ CDestroyStep
    BY <1>2, <2>3, SetupAtWork, PDestroyAtWork, ConsumerAtWork
  <2>4. CASE LaunchConsumer \/ JoinProducers \/ JoinConsumers \/ KillProducer \/ KillConsumer
    BY <1>1, <2>1, <2>4 DEF LaunchConsumer, JoinProducers, JoinConsumers, KillProducer,
       KillConsumer, pvars, cvars, PastSetUp
  <2>5. CASE \/ \E p \in Producers : ProduceChild(p)
             \/ \E c \in Consumers : ConsumeChild(c)
    <3>1. Numbered' /\ UNCHANGED names
      BY <2>5, ChildrenOnObjects DEF OneAtWork
    <3>2. UNCHANGED <<pmain, pstep, cstep>>
      <4>1. CASE \E p \in Producers : ProduceChild(p)
        BY <4>1 DEF ProduceChild, PMove, cvars
      <4>2. CASE \E c \in Consumers : ConsumeChild(c)
        BY <4>2 DEF ConsumeChild, CMove, pvars
      <4> QED BY <2>5, <4>1, <4>2
    <3> QED BY <2>1, <3>1, <3>2 DEF OneAtWork
  <2>6. CASE Terminated
    BY <1>1, <2>1, <2>6 DEF Terminated, vars, pvars, cvars
  <2> QED BY <1>2, <2>2, <2>3, <2>4, <2>5, <2>6 DEF Next, Programs
<1>3. ASSUME RivalStep PROVE OneAtWork'
  <2>1. UNCHANGED <<pmain, pstep>> /\ UNCHANGED <<pvars, pruns>>
    BY <1>3 DEF RivalStep, pvars
  <2>2. CASE R!LaunchProducer
    <3>1. UNCHANGED <<names, objs, cstep>> /\ rstep' = 1 /\ rmain' = "setup"
      BY <2>2 DEF R!LaunchProducer, R!cvars
    <3> QED BY <2>1, <3>1 DEF OneAtWork, Numbered, PastSetUp
  <2>3. CASE R!SetupStep \/ R!PDestroyStep
    BY <2>1, <2>3, SetupAtWork, PDestroyAtWork
  <2>4. CASE R!JoinProducers \/ R!KillProducer
    BY <1>1, <2>1, <2>4 DEF R!JoinProducers, R!KillProducer, R!cvars, PastSetUp
  <2>5. CASE \E p \in Producers : R!ProduceChild(p)
    <3>1. Numbered' /\ UNCHANGED names
      BY <2>5, ChildrenOnObjects DEF OneAtWork
    <3>2. UNCHANGED <<rmain, rstep, cstep>>
      BY <2>5 DEF R!ProduceChild, R!PMove, R!cvars
    <3> QED BY <2>1, <3>1, <3>2 DEF OneAtWork
  <2> QED BY <1>3, <2>2, <2>3, <2>4, <2>5 DEF RivalStep, RivalProgram, RivalLaunch
<1>4. CASE UNCHANGED <<vars, rvars>>
  BY <1>1, <1>4 DEF vars, rvars, pvars, cvars
<1> QED BY <1>2, <1>3, <1>4 DEF RivalNext

\* The second program does nothing before somebody launches it.
LEMMA FirstAlone ==
    ASSUME RInv, [RivalNext]_<<vars, rvars>>
    PROVE  rruns' \in Nat /\ FirstOnly'
<1>1. CASE UNCHANGED rvars /\ [Next]_vars
  <2>1. UNCHANGED <<rruns, rmain, rpc>>
    BY <1>1 DEF rvars
  <2> QED BY <1>1, <2>1, Steps DEF RInv, FirstOnly
<1>2. CASE RivalStep
  <2>1. CASE R!LaunchProducer
    <3>1. rruns' = rruns + 1 /\ rruns \in Nat
      BY <2>1 DEF R!LaunchProducer, RInv
    <3>2. rruns' \in Nat /\ rruns' # 0
      BY <3>1
    <3> QED BY <3>2 DEF FirstOnly
  <2>2. CASE \/ R!SetupStep \/ R!JoinProducers \/ R!PDestroyStep \/ R!KillProducer
             \/ \E p \in Producers : R!ProduceChild(p)
    <3>1. UNCHANGED rruns
      BY <2>2 DEF R!SetupStep, R!JoinProducers, R!PDestroyStep, R!KillProducer,
         R!ProduceChild, R!PMove, R!counts
    <3>2. rmain # "idle" \/ \E p \in Producers : rpc[p] # "none"
      BY <2>2 DEF R!SetupStep, R!JoinProducers, R!PDestroyStep, R!KillProducer,
         R!ProduceChild, R!PMove
    <3> QED BY <3>1, <3>2 DEF RInv, FirstOnly
  <2> QED BY <1>2, <2>1, <2>2 DEF RivalStep, RivalProgram, RivalLaunch
<1>3. CASE UNCHANGED <<vars, rvars>>
  BY <1>1, <1>3
<1> QED BY <1>1, <1>2, <1>3 DEF RivalNext

\* However often and whenever the producer is launched, and whatever is
\* killed, one launch at a time gets at the memory; and as long as nobody has
\* started a second producer beside the first one, children of two programs
\* that nobody kills, when they share the memory, share the semaphores.
THEOREM SharedBuffer == RivalSpec => []BufferGuarded
<1>1. RivalInit => RInv
  <2> SUFFICES ASSUME RivalInit PROVE RInv
    OBVIOUS
  <2>1. FirstOnly /\ rruns \in Nat
    BY Initially DEF RivalInit, FirstOnly
  <2>2. /\ objs = <<>> /\ names = [nm \in Names |-> 0] /\ pmain = "idle" /\ rmain = "idle"
        /\ pstep = 1 /\ rstep = 1 /\ cstep = 1
    BY DEF RivalInit, Init
  <2>3. Numbered
    BY <2>2 DEF Numbered
  <2>4. OneAtWork
    BY <2>2, <2>3 DEF OneAtWork, PastSetUp
  <2> QED BY <2>1, <2>4 DEF RInv
<1>2. RInv /\ [RivalNext]_<<vars, rvars>> => RInv'
  BY AtWork, FirstAlone DEF RInv
<1>3. RInv => BufferGuarded
  BY DEF RInv, FirstOnly, OneAtWork, IInv, InStep, Same, SameBuffer, BufferGuarded
<1> QED BY <1>1, <1>2, <1>3, PTL DEF RivalSpec

-----------------------------------------------------------------------------
(* Launched in order. *)

\* While no consumer has opened its buffer a producer cannot be joined.
LEMMA NotJoined ==
    ASSUME IInv, plan.kills = 0, JoinProducers, ~Opened
    PROVE  names["filled"] = 0
<1>1. IInv' /\ UNCHANGED <<names, phandle, cmain, cstep, chandle, plan>> /\ pmain' = "destroy"
  BY JoinProducersKeeps DEF JoinProducers, cvars, counts
<1>2. Filled'
  BY <1>1 DEF IInv, InStep
<1> QED BY <1>1, <1>2 DEF Filled, SetUp, Opened

\* The calls on the names, launched in order.
LEMMA SetupOrdered ==
    ASSUME IInv, IInv', Undisturbed, Ordered, SetupStep
    PROVE  Ordered'
<1>1. /\ pmain = "setup" /\ cmain \in Ended /\ cruns < pruns /\ cruns + 1 = pruns
      /\ UNCHANGED <<cmain, cstep, pruns, cruns, plan>> /\ pstep \in 1 .. 8
      /\ pruns \in Nat /\ cruns \in Nat
  BY DEF SetupStep, Ordered, cvars, counts, IInv, TypeOK
<1>2. pmain' # "failed"
  BY <1>1 DEF IInv, Unkilled, Undisturbed
<1>3. /\ names \in [Names -> 0 .. Len(objs)] /\ Len(objs) \in Nat
      /\ {"filled", "empty", "cs_prod", "cs_cons", "mem"} \subseteq Names
  BY DEF IInv, TypeOK, Names
<1>4. /\ pmain' = IF pstep = 8 THEN "run" ELSE "setup"
      /\ pstep' = IF pstep = 8 THEN 1 ELSE pstep + 1
      /\ Perform(Setup[pstep], Fresh[Setup[pstep][2]])
  BY <1>2 DEF SetupStep, Setup
<1>5. /\ pstep = 4 => names'["cs_cons"] = 0
      /\ pstep = 5 => names'["filled"] # 0
      /\ pstep = 6 => names'["empty"] # 0
      /\ pstep = 7 => names'["cs_prod"] # 0
      /\ pstep = 8 => names'["mem"] # 0
  <2>1. CASE pstep = 4
    <3>1. names' = [names EXCEPT !["cs_cons"] = 0]
      BY <1>4, <2>1 DEF Perform, Setup
    <3> QED BY <1>3, <2>1, <3>1
  <2>2. ASSUME NEW nm \in Names, Setup[pstep] = <<"create", nm>> PROVE names'[nm] # 0
    <3>1. names' = [names EXCEPT ![nm] = Len(objs) + 1]
      BY <1>4, <2>2 DEF Perform
    <3> QED BY <1>3, <3>1
  <2>3. /\ pstep = 5 => Setup[pstep] = <<"create", "filled">>
        /\ pstep = 6 => Setup[pstep] = <<"create", "empty">>
        /\ pstep = 7 => Setup[pstep] = <<"create", "cs_prod">>
        /\ pstep = 8 => Setup[pstep] = <<"create", "mem">>
    BY DEF Setup
  <2> QED BY <1>3, <2>1, <2>2, <2>3
<1>6. /\ pstep > 4 => names'["cs_cons"] = names["cs_cons"]
      /\ pstep > 5 => names'["filled"] = names["filled"]
      /\ pstep > 6 => names'["empty"] = names["empty"]
      /\ pstep > 7 => names'["cs_prod"] = names["cs_prod"]
  <2>1. ASSUME NEW nm \in Names, Setup[pstep][2] # nm PROVE names'[nm] = names[nm]
    BY <1>3, <1>4, <2>1 DEF Perform
  <2>2. /\ pstep > 4 => Setup[pstep][2] # "cs_cons"
        /\ pstep > 5 => Setup[pstep][2] # "filled"
        /\ pstep > 6 => Setup[pstep][2] # "empty"
        /\ pstep > 7 => Setup[pstep][2] # "cs_prod"
    BY <1>1 DEF Setup
  <2> QED BY <1>3, <2>1, <2>2
<1>7. /\ pstep > 4 => names["cs_cons"] = 0
      /\ pstep > 5 => names["filled"] # 0
      /\ pstep > 6 => names["empty"] # 0
      /\ pstep > 7 => names["cs_prod"] # 0
  BY <1>1 DEF Ordered, Present
<1>8. /\ pstep > 3 => names'["cs_cons"] = 0
      /\ pstep > 4 => names'["filled"] # 0
      /\ pstep > 5 => names'["empty"] # 0
      /\ pstep > 6 => names'["cs_prod"] # 0
      /\ pstep = 8 => names'["mem"] # 0
  BY <1>1, <1>5, <1>6, <1>7
<1> QED BY <1>1, <1>4, <1>8 DEF Ordered, Ready, Present, Ended

LEMMA ConnectOrdered ==
    ASSUME IInv, IInv', Undisturbed, Ordered, ConnectStep
    PROVE  Ordered'
<1>1. /\ cmain = "connect" /\ Ready /\ cruns = pruns
      /\ UNCHANGED <<pmain, pstep, pruns, cruns, plan>> /\ cstep \in 1 .. 4
      /\ pruns \in Nat /\ cruns \in Nat
  BY DEF ConnectStep, Ordered, pvars, counts, IInv, TypeOK, Ended
<1>2. /\ names \in [Names -> 0 .. Len(objs)] /\ Len(objs) \in Nat
      /\ {"filled", "empty", "cs_prod", "cs_cons", "mem"} \subseteq Names
  BY DEF IInv, TypeOK, Names
<1>3. /\ names["filled"] # 0 /\ names["empty"] # 0 /\ names["cs_prod"] # 0 /\ names["mem"] # 0
      /\ cstep < 4 => names["cs_cons"] = 0
      /\ cstep = 4 => names["cs_cons"] # 0
  BY <1>1 DEF Ordered, Ready, Present
<1>4. Succeeds(Connect[cstep])
  <2>1. CASE cstep = 1
    BY <1>3, <2>1 DEF Connect, Succeeds
  <2>2. CASE cstep = 2
    BY <1>3, <2>2 DEF Connect, Succeeds
  <2>3. CASE cstep = 3
    BY <1>3, <2>3 DEF Connect, Succeeds
  <2>4. CASE cstep = 4
    BY <1>3, <2>4 DEF Connect, Succeeds
  <2> QED BY <1>1, <2>1, <2>2, <2>3, <2>4
<1>5. /\ cmain' = IF cstep = 4 THEN "run" ELSE "connect"
      /\ cstep' = IF cstep = 4 THEN 1 ELSE cstep + 1
      /\ Perform(Connect[cstep], Fresh[Connect[cstep][2]])
  BY <1>4 DEF ConnectStep, Connect
<1>6. /\ cstep = 3 => names'["cs_cons"] # 0
      /\ cstep # 3 => names'["cs_cons"] = names["cs_cons"]
      /\ \A nm \in Names \ {"cs_cons"} : names'[nm] = names[nm]
  <2>1. CASE cstep = 3
    BY <1>2, <1>5, <2>1 DEF Perform, Connect
  <2>2. CASE cstep # 3
    <3> DEFINE nm == Connect[cstep][2]
    <3>1. Connect[cstep][1] = "open"
      BY <1>1, <2>2 DEF Connect
    <3> HIDE DEF nm
    <3>2. names' = [names EXCEPT ![nm] = names[nm]]
      BY <1>5, <3>1 DEF Perform, nm
    <3>3. names' = names
      BY <1>2, <3>2
    <3> QED BY <2>2, <3>3
  <2> QED BY <2>1, <2>2
<1>7. /\ names'["filled"] # 0 /\ names'["empty"] # 0 /\ names'["cs_prod"] # 0
      /\ names'["mem"] # 0
  BY <1>2, <1>3, <1>6
<1>8. IF cstep < 3 THEN names'["cs_cons"] = 0 ELSE names'["cs_cons"] # 0
  BY <1>1, <1>3, <1>6
<1> QED BY <1>1, <1>5, <1>7, <1>8 DEF Ordered, Ready, Present, Ended

LEMMA CDestroyOrdered ==
    ASSUME IInv, Undisturbed, Ordered, CDestroyStep
    PROVE  Ordered'
<1>1. /\ cmain = "destroy" /\ cruns = pruns /\ pmain # "setup"
      /\ UNCHANGED <<pmain, pstep, pruns, cruns, plan>> /\ cstep \in 1 .. 4
      /\ pruns \in Nat /\ cruns \in Nat
  BY DEF CDestroyStep, Ordered, pvars, counts, IInv, TypeOK, Ended
<1>2. /\ names \in [Names -> 0 .. Len(objs)] /\ Len(objs) \in Nat
      /\ {"filled", "empty", "cs_prod", "cs_cons", "mem"} \subseteq Names
  BY DEF IInv, TypeOK, Names
<1>3. /\ cstep = 1 => names["filled"] # 0
      /\ cstep < 3 => names["empty"] # 0
      /\ cstep < 4 => names["cs_prod"] # 0
      /\ names["cs_cons"] # 0
  BY <1>1 DEF Ordered, Present
<1>4. Succeeds(CDestroy[cstep])
  <2>1. CASE cstep = 1
    BY <1>3, <2>1 DEF CDestroy, Succeeds
  <2>2. CASE cstep = 2
    BY <1>3, <2>2 DEF CDestroy, Succeeds
  <2>3. CASE cstep = 3
    BY <1>3, <2>3 DEF CDestroy, Succeeds
  <2>4. CASE cstep = 4
    BY <1>3, <2>4 DEF CDestroy, Succeeds
  <2> QED BY <1>1, <2>1, <2>2, <2>3, <2>4
<1>5. /\ cmain' = IF cstep = 4 THEN "done" ELSE "destroy"
      /\ cstep' = IF cstep = 4 THEN 1 ELSE cstep + 1
      /\ Perform(CDestroy[cstep], Fresh[CDestroy[cstep][2]])
  BY <1>4 DEF CDestroyStep, CDestroy
<1>6. /\ cstep = 1 => names'["empty"] = names["empty"]
      /\ cstep < 3 => names'["cs_prod"] = names["cs_prod"]
      /\ cstep < 4 => names'["cs_cons"] = names["cs_cons"]
  BY <1>1, <1>2, <1>5 DEF Perform, CDestroy
<1>7. /\ cstep = 1 => names'["empty"] # 0
      /\ cstep < 3 => names'["cs_prod"] # 0
      /\ cstep < 4 => names'["cs_cons"] # 0
  BY <1>1, <1>3, <1>6
<1> QED BY <1>1, <1>5, <1>7 DEF Ordered, Present, Ended

\* The steps of a program launched in order.
LEMMA OrderedKeeps ==
    ASSUME IInv, IInv', Undisturbed, Ordered, Next
    PROVE  Ordered'
<1>0. /\ pruns \in Nat /\ cruns \in Nat /\ plan.kills = 0 /\ Orderly /\ pmain \notin {"failed", "killed"}
      /\ cstep \in 1 .. 4
  BY DEF IInv, TypeOK, Undisturbed, Unkilled
<1>1. CASE LaunchProducer
  <2>1. /\ pruns = cruns /\ cmain \in Ended /\ pmain' = "setup" /\ pstep' = 1
        /\ pruns' = pruns + 1 /\ UNCHANGED <<names, cmain, cstep, cruns>>
    BY <1>0, <1>1 DEF LaunchProducer, Ended, cvars
  <2> QED BY <1>0, <2>1 DEF Ordered, Ended
<1>2. CASE LaunchConsumer
  <2>1. /\ cruns < pruns /\ pmain # "setup" /\ cmain' = "connect" /\ cstep' = 1
        /\ cruns' = cruns + 1 /\ UNCHANGED <<names, pmain, pstep, pruns>>
    BY <1>0, <1>2 DEF LaunchConsumer, pvars
  <2>2. Ready /\ names["cs_cons"] = 0 /\ cruns + 1 = pruns
    BY <1>0, <2>1 DEF Ordered
  <2>3. Ready'
    BY <2>1, <2>2 DEF Ready, Present
  <2> QED BY <1>0, <2>1, <2>2, <2>3 DEF Ordered, Ready
<1>3. CASE JoinProducers
  <2>1. UNCHANGED <<names, cmain, cstep, pruns, cruns>> /\ pmain = "run" /\ pmain' = "destroy"
    BY <1>3 DEF JoinProducers, cvars, counts
  <2>2. cmain \notin {"run", "destroy"} => names["filled"] = 0
    BY <1>0, <1>3, NotJoined DEF Opened
  <2>3. cmain # "connect" /\ ~(cruns < pruns)
    BY <1>0, <2>1, <2>2 DEF Ordered, Ready, Present, Ended
  <2> QED BY <1>0, <2>1, <2>3 DEF Ordered, Present
<1>4. CASE PDestroyStep
  <2>1. /\ UNCHANGED <<cmain, cstep, pruns, cruns>> /\ pmain = "destroy" /\ pmain' = "done"
        /\ names' = [names EXCEPT !["mem"] = 0]
    BY <1>4 DEF PDestroyStep, PDestroy, Perform, cvars, counts
  <2>2. \A nm \in Names \ {"mem"} : names'[nm] = names[nm]
    BY <2>1 DEF IInv, TypeOK
  <2>3. \A nm \in {"filled", "empty", "cs_prod", "cs_cons"} : names'[nm] = names[nm]
    BY <2>2 DEF Names
  <2> QED BY <1>0, <2>1, <2>3 DEF Ordered, Ready, Present
<1>5. CASE JoinConsumers
  <2>1. /\ UNCHANGED <<names, cstep, pmain, pstep, pruns, cruns>>
        /\ cmain = "run" /\ cmain' = "destroy"
    BY <1>5 DEF JoinConsumers, pvars, counts
  <2> QED BY <1>0, <2>1 DEF Ordered, Ready, Present, Ended
<1>6. CASE SetupStep \/ ConnectStep \/ CDestroyStep
  BY <1>6, SetupOrdered, ConnectOrdered, CDestroyOrdered
<1>7. CASE UNCHANGED <<names, cmain, cstep, pmain, pstep, pruns, cruns>>
  BY <1>7 DEF Ordered, Ready, Present
<1>8. ASSUME NEW p \in Producers, ProduceChild(p)
      PROVE  UNCHANGED <<names, cmain, cstep, pmain, pstep, pruns, cruns>>
  BY <1>8 DEF ProduceChild, PMove, cvars, counts
<1>9. ASSUME NEW c \in Consumers, ConsumeChild(c)
      PROVE  UNCHANGED <<names, cmain, cstep, pmain, pstep, pruns, cruns>>
  BY <1>9 DEF ConsumeChild, CMove, pvars, counts
<1>10. Terminated => UNCHANGED <<names, cmain, cstep, pmain, pstep, pruns, cruns>>
  BY DEF Terminated, vars, pvars, cvars, counts
<1>11. ~KillProducer /\ ~KillConsumer
  BY <1>0 DEF KillProducer, KillConsumer, MayKill, IInv, TypeOK
<1> QED BY <1>1, <1>2, <1>3, <1>4, <1>5, <1>6, <1>7, <1>8, <1>9, <1>10, <1>11 DEF Next, Programs

\* Launched in order and not killed, no call of either program fails.
THEOREM NoFailure == Spec => []NoneFails
<1>1. Init => OInv
  <2>1. Init => Ordered
    BY DEF Init, Ordered, Ended
  <2> QED BY <2>1, Initially DEF OInv
<1>2. OInv /\ [Next]_vars => OInv'
  <2> SUFFICES ASSUME OInv, [Next]_vars PROVE OInv'
    OBVIOUS
  <2>1. IInv /\ IInv'
    BY Steps DEF OInv
  <2>2. ASSUME Undisturbed' PROVE Ordered'
    <3>1. CASE UNCHANGED vars
      BY <2>2, <3>1 DEF OInv, vars, pvars, cvars, counts, Undisturbed, Orderly, Ordered,
                        Ready, Present
    <3>2. CASE Next
      <4>1. UNCHANGED plan
        BY <3>2 DEF Next, Programs, LaunchProducer, SetupStep, JoinProducers, PDestroyStep,
                    LaunchConsumer, ConnectStep, JoinConsumers, CDestroyStep, KillProducer,
                    KillConsumer, Terminated, ProduceChild, PMove, ConsumeChild, CMove, vars, counts
      <4>2. Undisturbed
        BY <2>2, <4>1 DEF Undisturbed, Orderly
      <4> QED BY <2>1, <3>2, <4>2, OrderedKeeps DEF OInv
    <3> QED BY <3>1, <3>2
  <2> QED BY <2>1, <2>2 DEF OInv
<1>3. OInv => NoneFails
  BY DEF OInv, IInv, Ordered, Unkilled, NoneFails, Undisturbed
<1> QED BY <1>1, <1>2, <1>3, PTL DEF Spec

-----------------------------------------------------------------------------
(* Every memory object implements a FIFO: what relates the semaphores, the *)
(* indexes and the content of the memory.                                  *)

\* The plans the refinement is about: see ImplementsQueue.
Covered == Orderly \/ plan.kills = 0

\* What each object is.  Launched memory never had more taken than stored.
Slots == 0 .. BUFFER_SIZE - 1
Values == Producers \X (1 .. NUM_OPERATIONS)
Cells == Values \cup {<<>>}
Memory == [buf : [Slots -> Cells], read_index : Slots, write_index : Slots,
           stored : Seq(Values), taken : Seq(Cells)]
Waiting(m) == Len(m.stored) - Len(m.taken)
SoundMemory(m) == m \in Memory /\ Len(m.taken) <= Len(m.stored)

InUse(nm) == {names[nm], phandle[nm], chandle[nm]} \ {0}

Kinds == \A nm \in Names : \A o \in InUse(nm) :
    IF nm = "mem" THEN SoundMemory(objs[o]) ELSE objs[o] \in [value : Nat]

\* No object is two of them.
Distinct == \A x, y \in Names : x # y => InUse(x) \cap InUse(y) = {}

\* The objects that launches under way have still to create.
PToCreate == CASE pmain = "setup" /\ pstep <= 5 -> 4
               [] pmain = "setup" /\ pstep > 5 -> 9 - pstep
               [] OTHER -> 0
CToCreate == IF cmain = "connect" /\ cstep <= 3 THEN 1 ELSE 0
Accounted == /\ Len(objs) + PToCreate + CToCreate <= 4 * pruns + cruns
            /\ pruns <= plan.runs /\ cruns <= plan.runs

\* A name that only the producer gives denotes what it created last.
Current == \A nm \in {"filled", "empty", "mem"} : names[nm] \in {0, phandle[nm]}

Val(o) == objs[o].value

\* The set-up of the producer, before it forks.
Prepared ==
    /\ pmain = "setup" =>
          /\ Orderly => cmain \in Ended
          /\ pstep \in 2 .. 5 => names["filled"] = 0
          /\ pstep = 5 => names["cs_cons"] = 0
          /\ pstep > 5 => /\ phandle["filled"] # 0 /\ Val(phandle["filled"]) = 0
                          /\ cmain \in {"run", "destroy"} => chandle["filled"] # phandle["filled"]
          /\ pstep > 6 => /\ phandle["empty"] # 0 /\ Val(phandle["empty"]) = BUFFER_SIZE
                          /\ cmain \in {"run", "destroy"} => chandle["empty"] # phandle["empty"]
          /\ pstep > 7 => phandle["cs_prod"] # 0 /\ Val(phandle["cs_prod"]) = 1
    /\ pmain = "run" => \A nm \in Names \ {"cs_cons"} : phandle[nm] # 0

\* The connecting consumer: it has opened what the names still denote.
Joining == cmain = "connect" =>
    /\ cstep > 1 => /\ names["filled"] # 0 /\ chandle["filled"] = names["filled"]
                    /\ pmain = "setup" => pstep > 5
    /\ cstep > 2 => /\ chandle["empty"] # 0 /\ chandle["empty"] = phandle["empty"]
                    /\ pmain = "setup" => pstep > 6
    /\ cstep > 3 => /\ names["cs_cons"] # 0 /\ chandle["cs_cons"] = names["cs_cons"]
                    /\ Val(chandle["cs_cons"]) = 1

\* Where a consumer program has run, cs_cons keeps the next one out as long
\* as filled may be opened.
Claimed ==
    /\ /\ cmain = "run" \/ (cmain = "destroy" /\ cstep = 1)
       /\ chandle["filled"] = phandle["filled"]
       => names["filled"] = 0 \/ names["cs_cons"] # 0
    /\ cmain = "destroy" /\ cstep > 1 => names["filled"] = 0 \/ names["cs_cons"] = 0

\* Two programs that run share all or nothing.
Together == cmain = "run" =>
    /\ \A nm \in Names \ {"cs_prod"} : chandle[nm] # 0
    /\ pmain # "setup" =>
          /\ (chandle["mem"] = phandle["mem"]) <=> (chandle["filled"] = phandle["filled"])
          /\ (chandle["mem"] = phandle["mem"]) <=> (chandle["empty"] = phandle["empty"])

\* The children of the plan at some positions, while their program runs.
Putting(S) == IF pmain = "run" THEN Count(plan.producers, ppc, S) ELSE 0
Taking(S) == IF cmain = "run" THEN Count(plan.consumers, cpc, S) ELSE 0

\* What the producers left for a consumer program that may yet connect.
Free == /\ names["filled"] # 0 /\ names["mem"] # 0
        /\ names["cs_cons"] = 0 \/ (cmain = "connect" /\ cstep = 4)

Left == Free =>
    /\ Val(phandle["filled"]) + Putting({"advance", "post_cs", "post_filled"})
           <= Waiting(objs[phandle["mem"]])
    /\ Val(phandle["filled"]) > 0 \/ pmain = "run" =>
           objs[phandle["mem"]].read_index = Len(objs[phandle["mem"]].taken) % BUFFER_SIZE

\* The consumers: every value that waits has a token of filled, or a child
\* that has taken one or will post one.  There may be fewer.
Posting == IF chandle["filled"] = phandle["filled"]
           THEN Putting({"advance", "post_cs", "post_filled"}) ELSE 0

Active == \/ Val(chandle["filled"]) > 0
          \/ \E c \in plan.consumers : cpc[c] \in CWorking \ {"wait_filled"}
          \/ pmain = "run" /\ chandle["filled"] = phandle["filled"]

CBalance == cmain = "run" =>
    Val(chandle["filled"]) + Taking({"wait_cs", "read"}) + Posting <= Waiting(objs[chandle["mem"]])

COne == cmain = "run" =>
    Val(chandle["cs_cons"]) + Taking({"read", "advance", "post_cs"}) <= 1

ReadAt == cmain = "run" /\ Active =>
    LET m == objs[chandle["mem"]] IN
    /\ (\A c \in plan.consumers : cpc[c] # "advance") =>
          m.read_index = Len(m.taken) % BUFFER_SIZE
    /\ (\E c \in plan.consumers : cpc[c] = "advance") =>
          Wrapped(m.read_index) = Len(m.taken) % BUFFER_SIZE

\* The producers, likewise.
Returning == IF chandle["empty"] = phandle["empty"]
             THEN Taking({"advance", "post_cs", "post_empty"}) ELSE 0

PBalance == pmain = "run" =>
    Val(phandle["empty"]) + Putting({"wait_cs", "write"}) + Returning
        <= BUFFER_SIZE - Waiting(objs[phandle["mem"]])

POne == pmain = "run" =>
    Val(phandle["cs_prod"]) + Putting({"write", "advance", "post_cs"}) <= 1

WriteAt == pmain = "run" =>
    LET m == objs[phandle["mem"]] IN
    /\ (\A p \in plan.producers : ppc[p] # "advance") =>
          m.write_index = Len(m.stored) % BUFFER_SIZE
    /\ (\E p \in plan.producers : ppc[p] = "advance") =>
          Wrapped(m.write_index) = Len(m.stored) % BUFFER_SIZE

QInv == /\ Covered /\ Kinds /\ Distinct /\ Accounted /\ Current
        /\ Prepared /\ Joining /\ Claimed /\ Together
        /\ Left /\ CBalance /\ COne /\ ReadAt /\ PBalance /\ POne /\ WriteAt

-----------------------------------------------------------------------------
\* How a number changes, and a count when a child moves.
Shift(new, old, d) == d \in Int /\ new = old + d
Change(from, to, S) == (IF to \in S THEN 1 ELSE 0) - (IF from \in S THEN 1 ELSE 0)

\* What the type invariant and the assumption say of the parts.
LEMMA Parts ==
    ASSUME IInv
    PROVE  /\ BUFFER_SIZE \in Nat \ {0} /\ NUM_OPERATIONS \in Nat \ {0}
           /\ IsFiniteSet(plan.producers) /\ IsFiniteSet(plan.consumers)
           /\ plan.producers \subseteq Producers /\ plan.consumers \subseteq Consumers
           /\ OPS_PER_PRODUCER \in 1 .. NUM_OPERATIONS
           /\ Len(objs) \in Nat /\ pruns \in Nat /\ cruns \in Nat
           /\ pstep \in 1 .. 8 /\ cstep \in 1 .. 4 /\ plan \in Plans
           /\ names \in [Names -> 0 .. Len(objs)]
           /\ phandle \in [Names -> 0 .. Len(objs)] /\ chandle \in [Names -> 0 .. Len(objs)]
<1>1. plan \in Plans /\ Len(objs) \in Nat /\ pruns \in Nat /\ cruns \in Nat
      /\ pstep \in 1 .. 8 /\ cstep \in 1 .. 4 /\ names \in [Names -> 0 .. Len(objs)]
      /\ phandle \in [Names -> 0 .. Len(objs)] /\ chandle \in [Names -> 0 .. Len(objs)]
  BY DEF IInv, TypeOK
<1>2. /\ BUFFER_SIZE \in Nat \ {0} /\ NUM_OPERATIONS > BUFFER_SIZE /\ NUM_OPERATIONS \in Nat
      /\ IsFiniteSet(plan.producers) /\ IsFiniteSet(plan.consumers)
  BY <1>1, ShmAssumption
<1>3. plan.producers \subseteq Producers /\ plan.consumers \subseteq Consumers
  BY <1>1 DEF Producers, Consumers
<1>4. OPS_PER_PRODUCER \in 1 .. NUM_OPERATIONS
  <2> DEFINE n == Cardinality(plan.producers)
             q == OPS_PER_PRODUCER
  <2>1. q \in Nat \ {0} /\ n * q = NUM_OPERATIONS
    BY <1>1, Parameters
  <2>2. n \in Nat
    BY <1>2, FS_CardinalityType
  <2> HIDE DEF n, q
  <2>3. n # 0
    BY <1>2, <2>1, SMT
  <2>4. n * q >= q
    BY <2>1, <2>2, <2>3, SMT
  <2>5. q \in 1 .. NUM_OPERATIONS
    BY <1>2, <2>1, <2>4
  <2> QED BY <2>5 DEF q
<1>5. NUM_OPERATIONS \in Nat \ {0}
  BY <1>2
<1> QED BY <1>1, <1>2, <1>3, <1>4, <1>5

\* The counts are natural numbers.
LEMMA CountsNat ==
    ASSUME IInv, NEW S
    PROVE  Taking(S) \in Nat /\ Putting(S) \in Nat
<1>1. IsFiniteSet(plan.producers) /\ IsFiniteSet(plan.consumers)
  BY Parts
<1>2. Count(plan.consumers, cpc, S) \in Nat /\ Count(plan.producers, ppc, S) \in Nat
  BY <1>1, CountType
<1> QED BY <1>2 DEF Taking, Putting

LEMMA CountsNatNext ==
    ASSUME IInv', NEW S
    PROVE  Taking(S)' \in Nat /\ Putting(S)' \in Nat
<1> DEFINE all == plan'.producers
           f == ppc'
           every == plan'.consumers
           g == cpc'
<1>1. IsFiniteSet(all) /\ IsFiniteSet(every)
  BY ShmAssumption DEF IInv, TypeOK
<1> HIDE DEF all, f, every, g
<1>2. Count(all, f, S) \in Nat /\ Count(every, g, S) \in Nat
  BY <1>1, CountType
<1> QED BY <1>2 DEF Taking, Putting, all, f, every, g

\* What an object in use is.
LEMMA SemaphoreInUse ==
    ASSUME IInv, QInv, NEW nm \in Names \ {"mem"}, NEW o \in InUse(nm)
    PROVE  o \in 1 .. Len(objs) /\ objs[o] \in [value : Nat] /\ Val(o) \in Nat
<1>1. o \in 1 .. Len(objs)
  BY Parts DEF InUse
<1>2. objs[o] \in [value : Nat]
  BY DEF QInv, Kinds
<1> QED BY <1>1, <1>2 DEF Val

LEMMA MemoryInUse ==
    ASSUME IInv, QInv, NEW o \in InUse("mem")
    PROVE  /\ o \in 1 .. Len(objs) /\ objs[o] \in Memory
           /\ Len(objs[o].stored) \in Nat /\ Len(objs[o].taken) \in Nat
           /\ Len(objs[o].taken) <= Len(objs[o].stored) /\ Waiting(objs[o]) \in Nat
<1>0. "mem" \in Names
  BY DEF Names
<1>1. o \in 1 .. Len(objs)
  BY <1>0, Parts DEF InUse
<1>2. objs[o] \in Memory /\ Len(objs[o].taken) <= Len(objs[o].stored)
  BY <1>0 DEF QInv, Kinds, SoundMemory
<1>3. objs[o].stored \in Seq(Values) /\ objs[o].taken \in Seq(Cells)
  BY <1>2 DEF Memory
<1>4. Len(objs[o].stored) \in Nat /\ Len(objs[o].taken) \in Nat
  BY <1>3
<1> QED BY <1>1, <1>2, <1>4 DEF Waiting

LEMMA NotBoth ==
    ASSUME QInv, NEW x \in Names, NEW y \in Names, x # y, NEW o \in InUse(x)
    PROVE  o \notin InUse(y)
BY DEF QInv, Distinct

\* The objects of the producers, and of the consumers, that run.
LEMMA ProducersHold ==
    ASSUME IInv, QInv, pmain = "run", NEW nm \in Names \ {"cs_cons"}
    PROVE  phandle[nm] \in InUse(nm)
BY DEF QInv, Prepared, InUse

LEMMA ConsumersHold ==
    ASSUME IInv, QInv, cmain = "run", NEW nm \in Names \ {"cs_prod"}
    PROVE  chandle[nm] \in InUse(nm)
BY DEF QInv, Together, InUse

\* Smaller counts keep a bound.
LEMMA LessSum ==
    ASSUME NEW v \in Nat, NEW a \in Nat, NEW b \in Nat, NEW c \in Nat, NEW d \in Nat,
           NEW w \in Int, c <= a, d <= b, v + a + b <= w
    PROVE  v + c + d <= w
OBVIOUS

LEMMA LessSum2 ==
    ASSUME NEW v \in Nat, NEW a \in Nat, NEW c \in Nat, NEW w \in Int, c <= a, v + a <= w
    PROVE  v + c <= w
OBVIOUS

\* A name that the producer gives.
LEMMA FreeHandles ==
    ASSUME IInv, QInv, Free
    PROVE  /\ phandle["filled"] \in InUse("filled") /\ names["filled"] = phandle["filled"]
           /\ phandle["mem"] \in InUse("mem") /\ names["mem"] = phandle["mem"]
<1>1. names["filled"] = phandle["filled"] /\ names["mem"] = phandle["mem"]
  BY DEF QInv, Current, Free
<1> QED BY <1>1 DEF Free, InUse

\* The next slot is the next position's.
LEMMA WrappedType ==
    ASSUME NEW i \in Slots, BUFFER_SIZE \in Nat \ {0}
    PROVE  Wrapped(i) \in Slots
<1>1. i \in 0 .. BUFFER_SIZE - 1 /\ BUFFER_SIZE \in Nat \ {0}
  BY DEF Slots
<1>2. (IF i + 1 = BUFFER_SIZE THEN 0 ELSE i + 1) \in 0 .. BUFFER_SIZE - 1
  BY <1>1
<1> QED BY <1>2 DEF Wrapped, Slots

LEMMA WrappedNext ==
    ASSUME BUFFER_SIZE \in Nat \ {0}, NEW n \in Int
    PROVE  Wrapped(n % BUFFER_SIZE) = (n + 1) % BUFFER_SIZE
<1> DEFINE i == n % BUFFER_SIZE
<1>1. i \in 0 .. BUFFER_SIZE - 1
  BY ModDef
<1>2. (i + 1) % BUFFER_SIZE = (n + 1) % BUFFER_SIZE
  BY ModAdvance
<1> HIDE DEF i
<1>3. CASE i + 1 = BUFFER_SIZE
  <2>1. \A k \in Int : k = BUFFER_SIZE => k % BUFFER_SIZE = 0
    <3> SUFFICES ASSUME NEW k \in Int, k = BUFFER_SIZE PROVE k % BUFFER_SIZE = 0
      OBVIOUS
    <3> DEFINE r == k % BUFFER_SIZE
               q == k \div BUFFER_SIZE
    <3>1. r \in 0 .. BUFFER_SIZE - 1 /\ q \in Int /\ k = q * BUFFER_SIZE + r
      BY ModDef
    <3> HIDE DEF r, q
    <3>2. 1 * BUFFER_SIZE + 0 = q * BUFFER_SIZE + r
      BY <3>1
    <3>3. r \in 0 .. BUFFER_SIZE - 1
      BY <3>1
    <3>4. 0 \in 0 .. BUFFER_SIZE - 1 /\ 1 \in Int /\ q \in Int
      BY <3>1
    <3>5. 0 = r
      BY <3>2, <3>3, <3>4, DivisionUnique
    <3> QED BY <3>5 DEF r
  <2>2. (i + 1) % BUFFER_SIZE = 0
    BY <1>1, <1>3, <2>1
  <2> QED BY <1>2, <1>3, <2>2 DEF Wrapped, i
<1>4. CASE i + 1 # BUFFER_SIZE
  <2>1. i + 1 \in 0 .. BUFFER_SIZE - 1
    BY <1>1, <1>4
  <2>2. (i + 1) % BUFFER_SIZE = i + 1
    BY <2>1, ModSmall
  <2> QED BY <1>2, <1>4, <2>2 DEF Wrapped, i
<1> QED BY <1>3, <1>4

-----------------------------------------------------------------------------
(* Steps of the main processes: what they leave of the balance.            *)

\* No object changes; there may be a new one.
Kept == /\ Len(objs') \in Nat /\ Len(objs) <= Len(objs')
        /\ \A i \in 1 .. Len(objs) : objs'[i] = objs[i]

\* A program that runs after the step ran before it, with the same children.
PKept == pmain' = "run" => pmain = "run" /\ UNCHANGED <<phandle, ppc>>
CKept == cmain' = "run" => cmain = "run" /\ UNCHANGED <<chandle, cpc>>

LEMMA FewerChildren ==
    ASSUME IInv, UNCHANGED plan, NEW S
    PROVE  /\ PKept => /\ Putting(S)' <= Putting(S)
                       /\ pmain' = "run" => Putting(S)' = Putting(S)
           /\ CKept => /\ Taking(S)' <= Taking(S)
                       /\ cmain' = "run" => Taking(S)' = Taking(S)
<1>1. Putting(S) \in Nat /\ Taking(S) \in Nat
  BY CountsNat
<1>2. PKept /\ pmain' = "run" => Putting(S)' = Putting(S)
  BY DEF PKept, Putting, Count
<1>3. CKept /\ cmain' = "run" => Taking(S)' = Taking(S)
  BY DEF CKept, Taking, Count
<1>4. pmain' # "run" => Putting(S)' = 0
  BY DEF Putting
<1>5. cmain' # "run" => Taking(S)' = 0
  BY DEF Taking
<1> QED BY <1>1, <1>2, <1>3, <1>4, <1>5

\* The consumers' side; the producers may start on other semaphores.
LEMMA KeptConsumers ==
    ASSUME IInv, QInv, IInv', UNCHANGED plan, Kept, CKept,
           PKept \/ chandle'["filled"] # phandle'["filled"]
    PROVE  CBalance' /\ COne' /\ ReadAt'
<1> SUFFICES ASSUME cmain' = "run"
             PROVE  CBalance' /\ COne' /\ ReadAt'
  BY DEF CBalance, COne, ReadAt
<1>1. cmain = "run" /\ chandle' = chandle /\ cpc' = cpc /\ plan' = plan
  BY DEF CKept
<1>2. /\ "filled" \in Names \ {"cs_prod", "mem"} /\ "cs_cons" \in Names \ {"cs_prod", "mem"}
      /\ "mem" \in Names \ {"cs_prod"}
  BY DEF Names
<1>3. /\ chandle["filled"] \in 1 .. Len(objs) /\ Val(chandle["filled"]) \in Nat
      /\ chandle["cs_cons"] \in 1 .. Len(objs)
      /\ chandle["mem"] \in 1 .. Len(objs) /\ Waiting(objs[chandle["mem"]]) \in Nat
  BY <1>1, <1>2, ConsumersHold, SemaphoreInUse, MemoryInUse
<1>4. /\ Val(chandle["filled"])' = Val(chandle["filled"])
      /\ Val(chandle["cs_cons"])' = Val(chandle["cs_cons"])
      /\ objs'[chandle["mem"]] = objs[chandle["mem"]]
  BY <1>1, <1>3 DEF Kept, Val
<1>5. COne'
  <2>1. Taking({"read", "advance", "post_cs"})' = Taking({"read", "advance", "post_cs"})
    BY FewerChildren
  <2> QED BY <1>1, <1>4, <2>1 DEF QInv, COne
<1>6. CBalance'
  <2> DEFINE v == Val(chandle["filled"])
             a == Taking({"wait_cs", "read"})
             w == Waiting(objs[chandle["mem"]])
  <2>1. a' = a /\ a \in Nat
    BY FewerChildren, CountsNat
  <2>2. Posting \in Nat /\ Posting' \in Nat /\ Posting' <= Posting
    <3> DEFINE b == Putting({"advance", "post_cs", "post_filled"})
    <3>1. b \in Nat /\ b' \in Nat /\ (PKept => b' <= b)
      BY FewerChildren, CountsNat, CountsNatNext
    <3>2. pmain' # "run" => b' = 0
      BY DEF Putting
    <3>3. Posting = (IF chandle["filled"] = phandle["filled"] THEN b ELSE 0)
          /\ Posting' = (IF chandle'["filled"] = phandle'["filled"] THEN b' ELSE 0)
      BY DEF Posting
    <3>4. PKept /\ pmain' = "run" => phandle' = phandle
      BY DEF PKept
    <3> HIDE DEF b
    <3> QED BY <1>1, <3>1, <3>2, <3>3, <3>4
  <2>3. v + a + Posting <= w
    BY <1>1 DEF QInv, CBalance
  <2>4. v \in Nat /\ w \in Int /\ v' = v /\ w' = w
    BY <1>1, <1>3, <1>4 DEF Waiting
  <2> DEFINE b == Posting
  <2>5. b \in Nat /\ b' \in Nat /\ b' <= b /\ v + a + b <= w
    BY <2>2, <2>3
  <2> HIDE DEF v, a, w, b
  <2>6. v + a' + b' <= w
    <3>1. v \in Nat /\ a \in Nat /\ b \in Nat /\ a' \in Nat /\ b' \in Nat /\ w \in Int
      BY <2>1, <2>4, <2>5
    <3>2. a' <= a /\ b' <= b /\ v + a + b <= w
      BY <2>1, <2>5, <3>1
    <3> QED BY <3>1, <3>2, LessSum
  <2>7. v' + a' + b' <= w'
    BY <2>4, <2>6
  <2> QED BY <2>7 DEF CBalance, v, a, w, b
<1>7. ReadAt'
  <2>1. Active' => Active
    <3>1. PKept /\ pmain' = "run" => pmain = "run" /\ phandle' = phandle
      BY DEF PKept
    <3> QED BY <1>1, <1>4, <3>1 DEF Active
  <2> QED BY <1>1, <1>4, <2>1 DEF QInv, ReadAt
<1> QED BY <1>5, <1>6, <1>7

\* The producers' side; consumers may start.
LEMMA KeptProducers ==
    ASSUME IInv, QInv, IInv', UNCHANGED plan, Kept, PKept,
           CKept \/ Taking({"advance", "post_cs", "post_empty"})' = 0
    PROVE  PBalance' /\ POne' /\ WriteAt'
<1> SUFFICES ASSUME pmain' = "run"
             PROVE  PBalance' /\ POne' /\ WriteAt'
  BY DEF PBalance, POne, WriteAt
<1>1. pmain = "run" /\ phandle' = phandle /\ ppc' = ppc /\ plan' = plan
  BY DEF PKept
<1>2. /\ "empty" \in Names \ {"cs_cons", "mem"} /\ "cs_prod" \in Names \ {"cs_cons", "mem"}
      /\ "mem" \in Names \ {"cs_cons"}
  BY DEF Names
<1>3. /\ phandle["empty"] \in 1 .. Len(objs) /\ Val(phandle["empty"]) \in Nat
      /\ phandle["cs_prod"] \in 1 .. Len(objs)
      /\ phandle["mem"] \in 1 .. Len(objs) /\ Waiting(objs[phandle["mem"]]) \in Nat
  BY <1>1, <1>2, ProducersHold, SemaphoreInUse, MemoryInUse
<1>4. /\ Val(phandle["empty"])' = Val(phandle["empty"])
      /\ Val(phandle["cs_prod"])' = Val(phandle["cs_prod"])
      /\ objs'[phandle["mem"]] = objs[phandle["mem"]]
  BY <1>1, <1>3 DEF Kept, Val
<1>5. POne'
  <2>1. Putting({"write", "advance", "post_cs"})' = Putting({"write", "advance", "post_cs"})
    BY FewerChildren
  <2> QED BY <1>1, <1>4, <2>1 DEF QInv, POne
<1>6. PBalance'
  <2> DEFINE v == Val(phandle["empty"])
             a == Putting({"wait_cs", "write"})
             w == BUFFER_SIZE - Waiting(objs[phandle["mem"]])
  <2>1. a' = a /\ a \in Nat
    BY FewerChildren, CountsNat
  <2>2. Returning \in Nat /\ Returning' \in Nat /\ Returning' <= Returning
    <3> DEFINE b == Taking({"advance", "post_cs", "post_empty"})
    <3>1. b \in Nat /\ b' \in Nat /\ (CKept => b' <= b) /\ (CKept \/ b' = 0)
      BY FewerChildren, CountsNat, CountsNatNext
    <3>2. cmain' # "run" => b' = 0
      BY DEF Taking
    <3>3. Returning = (IF chandle["empty"] = phandle["empty"] THEN b ELSE 0)
          /\ Returning' = (IF chandle'["empty"] = phandle'["empty"] THEN b' ELSE 0)
      BY DEF Returning
    <3>4. CKept /\ cmain' = "run" => chandle' = chandle
      BY DEF CKept
    <3> HIDE DEF b
    <3> QED BY <1>1, <3>1, <3>2, <3>3, <3>4
  <2>3. v + a + Returning <= w
    BY <1>1 DEF QInv, PBalance
  <2>4. v \in Nat /\ w \in Int /\ v' = v /\ w' = w
    <3>1. Waiting(objs[phandle["mem"]])' = Waiting(objs[phandle["mem"]])
      BY <1>1, <1>4 DEF Waiting
    <3>2. BUFFER_SIZE \in Nat
      BY Parts
    <3> QED BY <1>1, <1>3, <1>4, <3>1, <3>2
  <2> DEFINE b == Returning
  <2>5. b \in Nat /\ b' \in Nat /\ b' <= b /\ v + a + b <= w
    BY <2>2, <2>3
  <2> HIDE DEF v, a, w, b
  <2>6. v + a' + b' <= w
    <3>1. v \in Nat /\ a \in Nat /\ b \in Nat /\ a' \in Nat /\ b' \in Nat /\ w \in Int
      BY <2>1, <2>4, <2>5
    <3>2. a' <= a /\ b' <= b /\ v + a + b <= w
      BY <2>1, <2>5, <3>1
    <3> QED BY <3>1, <3>2, LessSum
  <2>7. v' + a' + b' <= w'
    BY <2>4, <2>6
  <2> QED BY <2>7 DEF PBalance, v, a, w, b
<1>7. WriteAt'
  BY <1>1, <1>4 DEF QInv, WriteAt
<1> QED BY <1>5, <1>6, <1>7

\* What is left for a consumer.
LEMMA KeptLeft ==
    ASSUME IInv, QInv, IInv', UNCHANGED plan, Kept, PKept, Free' => Free,
           Free' => /\ phandle'["filled"] = phandle["filled"]
                    /\ phandle'["mem"] = phandle["mem"]
    PROVE  Left'
<1> SUFFICES ASSUME Free' PROVE Left'
  BY DEF Left
<1> DEFINE v == Val(phandle["filled"])
           a == Putting({"advance", "post_cs", "post_filled"})
           m == objs[phandle["mem"]]
<1>1. phandle["filled"] \in InUse("filled") /\ phandle["mem"] \in InUse("mem")
  BY FreeHandles
<1>2. /\ phandle["filled"] \in 1 .. Len(objs) /\ v \in Nat
      /\ phandle["mem"] \in 1 .. Len(objs) /\ Waiting(m) \in Nat
  <2>1. "filled" \in Names \ {"mem"}
    BY DEF Names
  <2> QED BY <1>1, <2>1, SemaphoreInUse, MemoryInUse
<1>3. v' = v /\ m' = m
  BY <1>2 DEF Kept, Val
<1>4. a \in Nat /\ a' \in Nat /\ a' <= a
  BY FewerChildren, CountsNat, CountsNatNext
<1>5. v + a <= Waiting(m) /\ (v > 0 \/ pmain = "run" => m.read_index = Len(m.taken) % BUFFER_SIZE)
  BY DEF QInv, Left
<1>6. pmain' = "run" => pmain = "run"
  BY DEF PKept
<1>7. Waiting(m)' = Waiting(m)
  BY <1>3 DEF Waiting
<1> HIDE DEF v, a, m
<1>8. /\ v' + a' <= Waiting(m)'
      /\ v' > 0 \/ pmain' = "run" => m'.read_index = Len(m'.taken) % BUFFER_SIZE
  BY <1>2, <1>3, <1>4, <1>5, <1>6, <1>7
<1> QED BY <1>8 DEF Left, v, a, m

\* The types of what is in use, if nothing is created ...
LEMMA KeptInUse ==
    ASSUME IInv, QInv, Kept, \A nm \in Names : InUse(nm)' \subseteq InUse(nm)
    PROVE  Kinds' /\ Distinct'
<1>1. Distinct'
  BY DEF QInv, Distinct
<1>2. ASSUME NEW nm \in Names, NEW o \in InUse(nm)' PROVE objs'[o] = objs[o]
  <2>1. o \in InUse(nm)
    BY <1>2
  <2>2. o \in 1 .. Len(objs)
    BY <2>1, Parts DEF InUse
  <2> QED BY <2>2 DEF Kept
<1>3. Kinds'
  <2> SUFFICES ASSUME NEW nm \in Names, NEW o \in InUse(nm)'
               PROVE  IF nm = "mem" THEN SoundMemory(objs'[o]) ELSE objs'[o] \in [value : Nat]
    BY DEF Kinds, SoundMemory, Memory
  <2>1. objs'[o] = objs[o] /\ o \in InUse(nm)
    BY <1>2
  <2> QED BY <2>1 DEF QInv, Kinds
<1> QED BY <1>1, <1>3

\* ... and if it is.
LEMMA CreatedInUse ==
    ASSUME IInv, QInv, Kept, NEW x \in Names,
           IF x = "mem" THEN SoundMemory(objs'[Len(objs) + 1])
                        ELSE objs'[Len(objs) + 1] \in [value : Nat],
           \A nm \in Names :
               InUse(nm)' \subseteq InUse(nm) \cup (IF nm = x THEN {Len(objs) + 1} ELSE {})
    PROVE  Kinds' /\ Distinct'
<1> DEFINE new == Len(objs) + 1
<1>1. \A nm \in Names : \A o \in InUse(nm) : o \in 1 .. Len(objs) /\ o # new
  BY Parts DEF InUse
<1>2. Distinct'
  BY <1>1 DEF QInv, Distinct
<1>3. Kinds'
  <2> SUFFICES ASSUME NEW nm \in Names, NEW o \in InUse(nm)'
               PROVE  IF nm = "mem" THEN SoundMemory(objs'[o]) ELSE objs'[o] \in [value : Nat]
    BY DEF Kinds, SoundMemory, Memory
  <2>1. CASE o = new
    <3>1. nm = x
      BY <1>1, <2>1
    <3> QED BY <2>1, <3>1
  <2>2. CASE o # new
    <3>1. o \in InUse(nm)
      BY <2>2
    <3>2. objs'[o] = objs[o]
      BY <1>1, <3>1 DEF Kept
    <3> QED BY <3>1, <3>2 DEF QInv, Kinds
  <2> QED BY <2>1, <2>2
<1> QED BY <1>2, <1>3

-----------------------------------------------------------------------------
(* The calls of the main processes. *)

\* No object is created: a name goes, a handle is what a name denoted.
Loses == /\ UNCHANGED <<objs, plan>>
         /\ \A nm \in Names : InUse(nm)' \subseteq InUse(nm)
         /\ \A nm \in {"filled", "empty", "mem"} : names'[nm] \in {0, names[nm]}

LEMMA LosesKeeps ==
    ASSUME IInv, QInv, Loses
    PROVE  Kept /\ Covered' /\ Kinds' /\ Distinct' /\ (UNCHANGED phandle => Current')
<1>1. Len(objs) \in Nat
  BY Parts
<1>2. Kept
  BY <1>1 DEF Loses, Kept
<1>3. Kinds' /\ Distinct'
  BY <1>2, KeptInUse DEF Loses
<1>4. Covered'
  BY DEF QInv, Covered, Loses, Orderly
<1>5. UNCHANGED phandle => Current'
  BY DEF QInv, Current, Loses
<1> QED BY <1>2, <1>3, <1>4, <1>5

\* The producer's main process ends, or waits to remove the memory.
LEMMA ProducerStops ==
    ASSUME IInv, QInv, IInv', pmain' \notin {"setup", "run"}, pmain = "setup" => cmain # "run",
           UNCHANGED <<objs, phandle, cvars, pruns, cruns, plan>>,
           \A nm \in Names \ {"mem"} : names'[nm] = names[nm],
           names'["mem"] \in {0, names["mem"]}
    PROVE  QInv'
<1>1. UNCHANGED <<cmain, cstep, chandle, cpc, cops>>
  BY DEF cvars
<1>2. {"filled", "empty", "cs_cons"} \subseteq Names \ {"mem"} /\ "mem" \in Names
  BY DEF Names
<1>3. Loses
  BY <1>1, <1>2 DEF Loses, InUse
<1>4. Kept /\ Covered' /\ Kinds' /\ Distinct' /\ Current'
  BY <1>3, LosesKeeps
<1>5. PKept /\ CKept
  BY <1>1 DEF PKept, CKept
<1>6. Accounted'
  <2>1. PToCreate' = 0 /\ CToCreate' = CToCreate /\ PToCreate \in Nat /\ CToCreate \in Nat
    BY <1>1, Parts DEF PToCreate, CToCreate
  <2>2. UNCHANGED <<objs, pruns, cruns, plan>>
    OBVIOUS
  <2> HIDE DEF PToCreate, CToCreate
  <2>3. Len(objs) \in Nat /\ pruns \in Nat /\ cruns \in Nat
    BY Parts
  <2> QED BY <2>1, <2>2, <2>3 DEF QInv, Accounted
<1>7. Prepared'
  BY DEF Prepared
<1>8. Joining'
  <2>1. Val(chandle["cs_cons"])' = Val(chandle["cs_cons"])
    BY <1>1 DEF Val
  <2> QED BY <1>1, <1>2, <2>1 DEF QInv, Joining
<1>9. Claimed'
  BY <1>1, <1>2 DEF QInv, Claimed
<1>10. Together'
  BY <1>1 DEF QInv, Together
<1>11. Left'
  <2>1. Free' => Free
    BY <1>1, <1>2 DEF Free
  <2> QED BY <1>4, <1>5, <2>1, KeptLeft
<1>12. CBalance' /\ COne' /\ ReadAt' /\ PBalance' /\ POne' /\ WriteAt'
  BY <1>4, <1>5, KeptConsumers, KeptProducers
<1> QED BY <1>4, <1>6, <1>7, <1>8, <1>9, <1>10, <1>11, <1>12 DEF QInv

\* A step of the consumer's main process after which it does not run children.
LEMMA ConsumerMoves ==
    ASSUME IInv, QInv, IInv', Loses, cmain' # "run", Free' => Free,
           UNCHANGED <<pvars, pruns>>,
           \A nm \in {"filled", "cs_cons"} : names[nm] = 0 => names'[nm] = 0,
           Accounted', Joining', Claimed', cmain = "connect" \/ cmain' # "destroy" \/ UNCHANGED chandle,
           cmain' = "destroy" => cmain \in {"run", "destroy"},
           pmain = "setup" /\ Orderly => cmain' \in Ended
    PROVE  QInv'
<1>1. UNCHANGED <<pmain, pstep, phandle, ppc, pops, objs, plan>>
  BY DEF pvars, Loses
<1>2. Kept /\ Covered' /\ Kinds' /\ Distinct' /\ Current'
  BY <1>1, LosesKeeps
<1>3. PKept /\ CKept
  BY <1>1 DEF PKept, CKept
<1>4. Prepared'
  <2>1. \A nm \in Names : Val(phandle[nm])' = Val(phandle[nm])
    BY <1>1 DEF Val
  <2>2. cmain' = "destroy" => chandle' = chandle /\ cmain \in {"run", "destroy"}
    OBVIOUS
  <2>3. Orderly' = Orderly /\ {"filled", "empty", "cs_prod"} \subseteq Names
    BY <1>1 DEF Orderly, Names
  <2> QED BY <1>1, <2>1, <2>2, <2>3 DEF QInv, Prepared
<1>5. Together'
  BY DEF Together
<1>6. Left'
  BY <1>1, <1>2, <1>3, KeptLeft
<1>7. CBalance' /\ COne' /\ ReadAt' /\ PBalance' /\ POne' /\ WriteAt'
  BY <1>1, <1>2, <1>3, KeptConsumers, KeptProducers
<1> QED BY <1>2, <1>4, <1>5, <1>6, <1>7 DEF QInv

-----------------------------------------------------------------------------
LEMMA LaunchProducerQ ==
    ASSUME IInv, QInv, IInv', LaunchProducer
    PROVE  QInv'
<1>1. /\ pmain \in Ended /\ pmain' = "setup" /\ pstep' = 1 /\ pruns' = pruns + 1
      /\ pruns < plan.runs /\ (Orderly => cmain \in Ended)
      /\ UNCHANGED <<names, objs, phandle, ppc, pops, cmain, cstep, chandle, cpc, cops,
                     cruns, plan>>
  BY DEF LaunchProducer, cvars, Ended
<1>2. Loses
  BY <1>1 DEF Loses, InUse
<1>3. Kept /\ Covered' /\ Kinds' /\ Distinct' /\ Current'
  BY <1>1, <1>2, LosesKeeps
<1>4. PKept /\ CKept
  BY <1>1 DEF PKept, CKept
<1>5. Accounted'
  <2>1. PToCreate' = 4 /\ CToCreate' = CToCreate /\ PToCreate = 0 /\ CToCreate \in Nat
    BY <1>1 DEF PToCreate, CToCreate, Ended
  <2>2. Len(objs) \in Nat /\ pruns \in Nat /\ cruns \in Nat /\ plan.runs \in Nat
    BY Parts, ShmAssumption
  <2> HIDE DEF PToCreate, CToCreate
  <2> QED BY <1>1, <2>1, <2>2 DEF QInv, Accounted
<1>6. Prepared'
  BY <1>1 DEF Prepared, Orderly
<1>7. ~(cmain = "connect" /\ cstep > 1)
  <2>1. CASE Orderly
    BY <1>1, <2>1 DEF Ended
  <2>2. CASE plan.kills = 0
    BY <1>1, <2>2 DEF IInv, InStep, Connecting, SetUp, Ended
  <2> QED BY <2>1, <2>2 DEF QInv, Covered
<1>8. Joining'
  <2>1. cstep \in 1 .. 4
    BY Parts
  <2> QED BY <1>1, <1>7, <2>1 DEF Joining
<1>9. Claimed' /\ Together'
  BY <1>1 DEF QInv, Claimed, Together
<1>10. Left'
  <2>1. Free' => Free
    BY <1>1 DEF Free
  <2> QED BY <1>1, <1>3, <1>4, <2>1, KeptLeft
<1>11. CBalance' /\ COne' /\ ReadAt' /\ PBalance' /\ POne' /\ WriteAt'
  BY <1>1, <1>3, <1>4, KeptConsumers, KeptProducers
<1> QED BY <1>3, <1>5, <1>6, <1>8, <1>9, <1>10, <1>11 DEF QInv

LEMMA ProducerStopsQ ==
    ASSUME IInv, QInv, IInv', JoinProducers \/ PDestroyStep \/ KillProducer
    PROVE  QInv'
<1>1. /\ pmain' \notin {"setup", "run"} /\ UNCHANGED <<objs, phandle, cvars, pruns, cruns, plan>>
  BY DEF JoinProducers, PDestroyStep, KillProducer, counts, Perform, PDestroy
<1>2. pmain = "setup" => cmain # "run"
  <2> SUFFICES ASSUME pmain = "setup" PROVE cmain # "run"
    OBVIOUS
  <2>1. KillProducer /\ plan.kills # 0
    BY Parameters DEF JoinProducers, PDestroyStep, KillProducer, MayKill, IInv, TypeOK
  <2> QED BY <2>1 DEF QInv, Covered, Prepared, Ended
<1>3. /\ \A nm \in Names \ {"mem"} : names'[nm] = names[nm]
      /\ names'["mem"] \in {0, names["mem"]}
  <2>1. names' = names \/ names' = [names EXCEPT !["mem"] = 0]
    BY DEF JoinProducers, PDestroyStep, KillProducer, Perform, PDestroy
  <2>2. names \in [Names -> 0 .. Len(objs)] /\ "mem" \in Names
    BY Parts DEF Names
  <2> QED BY <2>1, <2>2
<1> QED BY <1>1, <1>2, <1>3, ProducerStops

LEMMA LaunchConsumerQ ==
    ASSUME IInv, QInv, IInv', LaunchConsumer
    PROVE  QInv'
<1>1. /\ cmain \in Ended /\ cmain' = "connect" /\ cstep' = 1 /\ cruns' = cruns + 1
      /\ chandle' = [nm \in Names |-> 0] /\ cruns < plan.runs /\ (Orderly => pmain # "setup")
      /\ UNCHANGED <<names, objs, pmain, pstep, phandle, ppc, pops, pruns, plan, pvars>>
  BY DEF LaunchConsumer, pvars, Ended
<1>2. Loses
  BY <1>1 DEF Loses, InUse
<1>3. Accounted'
  <2>1. PToCreate' = PToCreate /\ CToCreate' = 1 /\ CToCreate = 0 /\ PToCreate \in Nat
    BY <1>1, Parts DEF PToCreate, CToCreate, Ended
  <2>2. Len(objs) \in Nat /\ pruns \in Nat /\ cruns \in Nat /\ plan.runs \in Nat
    BY Parts, ShmAssumption
  <2> HIDE DEF PToCreate, CToCreate
  <2> QED BY <1>1, <2>1, <2>2 DEF QInv, Accounted
<1>4. Joining' /\ Claimed'
  BY <1>1 DEF Joining, Claimed
<1>5. Free' => Free
  BY <1>1 DEF Free
<1> QED BY <1>1, <1>2, <1>3, <1>4, <1>5, ConsumerMoves

LEMMA ConsumerStopsQ ==
    ASSUME IInv, QInv, IInv', UNCHANGED <<names, objs, chandle, cstep, pvars, pruns, cruns, plan>>,
           \/ JoinConsumers
           \/ cmain' \in {"failed", "killed"}
    PROVE  QInv'
<1>1. /\ \/ cmain = "run" /\ cmain' = "destroy" /\ cstep = 1
         \/ cmain' \in {"failed", "killed"}
      /\ UNCHANGED <<pmain, pstep, phandle, ppc, pops>>
  BY DEF JoinConsumers, pvars, IInv, Working
<1>2. Loses
  BY <1>1 DEF Loses, InUse
<1>3. Accounted'
  <2>1. PToCreate' = PToCreate /\ CToCreate' = 0 /\ CToCreate \in Nat /\ PToCreate \in Nat
    BY <1>1, Parts DEF PToCreate, CToCreate
  <2>2. Len(objs) \in Nat /\ pruns \in Nat /\ cruns \in Nat /\ plan.runs \in Nat
    BY Parts, ShmAssumption
  <2> HIDE DEF PToCreate, CToCreate
  <2> QED BY <1>1, <2>1, <2>2 DEF QInv, Accounted
<1>4. Joining' /\ Claimed'
  BY <1>1 DEF QInv, Joining, Claimed
<1>5. Free' => Free
  BY <1>1 DEF Free
<1>6. pmain = "setup" /\ Orderly => cmain' \in Ended
  BY <1>1 DEF QInv, Prepared, Ended
<1> QED BY <1>1, <1>2, <1>3, <1>4, <1>5, <1>6, ConsumerMoves

LEMMA KillConsumerQ ==
    ASSUME IInv, QInv, IInv', KillConsumer \/ JoinConsumers
    PROVE  QInv'
<1>1. /\ JoinConsumers \/ cmain' = "killed"
      /\ UNCHANGED <<names, objs, chandle, cstep, pvars, pruns, cruns, plan>>
  BY DEF KillConsumer, JoinConsumers, counts
<1> QED BY <1>1, ConsumerStopsQ

LEMMA CDestroyQ ==
    ASSUME IInv, QInv, IInv', CDestroyStep
    PROVE  QInv'
<1>0. cstep \in 1 .. 4
  BY Parts
<1> DEFINE nm == IF cstep = 1 THEN "filled" ELSE IF cstep = 2 THEN "empty"
                 ELSE IF cstep = 3 THEN "cs_prod" ELSE "cs_cons"
<1>1. CDestroy[cstep] = <<"remove", nm>> /\ Len(CDestroy) = 4 /\ nm \in Names
  BY <1>0 DEF CDestroy, Names
<1>2. /\ cmain = "destroy" /\ UNCHANGED <<chandle, cpc, cops, pvars, pruns, cruns, kills, plan>>
  BY DEF CDestroyStep, counts
<1>3. \/ /\ names[nm] # 0 /\ names' = [names EXCEPT ![nm] = 0] /\ UNCHANGED objs
         /\ \/ cstep = 4 /\ cmain' = "done" /\ cstep' = 1
            \/ cstep # 4 /\ cmain' = "destroy" /\ cstep' = cstep + 1
      \/ names[nm] = 0 /\ cmain' = "failed" /\ UNCHANGED <<names, objs, cstep>>
  BY <1>1 DEF CDestroyStep, Succeeds, Perform
<1>4. CASE names[nm] = 0 /\ cmain' = "failed" /\ UNCHANGED <<names, objs, cstep>>
  BY <1>2, <1>4, ConsumerStopsQ
<1>5. CASE /\ names[nm] # 0 /\ names' = [names EXCEPT ![nm] = 0] /\ UNCHANGED objs
           /\ \/ cstep = 4 /\ cmain' = "done" /\ cstep' = 1
              \/ cstep # 4 /\ cmain' = "destroy" /\ cstep' = cstep + 1
  <2>1. \A n \in Names : names'[n] = IF n = nm THEN 0 ELSE names[n]
    <3>1. names \in [Names -> 0 .. Len(objs)]
      BY Parts
    <3> HIDE DEF nm
    <3> QED BY <1>5, <3>1
  <2>2. {"filled", "empty", "cs_cons", "mem"} \subseteq Names
    BY DEF Names
  <2>3. UNCHANGED <<pmain, pstep, phandle, ppc, pops>>
    BY <1>2 DEF pvars
  <2>4. Loses
    <3>1. \A n \in Names : names'[n] \in {0, names[n]}
      BY <2>1
    <3> QED BY <1>2, <1>5, <2>2, <2>3, <3>1 DEF Loses, InUse
  <2>5. Accounted'
    <3>1. PToCreate' = PToCreate /\ CToCreate' = 0 /\ CToCreate = 0 /\ PToCreate \in Nat
      BY <1>2, <1>5, <2>3, Parts DEF PToCreate, CToCreate
    <3> HIDE DEF PToCreate, CToCreate
    <3> QED BY <1>2, <1>5, <3>1 DEF QInv, Accounted
  <2>6. Joining'
    BY <1>5 DEF Joining
  <2>7. cstep = 1 => names'["filled"] = 0
    BY <2>1, <2>2
  <2>8. \A n \in Names : names[n] = 0 => names'[n] = 0
    BY <2>1
  <2>9. cstep > 1 => names["filled"] = 0 \/ names["cs_cons"] = 0
    BY <1>2 DEF QInv, Claimed
  <2>10. Claimed'
    <3>1. ~(cmain' = "run" \/ (cmain' = "destroy" /\ cstep' = 1))
      BY <1>0, <1>5
    <3>2. cmain' = "destroy" /\ cstep' > 1 => names'["filled"] = 0 \/ names'["cs_cons"] = 0
      BY <1>0, <2>2, <2>7, <2>8, <2>9
    <3> QED BY <3>1, <3>2 DEF Claimed
  <2>11. Free' => Free
    <3> SUFFICES ASSUME Free' PROVE Free
      OBVIOUS
    <3>1. names'["filled"] # 0 /\ names'["mem"] # 0 /\ cmain' # "connect"
      BY <1>5 DEF Free
    <3>2. names["filled"] # 0 /\ names["mem"] # 0 /\ cstep # 1
      BY <2>2, <2>7, <2>8, <3>1
    <3>3. names["cs_cons"] = 0
      BY <1>0, <2>9, <3>2
    <3> QED BY <3>2, <3>3 DEF Free
  <2>12. pmain = "setup" /\ Orderly => cmain' \in Ended
    BY <1>2 DEF QInv, Prepared, Ended
  <2> QED BY <1>2, <1>5, <2>2, <2>4, <2>5, <2>6, <2>8, <2>10, <2>11, <2>12, ConsumerMoves
<1> QED BY <1>3, <1>4, <1>5

-----------------------------------------------------------------------------
LEMMA UnlinkQ ==
    ASSUME IInv, QInv, IInv', pmain = "setup", pstep \in 1 .. 4, NEW nm \in Names,
           nm = IF pstep = 1 THEN "filled" ELSE IF pstep = 2 THEN "empty"
                ELSE IF pstep = 3 THEN "cs_prod" ELSE "cs_cons",
           names' = [names EXCEPT ![nm] = 0], pmain' = "setup", pstep' = pstep + 1,
           UNCHANGED <<objs, phandle, ppc, pops, cvars, counts>>
    PROVE  QInv'
<1>1. UNCHANGED <<objs, phandle, ppc, pops, cmain, cstep, chandle, cpc, cops,
                  pruns, cruns, kills, plan>>
  BY DEF cvars, counts
<1>2. \A n \in Names : names'[n] = IF n = nm THEN 0 ELSE names[n]
  <2>1. names \in [Names -> 0 .. Len(objs)]
    BY Parts
  <2> QED BY <2>1
<1>3. {"filled", "empty", "cs_cons", "mem"} \subseteq Names
  BY DEF Names
<1>4. Loses
  BY <1>1, <1>2, <1>3 DEF Loses, InUse
<1>5. Kept /\ Covered' /\ Kinds' /\ Distinct' /\ Current'
  BY <1>1, <1>4, LosesKeeps
<1>6. PKept /\ CKept
  BY <1>1 DEF PKept, CKept
<1>7. Accounted'
  <2>1. PToCreate' = 4 /\ PToCreate = 4 /\ CToCreate' = CToCreate
    BY <1>1 DEF PToCreate, CToCreate
  <2> HIDE DEF PToCreate, CToCreate
  <2> QED BY <1>1, <2>1 DEF QInv, Accounted
<1>8. pstep' \in 2 .. 5 /\ names'["filled"] = 0
  BY <1>2, <1>3 DEF QInv, Prepared
<1>9. Prepared'
  <2>1. pstep' = 5 => names'["cs_cons"] = 0
    BY <1>2, <1>3
  <2>2. Orderly => cmain \in Ended
    BY DEF QInv, Prepared
  <2>3. pstep' \in 2 .. 5 /\ ~(pstep' > 5) /\ ~(pstep' > 6) /\ ~(pstep' > 7)
    BY <1>8
  <2> QED BY <1>1, <1>8, <2>1, <2>2, <2>3 DEF Prepared, Orderly
<1>10. Joining'
  <2>1. ~(cmain = "connect" /\ cstep > 1) /\ cstep \in 1 .. 4
    BY Parts DEF QInv, Joining
  <2> QED BY <1>1, <2>1 DEF Joining
<1>11. Claimed'
  BY <1>8 DEF Claimed
<1>12. Together'
  BY <1>1 DEF QInv, Together
<1>13. Left'
  BY <1>8 DEF Left, Free
<1>14. CBalance' /\ COne' /\ ReadAt' /\ PBalance' /\ POne' /\ WriteAt'
  BY <1>1, <1>5, <1>6, KeptConsumers, KeptProducers
<1> QED BY <1>5, <1>7, <1>9, <1>10, <1>11, <1>12, <1>13, <1>14 DEF QInv

\* The producer's main process creates an object.
PCreates(nm, fresh) ==
    /\ pmain = "setup" /\ names' = [names EXCEPT ![nm] = Len(objs) + 1]
    /\ phandle' = [phandle EXCEPT ![nm] = Len(objs) + 1] /\ objs' = Append(objs, fresh)
    /\ UNCHANGED <<cvars, counts>>

LEMMA PCreatesKeeps ==
    ASSUME IInv, QInv, NEW nm \in Names \ {"cs_cons"}, NEW fresh, PCreates(nm, fresh),
           IF nm = "mem" THEN SoundMemory(fresh) ELSE fresh \in [value : Nat]
    PROVE  /\ Kept /\ Covered' /\ Kinds' /\ Distinct' /\ Current'
           /\ Len(objs) \in Nat /\ Len(objs') = Len(objs) + 1 /\ objs'[Len(objs) + 1] = fresh
           /\ names'[nm] = Len(objs) + 1 /\ phandle'[nm] = Len(objs) + 1
           /\ \A n \in Names \ {nm} : names'[n] = names[n] /\ phandle'[n] = phandle[n]
           /\ \A n \in Names : chandle[n] # Len(objs) + 1
           /\ UNCHANGED <<cmain, cstep, chandle, cpc, cops, pruns, cruns, plan>>
           /\ \A n \in Names : chandle[n] # 0 => Val(chandle[n])' = Val(chandle[n])
           /\ \A n \in Names \ {nm} : phandle[n] # 0 => Val(phandle[n])' = Val(phandle[n])
<1> DEFINE n == Len(objs)
<1>1. /\ n \in Nat /\ objs = [i \in 1 .. n |-> objs[i]]
      /\ names \in [Names -> 0 .. n] /\ phandle \in [Names -> 0 .. n]
      /\ chandle \in [Names -> 0 .. n]
  BY Parts DEF IInv, TypeOK
<1>2. UNCHANGED <<cmain, cstep, chandle, cpc, cops, pruns, cruns, plan>>
  BY DEF PCreates, cvars, counts
<1>3. /\ Len(objs') = n + 1 /\ \A i \in 1 .. n : objs'[i] = objs[i]
      /\ objs'[n + 1] = fresh
  <2> DEFINE t == Append(objs, fresh)
  <2>1. /\ Len(t) = n + 1
        /\ \A i \in 1 .. n : t[i] = objs[i]
        /\ t[n + 1] = fresh
    <3>1. Len(objs) \in Nat /\ objs = [i \in 1 .. Len(objs) |-> objs[i]]
      BY <1>1
    <3>2. \A s, x : Len(s) \in Nat /\ s = [i \in 1 .. Len(s) |-> s[i]] =>
               /\ Len(Append(s, x)) = Len(s) + 1
               /\ \A i \in 1 .. Len(s) : Append(s, x)[i] = s[i]
               /\ Append(s, x)[Len(s) + 1] = x
      BY Created
    <3> QED BY <3>1, <3>2, Zenon
  <2>2. objs' = t
    BY DEF PCreates
  <2> HIDE DEF t, n
  <2> QED BY <2>1, <2>2
<1>4. /\ names' = [names EXCEPT ![nm] = n + 1] /\ phandle' = [phandle EXCEPT ![nm] = n + 1]
  BY DEF PCreates
<1>5. n = Len(objs)
  OBVIOUS
<1> HIDE DEF n
<1>6. /\ names'[nm] = n + 1 /\ phandle'[nm] = n + 1
      /\ \A k \in Names \ {nm} : names'[k] = names[k] /\ phandle'[k] = phandle[k]
  BY <1>1, <1>4
<1>7. \A k \in Names : chandle[k] # n + 1
  BY <1>1
<1>8. Kept
  <2>1. Len(objs') = n + 1 /\ Len(objs) = n /\ n \in Nat
    BY <1>1, <1>3, <1>5
  <2>2. \A i \in 1 .. Len(objs) : objs'[i] = objs[i]
    BY <1>3, <2>1
  <2> QED BY <2>1, <2>2 DEF Kept
<1>9. \A k \in Names : InUse(k)' \subseteq InUse(k) \cup (IF k = nm THEN {n + 1} ELSE {})
  BY <1>2, <1>6 DEF InUse
<1>10. Kinds' /\ Distinct'
  <2>1. IF nm = "mem" THEN SoundMemory(objs'[n + 1]) ELSE objs'[n + 1] \in [value : Nat]
    BY <1>3
  <2> QED BY <1>5, <1>8, <1>9, <2>1, CreatedInUse
<1>11. Covered'
  BY <1>2 DEF QInv, Covered, Orderly
<1>12. Current'
  <2>1. {"filled", "empty", "mem"} \subseteq Names
    BY DEF Names
  <2> QED BY <1>6, <2>1 DEF QInv, Current
<1>13. \A k \in Names : chandle[k] # 0 => Val(chandle[k])' = Val(chandle[k])
  <2> SUFFICES ASSUME NEW k \in Names, chandle[k] # 0 PROVE Val(chandle[k])' = Val(chandle[k])
    OBVIOUS
  <2>1. chandle[k] \in 1 .. n
    BY <1>1
  <2> QED BY <1>2, <1>3, <2>1 DEF Val
<1>14. \A k \in Names \ {nm} : phandle[k] # 0 => Val(phandle[k])' = Val(phandle[k])
  <2> SUFFICES ASSUME NEW k \in Names \ {nm}, phandle[k] # 0
               PROVE  Val(phandle[k])' = Val(phandle[k])
    OBVIOUS
  <2>1. phandle[k] \in 1 .. n /\ phandle'[k] = phandle[k]
    BY <1>1, <1>6
  <2> QED BY <1>3, <2>1 DEF Val
<1> QED BY <1>1, <1>2, <1>3, <1>5, <1>6, <1>7, <1>8, <1>10, <1>11, <1>12, <1>13, <1>14

\* The semaphores.
LEMMA CreateSemQ ==
    ASSUME IInv, QInv, IInv', pstep \in 5 .. 7, NEW nm \in Names \ {"cs_cons"},
           nm = IF pstep = 5 THEN "filled" ELSE IF pstep = 6 THEN "empty" ELSE "cs_prod",
           PCreates(nm, Fresh[nm]), pmain' = "setup", pstep' = pstep + 1, UNCHANGED <<ppc, pops>>
    PROVE  QInv'
<1> DEFINE n == Len(objs)
           fresh == Fresh[nm]
<1>0. fresh \in [value : Nat] /\ nm # "mem" /\ pmain = "setup"
      /\ fresh.value = IF pstep = 5 THEN 0 ELSE IF pstep = 6 THEN BUFFER_SIZE ELSE 1
  <2>1. BUFFER_SIZE \in Nat
    BY Parts
  <2> QED BY <2>1 DEF Fresh, Semaphore, PCreates
<1> HIDE DEF fresh
<1>1. PCreates(nm, fresh)
  BY DEF fresh
<1>2. /\ Kept /\ Covered' /\ Kinds' /\ Distinct' /\ Current'
      /\ n \in Nat /\ Len(objs') = n + 1 /\ objs'[n + 1] = fresh
      /\ names'[nm] = n + 1 /\ phandle'[nm] = n + 1
      /\ \A k \in Names \ {nm} : names'[k] = names[k] /\ phandle'[k] = phandle[k]
      /\ \A k \in Names : chandle[k] # n + 1
      /\ UNCHANGED <<cmain, cstep, chandle, cpc, cops, pruns, cruns, plan>>
      /\ \A k \in Names : chandle[k] # 0 => Val(chandle[k])' = Val(chandle[k])
      /\ \A k \in Names \ {nm} : phandle[k] # 0 => Val(phandle[k])' = Val(phandle[k])
  BY <1>0, <1>1, PCreatesKeeps
<1>3. {"filled", "empty", "cs_cons", "cs_prod", "mem"} = Names
  BY DEF Names
<1>4. Val(phandle[nm])' = IF pstep = 5 THEN 0 ELSE IF pstep = 6 THEN BUFFER_SIZE ELSE 1
  BY <1>0, <1>2 DEF Val
<1>5. PKept /\ CKept
  BY <1>2 DEF PKept, CKept
<1>6. Accounted'
  <2>1. PToCreate' + 1 = PToCreate /\ PToCreate' \in Nat /\ CToCreate' = CToCreate
        /\ CToCreate \in Nat
    BY <1>0, <1>2 DEF PToCreate, CToCreate
  <2>2. Len(objs') = Len(objs) + 1 /\ Len(objs) \in Nat /\ UNCHANGED <<pruns, cruns, plan>>
    BY <1>2
  <2>3. pruns \in Nat /\ cruns \in Nat
    BY Parts
  <2> HIDE DEF PToCreate, CToCreate
  <2> QED BY <2>1, <2>2, <2>3 DEF QInv, Accounted
<1> HIDE DEF n
<1>7. /\ pstep > 5 => /\ phandle["filled"] # 0 /\ Val(phandle["filled"]) = 0
                      /\ cmain \in {"run", "destroy"} => chandle["filled"] # phandle["filled"]
      /\ pstep > 6 => /\ phandle["empty"] # 0 /\ Val(phandle["empty"]) = BUFFER_SIZE
                      /\ cmain \in {"run", "destroy"} => chandle["empty"] # phandle["empty"]
      /\ Orderly => cmain \in Ended
      /\ pstep = 5 => names["cs_cons"] = 0
  BY <1>0 DEF QInv, Prepared
<1>8. n + 1 # 0
  BY <1>2
<1>9. Prepared'
  <2>1. /\ phandle'["filled"] # 0 /\ Val(phandle["filled"])' = 0
        /\ cmain \in {"run", "destroy"} => chandle["filled"] # phandle'["filled"]
    <3>1. CASE pstep = 5
      BY <1>2, <1>3, <1>4, <1>8, <3>1
    <3>2. CASE pstep # 5
      BY <1>2, <1>3, <1>7, <3>2
    <3> QED BY <3>1, <3>2
  <2>2. pstep > 5 => /\ phandle'["empty"] # 0 /\ Val(phandle["empty"])' = BUFFER_SIZE
                     /\ cmain \in {"run", "destroy"} => chandle["empty"] # phandle'["empty"]
    <3>1. CASE pstep = 6
      BY <1>2, <1>3, <1>4, <1>8, <3>1
    <3>2. CASE pstep = 7
      BY <1>2, <1>3, <1>7, <3>2
    <3> QED BY <3>1, <3>2
  <2>3. pstep > 6 => phandle'["cs_prod"] # 0 /\ Val(phandle["cs_prod"])' = 1
    BY <1>2, <1>3, <1>4, <1>8
  <2>4. pstep' \notin 2 .. 5 /\ pstep' # 5 /\ (pstep' > 6 => pstep > 5) /\ (pstep' > 7 => pstep > 6)
    OBVIOUS
  <2>5. (Orderly => cmain \in Ended)'
    BY <1>2, <1>7 DEF Orderly
  <2> QED BY <1>2, <2>1, <2>2, <2>3, <2>4, <2>5 DEF Prepared
<1>10. Joining'
  <2>1. cmain = "connect" => cstep \in {1, 2, 3, 4} /\ (cstep > 1 => pstep > 5) /\ (cstep > 2 => pstep > 6)
    BY <1>0, Parts DEF QInv, Joining
  <2>2. pstep > 5 => names'["filled"] = names["filled"]
    BY <1>2, <1>3
  <2>3. pstep > 6 => phandle'["empty"] = phandle["empty"]
    BY <1>2, <1>3
  <2>4. names'["cs_cons"] = names["cs_cons"]
    BY <1>2, <1>3
  <2>5. cmain = "connect" /\ cstep > 3 => Val(chandle["cs_cons"])' = 1
    BY <1>2, <1>3 DEF QInv, Joining
  <2> QED BY <1>0, <1>2, <2>1, <2>2, <2>3, <2>4, <2>5 DEF QInv, Joining
<1>11. Claimed'
  <2>1. names'["cs_cons"] = names["cs_cons"]
    BY <1>2, <1>3
  <2>2. CASE pstep = 5
    <3>1. names'["cs_cons"] = 0 /\ chandle["filled"] # phandle'["filled"]
      BY <1>2, <1>3, <1>7, <2>1, <2>2
    <3> QED BY <1>2, <3>1 DEF Claimed
  <2>3. CASE pstep # 5
    BY <1>2, <1>3, <2>1, <2>3 DEF QInv, Claimed
  <2> QED BY <2>2, <2>3
<1>12. Together'
  BY <1>2 DEF QInv, Together
<1>13. Left'
  <2>1. CASE pstep = 5
    <3> SUFFICES ASSUME Free' PROVE Left'
      BY DEF Left
    <3>1. /\ Val(phandle["filled"])' = 0 /\ Putting({"advance", "post_cs", "post_filled"})' = 0
      BY <1>2, <1>3, <1>4, <2>1 DEF Putting, Val
    <3>2. phandle["mem"] \in InUse("mem") /\ phandle'["mem"] = phandle["mem"]
      BY <1>2, <1>3, <2>1 DEF Free, InUse, QInv, Current
    <3>3. Waiting(objs[phandle["mem"]]) \in Nat /\ objs'[phandle["mem"]] = objs[phandle["mem"]]
      BY <3>2, MemoryInUse, <1>2 DEF Kept
    <3>4. Waiting(objs[phandle["mem"]])' \in Nat
      BY <3>2, <3>3 DEF Waiting
    <3> QED BY <3>1, <3>4 DEF Left
  <2>2. CASE pstep # 5
    <3>1. Free' => Free
      BY <1>2, <1>3, <2>2 DEF Free
    <3>2. phandle'["filled"] = phandle["filled"] /\ phandle'["mem"] = phandle["mem"]
      BY <1>2, <1>3, <2>2
    <3> QED BY <1>2, <1>5, <3>1, <3>2, KeptLeft
  <2> QED BY <2>1, <2>2
<1>14. CBalance' /\ COne' /\ ReadAt' /\ PBalance' /\ POne' /\ WriteAt'
  BY <1>2, <1>5, KeptConsumers, KeptProducers
<1> QED BY <1>2, <1>6, <1>9, <1>10, <1>11, <1>12, <1>13, <1>14 DEF QInv

\* The memory, empty; then the children start.
LEMMA FreshMemory ==
    ASSUME IInv
    PROVE  LET m == Fresh["mem"] IN
           /\ SoundMemory(m) /\ Waiting(m) = 0 /\ m.read_index = 0 /\ m.write_index = 0
           /\ Len(m.taken) = 0 /\ Len(m.stored) = 0 /\ 0 % BUFFER_SIZE = 0
<1>1. BUFFER_SIZE \in Nat \ {0} /\ 0 \in 0 .. BUFFER_SIZE - 1
  BY Parts
<1>2. 0 % BUFFER_SIZE = 0
  BY <1>1, ModSmall
<1>3. Fresh["mem"] = [buf |-> [i \in 0 .. BUFFER_SIZE - 1 |-> <<>>],
                      read_index |-> 0, write_index |-> 0, stored |-> <<>>, taken |-> <<>>]
  BY DEF Fresh
<1>4. <<>> \in Seq(Values) /\ <<>> \in Seq(Cells) /\ <<>> \in Cells /\ Len(<<>>) = 0
  BY DEF Cells
<1>5. [i \in 0 .. BUFFER_SIZE - 1 |-> <<>>] \in [Slots -> Cells]
  BY <1>4 DEF Slots
<1> QED BY <1>1, <1>2, <1>3, <1>4, <1>5 DEF SoundMemory, Memory, Waiting, Slots

LEMMA CreateMemQ ==
    ASSUME IInv, QInv, IInv', pstep = 8, PCreates("mem", Fresh["mem"]), pmain' = "run", pstep' = 1,
           ppc' = Forked(Producers, plan.producers, "wait_empty"),
           pops' = [p \in Producers |-> OPS_PER_PRODUCER]
    PROVE  QInv'
<1> DEFINE n == Len(objs)
           fresh == Fresh["mem"]
<1>0. /\ SoundMemory(fresh) /\ Waiting(fresh) = 0 /\ fresh.read_index = 0 /\ fresh.write_index = 0
      /\ Len(fresh.taken) = 0 /\ Len(fresh.stored) = 0 /\ 0 % BUFFER_SIZE = 0
  BY FreshMemory
<1>1. pmain = "setup" /\ PCreates("mem", fresh)
  BY DEF PCreates
<1> HIDE DEF fresh
<1>2. /\ Kept /\ Covered' /\ Kinds' /\ Distinct' /\ Current'
      /\ n \in Nat /\ Len(objs') = n + 1 /\ objs'[n + 1] = fresh
      /\ names'["mem"] = n + 1 /\ phandle'["mem"] = n + 1
      /\ \A k \in Names \ {"mem"} : names'[k] = names[k] /\ phandle'[k] = phandle[k]
      /\ \A k \in Names : chandle[k] # n + 1
      /\ UNCHANGED <<cmain, cstep, chandle, cpc, cops, pruns, cruns, plan>>
      /\ \A k \in Names : chandle[k] # 0 => Val(chandle[k])' = Val(chandle[k])
      /\ \A k \in Names \ {"mem"} : phandle[k] # 0 => Val(phandle[k])' = Val(phandle[k])
  <2>1. "mem" \in Names \ {"cs_cons"}
    BY DEF Names
  <2> QED BY <1>0, <1>1, <2>1, PCreatesKeeps
<1>3. {"filled", "empty", "cs_cons", "cs_prod", "mem"} = Names
  BY DEF Names
<1>4. CKept
  BY <1>2 DEF CKept
<1>5. Accounted'
  <2>1. PToCreate = 1 /\ PToCreate' = 0 /\ CToCreate' = CToCreate /\ CToCreate \in Nat
    BY <1>1, <1>2 DEF PToCreate, CToCreate
  <2>2. Len(objs') = Len(objs) + 1 /\ Len(objs) \in Nat /\ UNCHANGED <<pruns, cruns, plan>>
    BY <1>2
  <2>3. pruns \in Nat /\ cruns \in Nat
    BY Parts
  <2> HIDE DEF PToCreate, CToCreate
  <2> QED BY <2>1, <2>2, <2>3 DEF QInv, Accounted
<1> HIDE DEF n
<1>6. /\ phandle["filled"] # 0 /\ Val(phandle["filled"]) = 0
      /\ cmain \in {"run", "destroy"} => chandle["filled"] # phandle["filled"]
      /\ phandle["empty"] # 0 /\ Val(phandle["empty"]) = BUFFER_SIZE
      /\ cmain \in {"run", "destroy"} => chandle["empty"] # phandle["empty"]
      /\ phandle["cs_prod"] # 0 /\ Val(phandle["cs_prod"]) = 1
      /\ Orderly => cmain \in Ended
  BY <1>1 DEF QInv, Prepared
<1>7. /\ phandle'["filled"] = phandle["filled"] /\ phandle'["empty"] = phandle["empty"]
      /\ phandle'["cs_prod"] = phandle["cs_prod"] /\ phandle'["mem"] # 0
      /\ Val(phandle["filled"])' = 0 /\ Val(phandle["empty"])' = BUFFER_SIZE
      /\ Val(phandle["cs_prod"])' = 1 /\ objs'[phandle'["mem"]] = fresh
      /\ \A k \in {"filled", "empty", "cs_cons"} : names'[k] = names[k]
  BY <1>2, <1>3, <1>6
<1>8. Prepared'
  BY <1>3, <1>6, <1>7 DEF Prepared
<1>9. Joining'
  <2>1. cmain = "connect" /\ cstep > 3 => Val(chandle["cs_cons"])' = 1
    BY <1>2, <1>3 DEF QInv, Joining
  <2>2. cmain = "connect" => cstep \in 1 .. 4
    BY Parts
  <2> QED BY <1>2, <1>7, <2>1, <2>2 DEF QInv, Joining
<1>10. Claimed'
  BY <1>2, <1>7 DEF QInv, Claimed
<1>11. Together'
  <2>1. cmain = "run" => /\ chandle["mem"] # phandle'["mem"] /\ chandle["filled"] # phandle'["filled"]
                         /\ chandle["empty"] # phandle'["empty"]
                         /\ \A k \in Names \ {"cs_prod"} : chandle[k] # 0
    BY <1>2, <1>3, <1>6, <1>7 DEF QInv, Together
  <2> QED BY <1>2, <2>1 DEF Together
<1>12. \A S : "wait_empty" \notin S => Putting(S)' = 0
  <2> SUFFICES ASSUME NEW S, "wait_empty" \notin S PROVE Putting(S)' = 0
    OBVIOUS
  <2> DEFINE all == plan.producers
             f == ppc'
  <2>1. \A p \in all : f[p] \notin S
    BY Parts DEF Forked
  <2>2. Putting(S)' = Count(all, f, S)
    BY <1>2 DEF Putting
  <2> HIDE DEF all, f
  <2> QED BY <2>1, <2>2, CountNone
<1>13. Left'
  <2>1. Val(phandle["filled"])' = 0 /\ Putting({"advance", "post_cs", "post_filled"})' = 0
        /\ Val(phandle["filled"])' = 0 /\ Waiting(objs'[phandle'["mem"]]) = 0
    BY <1>0, <1>7, <1>12
  <2>2. objs'[phandle'["mem"]].read_index = Len(objs'[phandle'["mem"]].taken) % BUFFER_SIZE
    BY <1>0, <1>7
  <2>3. Waiting(objs[phandle["mem"]])' = 0
    BY <2>1 DEF Waiting
  <2> QED BY <2>1, <2>2, <2>3 DEF Left, Val
<1>14. CBalance' /\ COne' /\ ReadAt'
  <2>1. CASE cmain = "run"
    BY <1>2, <1>4, <1>6, <1>7, <2>1, KeptConsumers
  <2>2. CASE cmain # "run"
    BY <1>2, <2>2 DEF CBalance, COne, ReadAt
  <2> QED BY <2>1, <2>2
<1>15. PBalance'
  <2>1. Returning' = 0
    <3>1. cmain = "run" => chandle'["empty"] # phandle'["empty"]
      BY <1>2, <1>6, <1>7
    <3>2. cmain # "run" => Taking({"advance", "post_cs", "post_empty"})' = 0
      BY <1>2 DEF Taking
    <3> QED BY <3>1, <3>2 DEF Returning
  <2>2. Val(phandle["empty"])' = BUFFER_SIZE /\ Val(phandle["empty"])' = BUFFER_SIZE
        /\ Putting({"wait_cs", "write"})' = 0
        /\ Waiting(objs[phandle["mem"]])' = 0
    BY <1>0, <1>7, <1>12 DEF Waiting
  <2>3. BUFFER_SIZE \in Nat
    BY Parts
  <2> QED BY <2>1, <2>2, <2>3 DEF PBalance, Val
<1>16. POne'
  <2>1. Val(phandle["cs_prod"])' = 1 /\ Putting({"write", "advance", "post_cs"})' = 0
    BY <1>7, <1>12 DEF Val
  <2> QED BY <1>7, <2>1 DEF POne, Val
<1>17. WriteAt'
  <2>1. \A p \in plan.producers : ppc'[p] # "advance"
    BY Parts DEF Forked
  <2> QED BY <1>0, <1>2, <1>7, <2>1 DEF WriteAt
<1> QED BY <1>2, <1>5, <1>8, <1>9, <1>10, <1>11, <1>13, <1>14, <1>15, <1>16, <1>17 DEF QInv

LEMMA SetupQ ==
    ASSUME IInv, QInv, IInv', SetupStep
    PROVE  QInv'
<1>0. pstep \in 1 .. 8
  BY Parts
<1>1. pmain = "setup" /\ UNCHANGED <<cvars, counts>> /\ Len(Setup) = 8
  BY DEF SetupStep, Setup
<1> DEFINE op == Setup[pstep]
<1>2. CASE /\ Succeeds(op) /\ Perform(op, Fresh[op[2]])
           /\ phandle' = IF op[1] = "create"
                         THEN [phandle EXCEPT ![op[2]] = HandleOf(op)] ELSE phandle
           /\ pmain' = IF pstep = 8 THEN "run" ELSE "setup"
           /\ pstep' = IF pstep = 8 THEN 1 ELSE pstep + 1
           /\ ppc' = IF pstep = 8 THEN Forked(Producers, plan.producers, "wait_empty") ELSE ppc
           /\ pops' = IF pstep = 8 THEN [p \in Producers |-> OPS_PER_PRODUCER] ELSE pops
  <2>1. CASE pstep \in 1 .. 4
    <3> DEFINE nm == IF pstep = 1 THEN "filled" ELSE IF pstep = 2 THEN "empty"
                     ELSE IF pstep = 3 THEN "cs_prod" ELSE "cs_cons"
    <3>1. op = <<"unlink", nm>>
      BY <2>1 DEF Setup
    <3>2. nm \in Names
      BY DEF Names
    <3> HIDE DEF nm, op
    <3>3. names' = [names EXCEPT ![nm] = 0] /\ UNCHANGED <<objs, phandle>>
      BY <1>2, <3>1 DEF Perform
    <3>4. pmain' = "setup" /\ pstep' = pstep + 1 /\ UNCHANGED <<ppc, pops>>
      BY <1>2, <2>1
    <3>5. nm = IF pstep = 1 THEN "filled" ELSE IF pstep = 2 THEN "empty"
               ELSE IF pstep = 3 THEN "cs_prod" ELSE "cs_cons"
      BY DEF nm
    <3> QED BY <1>1, <2>1, <3>2, <3>3, <3>4, <3>5, UnlinkQ
  <2>2. CASE pstep \in 5 .. 8
    <3> DEFINE nm == IF pstep = 5 THEN "filled" ELSE IF pstep = 6 THEN "empty"
                     ELSE IF pstep = 7 THEN "cs_prod" ELSE "mem"
               fresh == Fresh[nm]
    <3>1. op = <<"create", nm>>
      BY <2>2 DEF Setup
    <3>2. nm \in Names \ {"cs_cons"}
      BY DEF Names
    <3> HIDE DEF nm, op, fresh
    <3>3. PCreates(nm, fresh)
      BY <1>1, <1>2, <3>1 DEF Perform, HandleOf, PCreates, fresh
    <3>4. CASE pstep = 8
      <4>1. nm = "mem"
        BY <3>4 DEF nm
      <4> QED BY <1>2, <3>3, <3>4, <4>1, CreateMemQ DEF fresh
    <3>5. CASE pstep # 8
      <4>1. nm = IF pstep = 5 THEN "filled" ELSE IF pstep = 6 THEN "empty" ELSE "cs_prod"
        BY <2>2, <3>5 DEF nm
      <4>2. pstep \in 5 .. 7 /\ pmain' = "setup" /\ pstep' = pstep + 1 /\ UNCHANGED <<ppc, pops>>
        BY <1>2, <2>2, <3>5
      <4> QED BY <3>2, <3>3, <4>1, <4>2, CreateSemQ DEF fresh
    <3> QED BY <3>4, <3>5
  <2> QED BY <1>0, <2>1, <2>2
<1>3. CASE ~Succeeds(op) /\ pmain' = "failed"
           /\ UNCHANGED <<names, objs, pstep, phandle, ppc, pops>>
  <2>1. cmain # "run"
    <3>1. CASE Orderly
      BY <1>1, <3>1 DEF QInv, Prepared, Ended
    <3>2. CASE plan.kills = 0
      <4>1. plan'.kills = 0
        BY <1>1, <3>2 DEF counts
      <4> QED BY <1>3, <4>1 DEF IInv, Unkilled
    <3> QED BY <3>1, <3>2 DEF QInv, Covered
  <2>2. pmain' \notin {"setup", "run"} /\ UNCHANGED <<pruns, cruns, plan>>
    BY <1>1, <1>3 DEF counts
  <2> QED BY <1>1, <1>3, <2>1, <2>2, ProducerStops
<1> QED BY <1>1, <1>2, <1>3 DEF SetupStep

-----------------------------------------------------------------------------
LEMMA ConnectOpenQ ==
    ASSUME IInv, QInv, IInv', cmain = "connect", cstep \in {1, 2},
           NEW nm, nm = IF cstep = 1 THEN "filled" ELSE "empty",
           names[nm] # 0, chandle' = [chandle EXCEPT ![nm] = names[nm]],
           cmain' = "connect", cstep' = cstep + 1,
           UNCHANGED <<names, objs, cpc, cops, pvars, counts>>
    PROVE  QInv'
<1>1. /\ UNCHANGED <<names, objs, pmain, pstep, phandle, pruns, cruns, plan, cpc>>
      /\ nm \in Names /\ {"filled", "empty", "cs_cons", "mem"} \subseteq Names
  BY DEF counts, pvars, Names
<1>2. \A n \in Names : chandle'[n] = IF n = nm THEN names[n] ELSE chandle[n]
  BY <1>1, Parts
<1>3. Loses
  BY <1>1, <1>2 DEF Loses, InUse
<1>4. Accounted'
  <2>1. PToCreate' = PToCreate /\ CToCreate' = CToCreate
    BY <1>1 DEF PToCreate, CToCreate
  <2> HIDE DEF PToCreate, CToCreate
  <2> QED BY <1>1, <2>1 DEF QInv, Accounted
<1>5. pmain = "setup" => plan.kills = 0 /\ pstep \in 1 .. 8
  BY Parts DEF QInv, Prepared, Covered, Ended
<1>6. Joining'
  <2>1. CASE cstep = 1
    <3>1. pmain = "setup" => pstep > 5
      <4>1. pmain = "setup" => Filled
        BY <1>5 DEF IInv, InStep
      <4> QED BY <2>1, <4>1 DEF Filled, SetUp, Opened
    <3>2. chandle'["filled"] = names["filled"] /\ names["filled"] # 0
      BY <1>1, <1>2, <2>1
    <3> QED BY <1>1, <2>1, <3>1, <3>2 DEF Joining
  <2>2. CASE cstep = 2
    <3>1. /\ names["filled"] # 0 /\ chandle["filled"] = names["filled"]
          /\ pmain = "setup" => pstep > 5
      BY <2>2 DEF QInv, Joining
    <3>2. pmain = "setup" => pstep > 6
      <4>1. pmain = "setup" => Setting
        BY <1>5 DEF IInv, InStep
      <4> QED BY <1>5, <2>2, <3>1, <4>1 DEF Setting
    <3>3. chandle'["filled"] = names["filled"]
      BY <1>1, <1>2, <2>2, <3>1
    <3>4. chandle'["empty"] # 0 /\ chandle'["empty"] = phandle["empty"]
      BY <1>1, <1>2, <2>2 DEF QInv, Current
    <3> QED BY <1>1, <2>2, <3>1, <3>2, <3>3, <3>4 DEF Joining
  <2> QED BY <2>1, <2>2
<1>7. Claimed'
  BY DEF Claimed
<1>8. Free' => Free
  BY <1>1 DEF Free
<1>9. pmain = "setup" /\ Orderly => cmain' \in Ended
  BY DEF QInv, Prepared, Ended
<1> QED BY <1>1, <1>3, <1>4, <1>6, <1>7, <1>8, <1>9, ConsumerMoves

\* It creates its own mutex.
LEMMA ConnectCreateQ ==
    ASSUME IInv, QInv, IInv', cmain = "connect", cstep = 3, cmain' = "connect", cstep' = 4,
           NEW fresh, fresh = [value |-> 1], names' = [names EXCEPT !["cs_cons"] = Len(objs) + 1],
           names["cs_cons"] = 0,
           objs' = Append(objs, fresh), chandle' = [chandle EXCEPT !["cs_cons"] = Len(objs) + 1],
           UNCHANGED <<pmain, pstep, phandle, ppc, pops, cpc, cops, counts>>
    PROVE  QInv'
<1>1. UNCHANGED <<pmain, pstep, phandle, ppc, pops, cpc, cops, pruns, cruns, kills, plan>>
  BY DEF counts
<1> DEFINE n == Len(objs)
<1>2. /\ n \in Nat /\ objs = [i \in 1 .. n |-> objs[i]]
      /\ names \in [Names -> 0 .. n] /\ phandle \in [Names -> 0 .. n]
      /\ chandle \in [Names -> 0 .. n]
  BY Parts DEF IInv, TypeOK
<1>3. /\ Len(objs') = n + 1 /\ \A i \in 1 .. n : objs'[i] = objs[i] /\ objs'[n + 1] = fresh
  BY <1>2, Created
<1>4. n = Len(objs)
  OBVIOUS
<1>5. /\ names' = [names EXCEPT !["cs_cons"] = n + 1] /\ chandle' = [chandle EXCEPT !["cs_cons"] = n + 1]
  OBVIOUS
<1> HIDE DEF n
<1>6. /\ \A nm \in Names \ {"cs_cons"} : names'[nm] = names[nm] /\ chandle'[nm] = chandle[nm]
      /\ "cs_cons" \in Names /\ names'["cs_cons"] = n + 1 /\ chandle'["cs_cons"] = n + 1
      /\ n + 1 # 0 /\ {"filled", "empty", "cs_prod", "mem"} \subseteq Names \ {"cs_cons"}
  BY <1>2, <1>5 DEF Names
<1>7. Kept
  <2>1. Len(objs') = n + 1 /\ Len(objs) = n /\ n \in Nat
    BY <1>2, <1>3, <1>4
  <2>2. \A i \in 1 .. Len(objs) : objs'[i] = objs[i]
    BY <1>3, <2>1
  <2> QED BY <2>1, <2>2 DEF Kept
<1>8. Kinds' /\ Distinct'
  <2>1. \A k \in Names : InUse(k)' \subseteq InUse(k) \cup (IF k = "cs_cons" THEN {n + 1} ELSE {})
    BY <1>1, <1>6 DEF InUse
  <2>2. objs'[n + 1] \in [value : Nat]
    BY <1>2, <1>3
  <2> QED BY <1>4, <1>6, <1>7, <2>1, <2>2, CreatedInUse
<1>9. Covered' /\ Current'
  BY <1>1, <1>6 DEF QInv, Covered, Orderly, Current
<1>10. PKept /\ CKept
  BY <1>1 DEF PKept, CKept
<1>11. \A k \in Names : phandle[k] # 0 => Val(phandle[k])' = Val(phandle[k])
  <2> SUFFICES ASSUME NEW k \in Names, phandle[k] # 0 PROVE Val(phandle[k])' = Val(phandle[k])
    OBVIOUS
  <2>1. phandle[k] \in 1 .. n
    BY <1>2
  <2> QED BY <1>1, <1>3, <2>1 DEF Val
<1>12. Accounted'
  <2>1. PToCreate' = PToCreate /\ PToCreate \in Nat /\ CToCreate = 1 /\ CToCreate' = 0
    BY <1>1, Parts DEF PToCreate, CToCreate
  <2>2. Len(objs') = Len(objs) + 1 /\ Len(objs) \in Nat /\ pruns \in Nat /\ cruns \in Nat
    BY <1>3, <1>4, Parts
  <2> HIDE DEF PToCreate, CToCreate
  <2> QED BY <1>1, <2>1, <2>2 DEF QInv, Accounted
<1>13. names["filled"] # 0 /\ chandle["filled"] = names["filled"]
       /\ chandle["empty"] # 0 /\ chandle["empty"] = phandle["empty"]
       /\ (pmain = "setup" => pstep > 6)
  BY DEF QInv, Joining
<1>14. Prepared'
  <2>1. pmain = "setup" => pstep > 6 /\ pstep \notin 2 .. 5 /\ pstep # 5
    BY <1>13
  <2>2. Orderly' = Orderly
    BY <1>1 DEF Orderly
  <2> QED BY <1>1, <1>6, <1>11, <2>1, <2>2 DEF QInv, Prepared, Ended
<1>15. Joining'
  <2>1. Val(chandle["cs_cons"])' = 1
    BY <1>3, <1>6 DEF Val
  <2>2. /\ names'["filled"] # 0 /\ chandle'["filled"] = names'["filled"]
        /\ chandle'["empty"] # 0 /\ chandle'["empty"] = phandle'["empty"]
        /\ names'["cs_cons"] # 0 /\ chandle'["cs_cons"] = names'["cs_cons"]
    BY <1>1, <1>6, <1>13
  <2>3. pmain' = "setup" => pstep' > 6 /\ pstep' > 5
    BY <1>1, <1>13, Parts
  <2> QED BY <2>1, <2>2, <2>3 DEF Joining
<1>16. Claimed' /\ Together'
  BY DEF Claimed, Together
<1>17. Left'
  <2>1. Free' => Free
    BY <1>6 DEF Free
  <2> QED BY <1>1, <1>7, <1>10, <2>1, KeptLeft
<1>18. CBalance' /\ COne' /\ ReadAt' /\ PBalance' /\ POne' /\ WriteAt'
  BY <1>1, <1>7, <1>10, KeptConsumers, KeptProducers
<1> QED BY <1>8, <1>9, <1>12, <1>14, <1>15, <1>16, <1>17, <1>18 DEF QInv

\* It finds the memory; then the children start, on what the producers left.
LEMMA ConnectMemQ ==
    ASSUME IInv, QInv, IInv', cmain = "connect", cstep = 4, names["mem"] # 0,
           chandle' = [chandle EXCEPT !["mem"] = names["mem"]],
           cmain' = "run", cstep' = 1, cpc' = Forked(Consumers, plan.consumers, "wait_filled"),
           UNCHANGED <<names, objs, pvars, counts>>
    PROVE  QInv'
<1>1. /\ UNCHANGED <<names, objs, pmain, pstep, phandle, ppc, pruns, cruns, plan>>
      /\ {"filled", "empty", "cs_cons", "mem"} \subseteq Names
  BY DEF counts, pvars, Names
<1>2. \A k \in Names : chandle'[k] = IF k = "mem" THEN names[k] ELSE chandle[k]
  BY <1>1, Parts
<1>3. Loses
  BY <1>1, <1>2 DEF Loses, InUse
<1>4. Kept /\ Covered' /\ Kinds' /\ Distinct' /\ Current'
  BY <1>1, <1>3, LosesKeeps
<1>5. /\ names["filled"] # 0 /\ chandle["filled"] = names["filled"]
      /\ chandle["empty"] # 0 /\ chandle["empty"] = phandle["empty"]
      /\ names["cs_cons"] # 0 /\ chandle["cs_cons"] = names["cs_cons"]
      /\ Val(chandle["cs_cons"]) = 1
  BY DEF QInv, Joining
<1>6. pmain # "setup"
  <2>1. CASE Orderly
    BY <2>1 DEF QInv, Prepared, Ended
  <2>2. CASE plan.kills = 0
    BY <2>2 DEF IInv, InStep, Setting
  <2> QED BY <2>1, <2>2 DEF QInv, Covered
<1>7. names["filled"] = phandle["filled"] /\ names["mem"] = phandle["mem"]
  BY <1>5 DEF QInv, Current
<1>8. /\ chandle'["filled"] = phandle["filled"] /\ chandle'["empty"] = phandle["empty"]
      /\ chandle'["mem"] = phandle["mem"] /\ chandle'["cs_cons"] = chandle["cs_cons"]
  BY <1>1, <1>2, <1>5, <1>7
<1>9. Accounted'
  <2>1. PToCreate' = PToCreate /\ CToCreate' = 0 /\ CToCreate = 0
    BY <1>1 DEF PToCreate, CToCreate
  <2> HIDE DEF PToCreate, CToCreate
  <2> QED BY <1>1, <2>1 DEF QInv, Accounted
<1>10. Prepared' /\ Joining'
  BY <1>1, <1>6 DEF QInv, Prepared, Joining
<1>11. Claimed'
  BY <1>1, <1>5 DEF Claimed
<1>12. Together'
  <2>1. \A k \in Names \ {"cs_prod"} : chandle'[k] # 0
    BY <1>2, <1>5 DEF Names
  <2> QED BY <1>1, <1>8, <2>1 DEF Together
<1>13. Left'
  BY <1>1, <1>5 DEF Left, Free
<1>14. \A S : "wait_filled" \notin S => Taking(S)' = 0
  <2> SUFFICES ASSUME NEW S, "wait_filled" \notin S PROVE Taking(S)' = 0
    OBVIOUS
  <2> DEFINE all == plan.consumers
             f == cpc'
  <2>1. \A c \in all : f[c] \notin S
    BY Parts DEF Forked
  <2>2. Taking(S)' = Count(all, f, S)
    BY <1>1 DEF Taking
  <2> HIDE DEF all, f
  <2> QED BY <2>1, <2>2, CountNone
<1>15. PBalance' /\ POne' /\ WriteAt'
  <2>1. PKept /\ Taking({"advance", "post_cs", "post_empty"})' = 0
    BY <1>1, <1>14 DEF PKept
  <2> QED BY <1>1, <1>4, <2>1, KeptProducers
<1>16. /\ Val(phandle["filled"]) + Putting({"advance", "post_cs", "post_filled"})
             <= Waiting(objs[phandle["mem"]])
       /\ Val(phandle["filled"]) > 0 \/ pmain = "run" =>
             objs[phandle["mem"]].read_index = Len(objs[phandle["mem"]].taken) % BUFFER_SIZE
  BY <1>5 DEF QInv, Left, Free
<1>17. CBalance'
  <2>1. /\ Val(chandle["filled"])' = Val(phandle["filled"])
        /\ Taking({"wait_cs", "read"})' = 0
        /\ Posting' = Putting({"advance", "post_cs", "post_filled"})
        /\ Waiting(objs[chandle["mem"]])' = Waiting(objs[phandle["mem"]])
    BY <1>1, <1>8, <1>14 DEF Val, Posting, Waiting, Putting
  <2>2. Val(phandle["filled"]) \in Nat /\ Putting({"advance", "post_cs", "post_filled"}) \in Nat
    <3>1. phandle["filled"] \in InUse("filled") /\ "filled" \in Names \ {"mem"}
      BY <1>5, <1>7 DEF InUse, Names
    <3> QED BY <3>1, SemaphoreInUse, CountsNat
  <2> DEFINE v == Val(phandle["filled"])
             b == Putting({"advance", "post_cs", "post_filled"})
             w == Waiting(objs[phandle["mem"]])
  <2>3. v + b <= w /\ v \in Nat /\ b \in Nat
    BY <1>16, <2>2
  <2>4. (Val(chandle["filled"]) + Taking({"wait_cs", "read"}) + Posting <= Waiting(objs[chandle["mem"]]))'
           <=> v + 0 + b <= w
    BY <2>1
  <2> HIDE DEF v, b, w
  <2>5. v + 0 + b <= w
    BY <2>3
  <2> QED BY <2>4, <2>5 DEF CBalance
<1>18. COne'
  <2>1. Val(chandle["cs_cons"])' = 1 /\ Taking({"read", "advance", "post_cs"})' = 0
    BY <1>1, <1>5, <1>8, <1>14 DEF Val
  <2> QED BY <2>1 DEF COne
<1>19. ReadAt'
  <2>1. \A c \in plan.consumers : cpc'[c] = "wait_filled"
    BY Parts DEF Forked
  <2>2. Active' => Val(phandle["filled"]) > 0 \/ pmain = "run"
    BY <1>1, <1>8, <2>1 DEF Active, Val
  <2> QED BY <1>1, <1>8, <1>16, <2>1, <2>2 DEF ReadAt
<1> QED BY <1>4, <1>9, <1>10, <1>11, <1>12, <1>13, <1>15, <1>17, <1>18, <1>19 DEF QInv

LEMMA ConnectQ ==
    ASSUME IInv, QInv, IInv', ConnectStep
    PROVE  QInv'
<1>0. cstep \in 1 .. 4
  BY Parts
<1>1. cmain = "connect" /\ UNCHANGED <<pvars, counts>> /\ Len(Connect) = 4
  BY DEF ConnectStep, Connect
<1>2. CASE /\ Succeeds(Connect[cstep]) /\ Perform(Connect[cstep], Fresh[Connect[cstep][2]])
           /\ chandle' = [chandle EXCEPT ![Connect[cstep][2]] = HandleOf(Connect[cstep])]
           /\ cmain' = IF cstep = 4 THEN "run" ELSE "connect"
           /\ cstep' = IF cstep = 4 THEN 1 ELSE cstep + 1
           /\ cpc' = IF cstep = 4 THEN Forked(Consumers, plan.consumers, "wait_filled") ELSE cpc
           /\ cops' = IF cstep = 4 THEN [c \in Consumers |-> OPS_PER_CONSUMER] ELSE cops
  <2>1. CASE cstep = 3
    <3>1. Connect[cstep] = <<"create", "cs_cons">>
      BY <2>1 DEF Connect
    <3> DEFINE fresh == Fresh["cs_cons"]
    <3>2. /\ names' = [names EXCEPT !["cs_cons"] = Len(objs) + 1]
          /\ objs' = Append(objs, fresh) /\ names["cs_cons"] = 0
          /\ chandle' = [chandle EXCEPT !["cs_cons"] = Len(objs) + 1]
      BY <1>2, <3>1 DEF Perform, HandleOf, Succeeds
    <3>3. fresh = [value |-> 1]
      BY DEF Fresh, Semaphore
    <3> HIDE DEF fresh
    <3>4. /\ cmain' = "connect" /\ cstep' = 4
          /\ UNCHANGED <<pmain, pstep, phandle, ppc, pops, cpc, cops, counts>>
      BY <1>1, <1>2, <2>1 DEF pvars
    <3> QED BY <1>1, <2>1, <3>2, <3>3, <3>4, ConnectCreateQ
  <2>2. CASE cstep # 3
    <3> DEFINE nm == IF cstep = 1 THEN "filled" ELSE IF cstep = 2 THEN "empty" ELSE "mem"
    <3>1. Connect[cstep] = <<"open", nm>> /\ cstep \in {1, 2, 4}
      BY <1>0, <2>2 DEF Connect
    <3>2. cstep = 4 => nm = "mem"
      OBVIOUS
    <3>3. cstep \in {1, 2} => nm = IF cstep = 1 THEN "filled" ELSE "empty"
      OBVIOUS
    <3> HIDE DEF nm
    <3>4. names[nm] # 0 /\ chandle' = [chandle EXCEPT ![nm] = names[nm]] /\ UNCHANGED objs
      BY <1>2, <3>1 DEF Perform, HandleOf, Succeeds
    <3>5. names' = names
      <4>1. names' = [names EXCEPT ![nm] = names[nm]]
        BY <1>2, <3>1 DEF Perform
      <4> QED BY <4>1, Parts
    <3>6. CASE cstep = 4
      BY <1>1, <1>2, <3>2, <3>4, <3>5, <3>6, ConnectMemQ
    <3>7. CASE cstep \in {1, 2}
      <4>1. cmain' = "connect" /\ cstep' = cstep + 1 /\ UNCHANGED <<cpc, cops>>
        BY <1>2, <3>7
      <4> QED BY <1>1, <3>3, <3>4, <3>5, <3>7, <4>1, ConnectOpenQ
    <3> QED BY <3>1, <3>6, <3>7
  <2> QED BY <2>1, <2>2
<1>3. CASE cmain' = "failed" /\ UNCHANGED <<names, objs, cstep, chandle, cpc, cops>>
  <2>1. UNCHANGED <<pruns, cruns, plan>>
    BY <1>1 DEF counts
  <2> QED BY <1>1, <1>3, <2>1, ConsumerStopsQ
<1> QED BY <1>1, <1>2, <1>3 DEF ConnectStep

-----------------------------------------------------------------------------
(* The children. *)

\* A child of the plan moves: how a count changes.
LEMMA CountChange ==
    ASSUME NEW all, IsFiniteSet(all), NEW f, NEW g, NEW a \in all, NEW from, NEW to,
           f[a] = from, g[a] = to, \A x \in all \ {a} : g[x] = f[x], NEW S
    PROVE  Shift(Count(all, g, S), Count(all, f, S), Change(from, to, S))
<1>1. /\ g[a] \in S /\ f[a] \notin S => Count(all, g, S) = Count(all, f, S) + 1
      /\ g[a] \notin S /\ f[a] \in S => Count(all, g, S) = Count(all, f, S) - 1
      /\ (g[a] \in S <=> f[a] \in S) => Count(all, g, S) = Count(all, f, S)
  BY CountMove
<1>2. Count(all, f, S) \in Nat
  BY CountType
<1> QED BY <1>1, <1>2 DEF Shift, Change

\* The bounds move with what moves them.
LEMMA Bounded ==
    ASSUME NEW v \in Int, NEW a \in Int, NEW b \in Int, NEW w \in Int,
           NEW v2, NEW a2, NEW b2, NEW w2, NEW dv, NEW da, NEW db, NEW dw,
           Shift(v2, v, dv), Shift(a2, a, da), Shift(b2, b, db), Shift(w2, w, dw),
           v + a + b <= w, dv + da + db <= dw
    PROVE  v2 + a2 + b2 <= w2
BY DEF Shift

LEMMA DropZero ==
    ASSUME NEW v \in Int, NEW a \in Int, NEW w \in Int, v + a + 0 <= w
    PROVE  v + a <= w
OBVIOUS

\* A child changes one object in use.
Touches(nm, o) ==
    /\ o \in InUse(nm) /\ Changed(objs, objs', o)
    /\ IF nm = "mem" THEN SoundMemory(objs'[o]) ELSE objs'[o] \in [value : Nat]
    /\ UNCHANGED <<names, pmain, pstep, phandle, cmain, cstep, chandle, counts>>

LEMMA TouchesKeeps ==
    ASSUME IInv, QInv, NEW nm \in Names, NEW o, Touches(nm, o)
    PROVE  /\ Covered' /\ Kinds' /\ Distinct' /\ Accounted' /\ Current' /\ Claimed' /\ Together'
           /\ \A k \in Names : \A x \in InUse(k) : x # o => objs'[x] = objs[x]
           /\ \A k \in Names \ {nm} : o \notin InUse(k)
           /\ plan' = plan
<1>1. UNCHANGED <<names, pmain, pstep, phandle, cmain, cstep, chandle, pruns, cruns, kills, plan>>
  BY DEF Touches, counts
<1>2. \A k \in Names : InUse(k)' = InUse(k)
  BY <1>1 DEF InUse
<1>3. \A k \in Names : \A x \in InUse(k) : x # o => objs'[x] = objs[x]
  <2>1. \A k \in Names : \A x \in InUse(k) : x \in 1 .. Len(objs)
    BY Parts DEF InUse
  <2> QED BY <2>1 DEF Touches, Changed
<1>4. \A k \in Names \ {nm} : o \notin InUse(k)
  BY DEF Touches, QInv, Distinct
<1>5. Kinds'
  <2> SUFFICES ASSUME NEW k \in Names, NEW x \in InUse(k)
               PROVE  IF k = "mem" THEN SoundMemory(objs'[x]) ELSE objs'[x] \in [value : Nat]
    BY <1>2 DEF Kinds, SoundMemory, Memory
  <2>1. CASE x = o
    <3>1. k = nm
      BY <1>4, <2>1
    <3> QED BY <2>1, <3>1 DEF Touches
  <2>2. CASE x # o
    BY <1>3, <2>2 DEF QInv, Kinds
  <2> QED BY <2>1, <2>2
<1>6. Distinct'
  BY <1>2 DEF QInv, Distinct
<1>7. Accounted'
  <2>1. Len(objs') = Len(objs) /\ PToCreate' = PToCreate /\ CToCreate' = CToCreate
    BY <1>1 DEF Touches, Changed, PToCreate, CToCreate
  <2> HIDE DEF PToCreate, CToCreate
  <2> QED BY <1>1, <2>1 DEF QInv, Accounted
<1>8. Covered' /\ Current' /\ Claimed' /\ Together'
  BY <1>1 DEF QInv, Covered, Orderly, Current, Claimed, Together
<1> QED BY <1>1, <1>3, <1>4, <1>5, <1>6, <1>7, <1>8

-----------------------------------------------------------------------------
\* A step of a producer on the object nm: it changes a semaphore by d, or the
\* number of stored values by ds.
PTouch(p, from, to, nm, d, ds) ==
    /\ p \in Producers /\ from \in PWorking /\ PMove(p, from, to)
    /\ nm \in {"filled", "empty", "cs_prod", "mem"} /\ Touches(nm, phandle[nm])
    /\ d \in Int /\ ds \in Int
    /\ IF nm = "mem"
       THEN LET m == objs[phandle["mem"]]
                n == objs'[phandle["mem"]]
            IN  n.read_index = m.read_index /\ n.taken = m.taken
                /\ Shift(Waiting(n), Waiting(m), ds)
       ELSE Shift(objs'[phandle[nm]].value, objs[phandle[nm]].value, d) /\ ds = 0
    /\ (IF nm = "filled" THEN d ELSE 0) + Change(from, to, {"advance", "post_cs", "post_filled"})
             + 0 <= ds
    /\ (IF nm = "empty" THEN d ELSE 0) + Change(from, to, {"wait_cs", "write"}) + 0 <= -ds
    /\ (IF nm = "cs_prod" THEN d ELSE 0) + Change(from, to, {"write", "advance", "post_cs"})
             + 0 <= 0

LEMMA PTouchFacts ==
    ASSUME IInv, QInv, NEW p, NEW from, NEW to, NEW nm, NEW d, NEW ds,
           PTouch(p, from, to, nm, d, ds)
    PROVE  /\ Covered' /\ Kinds' /\ Distinct' /\ Accounted' /\ Current' /\ Claimed' /\ Together'
           /\ pmain = "run" /\ p \in plan.producers /\ ppc[p] = from
           /\ UNCHANGED <<names, pmain, pstep, phandle, cmain, cstep, chandle, cpc, plan>>
           /\ \A q \in Producers : ppc'[q] = IF q = p THEN to ELSE ppc[q]
           /\ \A k \in {"filled", "empty", "cs_prod"} :
                 /\ Shift(Val(phandle[k])', Val(phandle[k]), IF k = nm THEN d ELSE 0)
                 /\ Val(phandle[k]) \in Nat
           /\ Shift(Waiting(objs[phandle["mem"]])', Waiting(objs[phandle["mem"]]), ds)
           /\ Waiting(objs[phandle["mem"]]) \in Nat
           /\ \A S : Shift(Putting(S)', Putting(S), Change(from, to, S)) /\ Putting(S) \in Nat
           /\ \A S : Taking(S)' = Taking(S) /\ Taking(S) \in Nat
           /\ \A k \in Names : \A x \in InUse(k) : x # phandle[nm] => objs'[x] = objs[x]
           /\ \A k \in Names \ {nm} : phandle[nm] \notin InUse(k)
<1> DEFINE o == phandle[nm]
<1>1. nm \in Names \ {"cs_cons"} /\ nm \in Names
  BY DEF PTouch, Names
<1>2. /\ Covered' /\ Kinds' /\ Distinct' /\ Accounted' /\ Current' /\ Claimed' /\ Together'
      /\ \A k \in Names : \A x \in InUse(k) : x # o => objs'[x] = objs[x]
      /\ \A k \in Names \ {nm} : o \notin InUse(k)
      /\ plan' = plan
  BY <1>1, TouchesKeeps DEF PTouch
<1>3. /\ UNCHANGED <<names, pmain, pstep, phandle, cmain, cstep, chandle, cpc>>
      /\ ppc[p] = from /\ ppc' = [ppc EXCEPT ![p] = to] /\ p \in Producers
  BY DEF PTouch, PMove, cvars
<1>4. pmain = "run" /\ p \in plan.producers
  BY <1>3 DEF PTouch, IInv, Working
<1>5. \A q \in Producers : ppc'[q] = IF q = p THEN to ELSE ppc[q]
  BY <1>3 DEF IInv, TypeOK
<1>6. \A S : Shift(Putting(S)', Putting(S), Change(from, to, S)) /\ Putting(S) \in Nat
  <2> SUFFICES ASSUME NEW S
               PROVE  Shift(Putting(S)', Putting(S), Change(from, to, S)) /\ Putting(S) \in Nat
    OBVIOUS
  <2> DEFINE all == plan.producers
             f == ppc
             g == ppc'
  <2>1. IsFiniteSet(all) /\ p \in all /\ f[p] = from /\ g[p] = to
        /\ \A x \in all \ {p} : g[x] = f[x]
    BY <1>3, <1>4, <1>5, Parts
  <2>2. Putting(S) = Count(all, f, S) /\ Putting(S)' = Count(all, g, S)
    BY <1>2, <1>3, <1>4 DEF Putting
  <2> HIDE DEF all, f, g
  <2>3. Shift(Count(all, g, S), Count(all, f, S), Change(from, to, S))
    <3>1. IsFiniteSet(all)
      BY <2>1
    <3>2. \A x \in all \ {p} : g[x] = f[x]
      BY <2>1
    <3> QED BY <2>1, <3>1, <3>2, CountChange
  <2> QED BY <2>2, <2>3, CountsNat
<1>7. \A S : Taking(S)' = Taking(S) /\ Taking(S) \in Nat
  BY <1>2, <1>3, CountsNat DEF Taking, Count
<1>8. ASSUME NEW k \in {"filled", "empty", "cs_prod"}
      PROVE  /\ Shift(Val(phandle[k])', Val(phandle[k]), IF k = nm THEN d ELSE 0)
             /\ Val(phandle[k]) \in Nat
  <2>1. k \in Names \ {"cs_cons", "mem"}
    BY DEF Names
  <2>2. phandle[k] \in InUse(k) /\ Val(phandle[k]) \in Nat
    BY <1>4, <2>1, ProducersHold, SemaphoreInUse
  <2>3. CASE k = nm
    <3>1. Shift(objs'[phandle[nm]].value, objs[phandle[nm]].value, d)
      BY <2>1, <2>3 DEF PTouch
    <3> QED BY <1>3, <2>2, <2>3, <3>1 DEF Val
  <2>4. CASE k # nm
    <3>1. objs'[phandle[k]] = objs[phandle[k]]
      BY <1>2, <2>1, <2>2, <2>4
    <3>2. Val(phandle[k])' = Val(phandle[k])
      BY <1>3, <3>1 DEF Val
    <3> QED BY <2>2, <2>4, <3>2 DEF Shift
  <2> QED BY <2>3, <2>4
<1>9. /\ Shift(Waiting(objs[phandle["mem"]])', Waiting(objs[phandle["mem"]]), ds)
      /\ Waiting(objs[phandle["mem"]]) \in Nat
  <2>1. "mem" \in Names \ {"cs_cons"}
    BY DEF Names
  <2>2. phandle["mem"] \in InUse("mem") /\ Waiting(objs[phandle["mem"]]) \in Nat
    BY <1>4, <2>1, ProducersHold, MemoryInUse
  <2>3. Waiting(objs[phandle["mem"]])' = Waiting(objs'[phandle["mem"]])
    BY <1>3 DEF Waiting
  <2>4. CASE nm = "mem"
    BY <2>2, <2>3, <2>4 DEF PTouch
  <2>5. CASE nm # "mem"
    <3>1. objs'[phandle["mem"]] = objs[phandle["mem"]] /\ ds = 0
      BY <1>2, <2>1, <2>2, <2>5 DEF PTouch
    <3> QED BY <2>2, <2>3, <3>1 DEF Shift
  <2> QED BY <2>4, <2>5
<1> QED BY <1>2, <1>3, <1>4, <1>5, <1>6, <1>7, <1>8, <1>9

LEMMA PTouchKeeps ==
    ASSUME IInv, QInv, NEW p, NEW from, NEW to, NEW nm, NEW d, NEW ds,
           PTouch(p, from, to, nm, d, ds), WriteAt'
    PROVE  QInv'
<1> DEFINE PW == {"advance", "post_cs", "post_filled"}
           PR == {"wait_cs", "write"}
           PC == {"write", "advance", "post_cs"}
<1>1. /\ Covered' /\ Kinds' /\ Distinct' /\ Accounted' /\ Current' /\ Claimed' /\ Together'
      /\ pmain = "run" /\ p \in plan.producers /\ ppc[p] = from
      /\ UNCHANGED <<names, pmain, pstep, phandle, cmain, cstep, chandle, cpc, plan>>
  BY PTouchFacts
<1>2. \A k \in {"filled", "empty", "cs_prod"} :
         /\ Shift(Val(phandle[k])', Val(phandle[k]), IF k = nm THEN d ELSE 0)
         /\ Val(phandle[k]) \in Nat
  BY PTouchFacts
<1>3. /\ Shift(Waiting(objs[phandle["mem"]])', Waiting(objs[phandle["mem"]]), ds)
      /\ Waiting(objs[phandle["mem"]]) \in Nat
  BY PTouchFacts
<1>4. \A S : Shift(Putting(S)', Putting(S), Change(from, to, S)) /\ Putting(S) \in Nat
  BY PTouchFacts
<1>5. \A S : Taking(S)' = Taking(S) /\ Taking(S) \in Nat
  BY PTouchFacts
<1>6. /\ \A k \in Names : \A x \in InUse(k) : x # phandle[nm] => objs'[x] = objs[x]
      /\ \A k \in Names \ {nm} : phandle[nm] \notin InUse(k)
  BY PTouchFacts
<1>7. /\ nm \in {"filled", "empty", "cs_prod", "mem"} /\ d \in Int /\ ds \in Int
      /\ (IF "filled" = nm THEN d ELSE 0) + Change(from, to, PW) + 0 <= ds
      /\ (IF "empty" = nm THEN d ELSE 0) + Change(from, to, PR) + 0 <= -ds
      /\ (IF "cs_prod" = nm THEN d ELSE 0) + Change(from, to, PC) + 0 <= 0
  BY DEF PTouch
<1>8. {"filled", "empty", "cs_prod", "cs_cons", "mem"} = Names
  BY DEF Names
<1>9. Prepared'
  BY <1>1 DEF QInv, Prepared
<1>10. Joining'
  <2>1. cmain = "connect" /\ cstep > 3 => Val(chandle["cs_cons"])' = Val(chandle["cs_cons"])
    <3>1. cmain = "connect" /\ cstep > 3 => chandle["cs_cons"] \in InUse("cs_cons")
      BY DEF QInv, Joining, InUse
    <3>2. chandle["cs_cons"] \in InUse("cs_cons") => objs'[chandle["cs_cons"]] = objs[chandle["cs_cons"]]
      BY <1>6, <1>7, <1>8
    <3> QED BY <1>1, <3>1, <3>2 DEF Val
  <2> QED BY <1>1, <2>1 DEF QInv, Joining
<1>11. POne'
  <2> DEFINE v == Val(phandle["cs_prod"])
             a == Putting(PC)
             one == 1
             nil == 0
  <2>1. Shift(v', v, IF "cs_prod" = nm THEN d ELSE 0) /\ v \in Int
    BY <1>2
  <2>2. Shift(a', a, Change(from, to, PC)) /\ a \in Int
    BY <1>4
  <2>3. v + a + nil <= one
    BY <1>1, <2>1, <2>2 DEF QInv, POne
  <2>4. Shift(one', one, 0) /\ Shift(nil', nil, 0) /\ one \in Int /\ nil \in Int
    BY DEF Shift
  <2>5. v' + a' + nil' <= one'
    <3> DEFINE dv == IF "cs_prod" = nm THEN d ELSE 0
               da == Change(from, to, PC)
    <3>1. dv + da + 0 <= 0 /\ Shift(v', v, dv) /\ Shift(a', a, da)
      BY <1>7, <2>1, <2>2
    <3> HIDE DEF v, a, one, nil, dv, da
    <3> QED BY <2>1, <2>2, <2>3, <2>4, <3>1, Bounded
  <2>6. v' + a' <= 1
    <3>1. v' \in Int /\ a' \in Int
      BY <2>1, <2>2 DEF Shift
    <3>2. v' + a' + 0 <= 1 /\ 1 \in Int
      BY <2>5
    <3> HIDE DEF v, a
    <3>3. \A w \in Int : v' + a' + 0 <= w => v' + a' <= w
      BY <3>1, DropZero
    <3> QED BY <3>2, <3>3
  <2> QED BY <2>6 DEF POne
<1>12. PBalance'
  <2> DEFINE v == Val(phandle["empty"])
             a == Putting(PR)
             b == Returning
             u == Waiting(objs[phandle["mem"]])
             w == BUFFER_SIZE - u
  <2>1. Shift(v', v, IF "empty" = nm THEN d ELSE 0) /\ v \in Int
    BY <1>2
  <2>2. Shift(a', a, Change(from, to, PR)) /\ a \in Int
    BY <1>4
  <2>3. Shift(b', b, 0) /\ b \in Int
    BY <1>1, <1>5 DEF Returning, Shift
  <2>4. Shift(w', w, -ds) /\ w \in Int
    <3>1. BUFFER_SIZE \in Nat
      BY Parts
    <3>2. Shift(u', u, ds) /\ u \in Nat
      BY <1>3
    <3> HIDE DEF u
    <3> QED BY <1>7, <3>1, <3>2 DEF Shift
  <2>5. v + a + b <= w
    BY <1>1 DEF QInv, PBalance
  <2>6. v' + a' + b' <= w'
    <3> DEFINE dv == IF "empty" = nm THEN d ELSE 0
               da == Change(from, to, PR)
    <3>1. dv + da + 0 <= -ds /\ Shift(v', v, dv) /\ Shift(a', a, da)
      BY <1>7, <2>1, <2>2
    <3> HIDE DEF v, a, b, w, dv, da
    <3> QED BY <2>1, <2>2, <2>3, <2>4, <2>5, <3>1, Bounded
  <2> QED BY <2>6 DEF PBalance
<1>13. /\ pmain = "run"
       /\ nm # "mem" => objs'[phandle["mem"]] = objs[phandle["mem"]]
       /\ objs'[phandle["mem"]].read_index = objs[phandle["mem"]].read_index
       /\ objs'[phandle["mem"]].taken = objs[phandle["mem"]].taken
  <2>1. phandle["mem"] \in InUse("mem")
    BY <1>1, <1>8, ProducersHold
  <2>2. nm # "mem" => objs'[phandle["mem"]] = objs[phandle["mem"]]
    BY <1>6, <1>8, <2>1
  <2> QED BY <1>1, <2>2 DEF PTouch
<1>14. Left'
  <2> SUFFICES ASSUME Free' PROVE Left'
    BY DEF Left
  <2> DEFINE v == Val(phandle["filled"])
             a == Putting(PW)
             nil == 0
             w == Waiting(objs[phandle["mem"]])
  <2>0. Free
    BY <1>1 DEF Free
  <2>1. Shift(v', v, IF "filled" = nm THEN d ELSE 0) /\ v \in Int
    BY <1>2
  <2>2. Shift(a', a, Change(from, to, PW)) /\ a \in Int
    BY <1>4
  <2>3. Shift(nil', nil, 0) /\ nil \in Int /\ Shift(w', w, ds) /\ w \in Int
    BY <1>3 DEF Shift
  <2>4. v + a + nil <= w
    BY <2>0, <2>1, <2>2 DEF QInv, Left
  <2>5. v' + a' + nil' <= w'
    <3> DEFINE dv == IF "filled" = nm THEN d ELSE 0
               da == Change(from, to, PW)
    <3>1. dv + da + 0 <= ds /\ Shift(v', v, dv) /\ Shift(a', a, da)
      BY <1>7, <2>1, <2>2
    <3> HIDE DEF v, a, nil, w, dv, da
    <3> QED BY <2>1, <2>2, <2>3, <2>4, <3>1, Bounded
  <2>6. v' + a' <= w'
    <3>1. v' \in Int /\ a' \in Int /\ w' \in Int
      BY <2>1, <2>2, <2>3 DEF Shift
    <3>2. v' + a' + 0 <= w'
      BY <2>5
    <3> HIDE DEF v, a, w
    <3> QED BY <3>1, <3>2, DropZero
  <2>7. objs'[phandle'["mem"]].read_index = Len(objs'[phandle'["mem"]].taken) % BUFFER_SIZE
    BY <1>1, <1>13, <2>0 DEF QInv, Left
  <2> QED BY <2>6, <2>7 DEF Left
\* What the consumers see of it.
<1>15. ASSUME cmain = "run"
       PROVE  /\ chandle["filled"] \in InUse("filled") /\ chandle["mem"] \in InUse("mem")
              /\ chandle["cs_cons"] \in InUse("cs_cons")
              /\ (chandle["mem"] = phandle["mem"]) <=> (chandle["filled"] = phandle["filled"])
              /\ Val(chandle["filled"]) \in Nat /\ Val(chandle["cs_cons"]) \in Nat
              /\ Waiting(objs[chandle["mem"]]) \in Nat
  <2>1. /\ chandle["filled"] \in InUse("filled") /\ chandle["mem"] \in InUse("mem")
        /\ chandle["cs_cons"] \in InUse("cs_cons")
    BY <1>8, <1>15, ConsumersHold
  <2>2. (chandle["mem"] = phandle["mem"]) <=> (chandle["filled"] = phandle["filled"])
    BY <1>1, <1>15 DEF QInv, Together
  <2>3. "filled" \in Names \ {"mem"} /\ "cs_cons" \in Names \ {"mem"}
    BY <1>8
  <2>4. Val(chandle["filled"]) \in Nat /\ Val(chandle["cs_cons"]) \in Nat
        /\ Waiting(objs[chandle["mem"]]) \in Nat
    BY <2>1, <2>3, SemaphoreInUse, MemoryInUse
  <2> QED BY <2>1, <2>2, <2>4
<1>16. COne'
  <2> SUFFICES ASSUME cmain' = "run" PROVE COne'
    BY DEF COne
  <2>1. cmain = "run"
    BY <1>1
  <2>2. objs'[chandle["cs_cons"]] = objs[chandle["cs_cons"]]
    BY <1>6, <1>7, <1>8, <1>15, <2>1
  <2>3. Val(chandle["cs_cons"])' = Val(chandle["cs_cons"])
    BY <1>1, <2>2 DEF Val
  <2>4. Val(chandle["cs_cons"]) + Taking({"read", "advance", "post_cs"}) <= 1
    BY <2>1 DEF QInv, COne
  <2> QED BY <1>5, <2>3, <2>4 DEF COne
<1>17. ASSUME cmain = "run", chandle["filled"] # phandle["filled"]
       PROVE  /\ Val(chandle["filled"])' = Val(chandle["filled"])
              /\ objs'[chandle["mem"]] = objs[chandle["mem"]]
  <2>1. chandle["filled"] # phandle[nm] /\ chandle["mem"] # phandle[nm]
    BY <1>6, <1>7, <1>8, <1>15, <1>17
  <2>2. objs'[chandle["filled"]] = objs[chandle["filled"]]
        /\ objs'[chandle["mem"]] = objs[chandle["mem"]]
    BY <1>6, <1>8, <1>15, <1>17, <2>1
  <2> QED BY <1>1, <2>2 DEF Val
<1>18. CBalance'
  <2> SUFFICES ASSUME cmain = "run" PROVE CBalance'
    BY <1>1 DEF CBalance
  <2> DEFINE v == Val(chandle["filled"])
             a == Posting
             b == Taking({"wait_cs", "read"})
             w == Waiting(objs[chandle["mem"]])
  <2>1. v \in Int /\ w \in Int /\ a \in Int /\ b \in Int
    BY <1>4, <1>5, <1>15 DEF Posting
  <2>2. v + a + b <= w
    <3>1. v + b + a <= w
      BY DEF QInv, CBalance
    <3> HIDE DEF v, a, b, w
    <3> QED BY <2>1, <3>1
  <2>3. Shift(b', b, 0)
    BY <1>5, <2>1 DEF Shift
  <2>4. v' + a' + b' <= w'
    <3>1. CASE chandle["filled"] = phandle["filled"]
      <4>1. v' = Val(phandle["filled"])' /\ v = Val(phandle["filled"])
            /\ a = Putting(PW) /\ a' = Putting(PW)'
        BY <1>1, <3>1 DEF Val, Posting
      <4>2. chandle["mem"] = phandle["mem"]
        BY <1>15, <3>1
      <4>3. w' = Waiting(objs[phandle["mem"]])' /\ w = Waiting(objs[phandle["mem"]])
        BY <1>1, <4>2 DEF Waiting
      <4> DEFINE dv == IF "filled" = nm THEN d ELSE 0
                 da == Change(from, to, PW)
      <4>4. Shift(v', v, dv) /\ Shift(a', a, da) /\ Shift(w', w, ds)
        BY <1>2, <1>3, <1>4, <4>1, <4>3
      <4>5. dv + da + 0 <= ds
        BY <1>7
      <4> HIDE DEF v, a, b, w, dv, da
      <4> QED BY <2>1, <2>2, <2>3, <4>4, <4>5, Bounded
    <3>2. CASE chandle["filled"] # phandle["filled"]
      <4>1. v' = v /\ a = 0 /\ a' = 0 /\ w' = w
        BY <1>1, <1>17, <3>2 DEF Posting, Waiting
      <4>2. b' = b
        BY <1>5
      <4> HIDE DEF v, a, b, w
      <4> QED BY <2>2, <4>1, <4>2
    <3> QED BY <3>1, <3>2
  <2>5. v' + b' + a' <= w'
    <3>1. v' \in Int /\ a' \in Int /\ b' \in Int
      <4>1. b' \in Int
        BY <1>5, <2>1
      <4>2. a' \in Int
        BY <1>4 DEF Posting, Shift
      <4>3. v' \in Int
        <5>1. CASE chandle["filled"] = phandle["filled"]
          <6>1. v' = Val(phandle["filled"])'
            BY <1>1, <5>1 DEF Val
          <6> QED BY <1>2, <6>1 DEF Shift
        <5>2. CASE chandle["filled"] # phandle["filled"]
          BY <1>17, <2>1, <5>2
        <5> QED BY <5>1, <5>2
      <4> QED BY <4>1, <4>2, <4>3
    <3> HIDE DEF v, a, b, w
    <3> QED BY <2>4, <3>1
  <2> QED BY <2>5 DEF CBalance
<1>19. ReadAt'
  <2> SUFFICES ASSUME cmain = "run", Active' PROVE ReadAt'
    BY <1>1 DEF ReadAt
  <2>1. Active
    <3>1. CASE chandle["filled"] = phandle["filled"]
      BY <1>1, <3>1 DEF Active
    <3>2. CASE chandle["filled"] # phandle["filled"]
      BY <1>1, <1>17, <3>2 DEF Active
    <3> QED BY <3>1, <3>2
  <2>2. objs'[chandle["mem"]].read_index = objs[chandle["mem"]].read_index
        /\ objs'[chandle["mem"]].taken = objs[chandle["mem"]].taken
    BY <1>13, <1>15, <1>17
  <2> QED BY <1>1, <2>1, <2>2 DEF QInv, ReadAt, Wrapped
<1> QED BY <1>1, <1>9, <1>10, <1>11, <1>12, <1>14, <1>16, <1>18, <1>19 DEF QInv

\* What a wait and a post do to a semaphore.
LEMMA SemShift ==
    ASSUME IInv, NEW o \in 1 .. Len(objs), objs[o] \in [value : Nat], NEW d,
           (SemWait(o) /\ d = -1) \/ (SemPost(o) /\ d = 1)
    PROVE  /\ Changed(objs, objs', o) /\ objs'[o] \in [value : Nat]
           /\ Shift(objs'[o].value, objs[o].value, d)
<1>0. Len(objs) \in Nat /\ objs = [i \in 1 .. Len(objs) |-> objs[i]] /\ TypeOK
  BY DEF IInv, TypeOK
<1>1. Changed(objs, objs', o) /\ objs'[o] \in [value : Nat]
  BY <1>0, SemStep
<1>2. objs'[o].value = objs[o].value + d /\ d \in Int
  <2> DEFINE v == [objs[o] EXCEPT !.value = @ + d]
  <2>1. objs' = [objs EXCEPT ![o] = v] /\ d \in Int
    BY DEF SemWait, SemPost
  <2>2. v.value = objs[o].value + d
    OBVIOUS
  <2>3. objs'[o] = v
    <3> HIDE DEF v
    <3> QED BY <1>0, <2>1, ChangedByExcept
  <2> QED BY <2>1, <2>2, <2>3
<1> QED BY <1>1, <1>2 DEF Shift

LEMMA PSemQ ==
    ASSUME IInv, QInv, NEW p \in Producers, NEW from, NEW to, NEW nm, NEW d,
           PMove(p, from, to),
           (SemWait(phandle[nm]) /\ d = -1) \/ (SemPost(phandle[nm]) /\ d = 1),
           \/ from = "wait_empty" /\ to = "wait_cs" /\ nm = "empty" /\ d = -1
           \/ from = "wait_cs" /\ to = "write" /\ nm = "cs_prod" /\ d = -1
           \/ from = "post_cs" /\ to = "post_filled" /\ nm = "cs_prod" /\ d = 1
           \/ from = "post_filled" /\ (to = "wait_empty" \/ to = "exit") /\ nm = "filled" /\ d = 1
    PROVE  QInv'
<1>1. from \in PWorking /\ "advance" \notin {from, to}
  BY DEF PWorking
<1>2. nm \in {"filled", "empty", "cs_prod"} /\ nm \in Names \ {"cs_cons"} /\ nm \in Names \ {"mem"}
      /\ "mem" \in Names \ {"cs_cons"} /\ d \in Int
  BY DEF Names
<1>3. pmain = "run"
  BY <1>1 DEF PMove, IInv, Working
<1>4. /\ phandle[nm] \in InUse(nm) /\ phandle[nm] \in 1 .. Len(objs)
      /\ objs[phandle[nm]] \in [value : Nat] /\ phandle["mem"] \in InUse("mem")
  BY <1>2, <1>3, ProducersHold, SemaphoreInUse
<1>5. /\ Changed(objs, objs', phandle[nm]) /\ objs'[phandle[nm]] \in [value : Nat]
      /\ Shift(objs'[phandle[nm]].value, objs[phandle[nm]].value, d)
  <2> DEFINE o == phandle[nm]
  <2>1. o \in 1 .. Len(objs) /\ objs[o] \in [value : Nat]
    BY <1>4
  <2>2. (SemWait(o) /\ d = -1) \/ (SemPost(o) /\ d = 1)
    OBVIOUS
  <2> HIDE DEF o
  <2>3. Changed(objs, objs', o) /\ objs'[o] \in [value : Nat] /\ Shift(objs'[o].value, objs[o].value, d)
    BY <2>1, <2>2, SemShift
  <2> QED BY <2>3 DEF o
<1>6. Touches(nm, phandle[nm])
  BY <1>2, <1>4, <1>5 DEF Touches, PMove, cvars
<1>7. PTouch(p, from, to, nm, d, 0)
  <2>1. /\ (IF nm = "filled" THEN d ELSE 0) + Change(from, to, {"advance", "post_cs", "post_filled"})
               + 0 <= 0
        /\ (IF nm = "empty" THEN d ELSE 0) + Change(from, to, {"wait_cs", "write"}) + 0 <= -0
        /\ (IF nm = "cs_prod" THEN d ELSE 0) + Change(from, to, {"write", "advance", "post_cs"})
               + 0 <= 0
    BY DEF Change
  <2> QED BY <1>1, <1>2, <1>5, <1>6, <2>1 DEF PTouch
<1>8. /\ UNCHANGED <<phandle, pmain, plan>>
      /\ \A q \in Producers : ppc'[q] = IF q = p THEN to ELSE ppc[q]
      /\ ppc[p] = from
      /\ objs'[phandle["mem"]] = objs[phandle["mem"]]
  BY <1>2, <1>4, <1>7, PTouchFacts
<1>9. WriteAt'
  <2>1. \A q \in Producers : ppc'[q] = "advance" <=> ppc[q] = "advance"
    BY <1>1, <1>8
  <2>2. plan.producers \subseteq Producers
    BY Parts
  <2> QED BY <1>8, <2>1, <2>2 DEF QInv, WriteAt, Wrapped
<1> QED BY <1>7, <1>9, PTouchKeeps

\* One producer at a time is at the memory.
LEMMA OneWriter ==
    ASSUME IInv, QInv, NEW p \in plan.producers, ppc[p] \in {"write", "advance", "post_cs"},
           pmain = "run"
    PROVE  \A q \in plan.producers : q # p => ppc[q] \notin {"write", "advance", "post_cs"}
<1> SUFFICES ASSUME NEW q \in plan.producers, q # p, ppc[q] \in {"write", "advance", "post_cs"}
             PROVE  FALSE
  OBVIOUS
<1> DEFINE all == plan.producers
           f == ppc
           S == {"write", "advance", "post_cs"}
<1>1. IsFiniteSet(all) /\ p \in all /\ q \in all /\ f[p] \in S /\ f[q] \in S
  BY Parts
<1>2. Val(phandle["cs_prod"]) \in Nat
  <2>1. "cs_prod" \in Names \ {"mem"} /\ "cs_prod" \in Names \ {"cs_cons"}
    BY DEF Names
  <2> QED BY <2>1, ProducersHold, SemaphoreInUse
<1>3. Val(phandle["cs_prod"]) + Count(all, f, S) <= 1
  BY DEF QInv, POne, Putting
<1> HIDE DEF all, f, S
<1>4. Count(all, f, S) >= 2 /\ Count(all, f, S) \in Nat
  <2>1. IsFiniteSet(all)
    BY <1>1
  <2> QED BY <1>1, <2>1, CountTwo, CountType
<1> QED BY <1>2, <1>3, <1>4

LEMMA WriteQ ==
    ASSUME IInv, QInv, NEW p \in Producers, PMove(p, "write", "advance"),
           NEW m, m = phandle["mem"],
           objs' = [objs EXCEPT ![m].buf[objs[m].write_index] = <<p, pops[p]>>,
                                ![m].stored = Append(@, <<p, pops[p]>>)]
    PROVE  /\ QInv' /\ m \in InUse("mem") /\ <<p, pops[p]>> \in Values
           /\ Changed(objs, objs', m) /\ UNCHANGED <<names, phandle, chandle>>
           /\ objs[m].write_index = Len(objs[m].stored) % BUFFER_SIZE
           /\ Waiting(objs[m]) < BUFFER_SIZE
           /\ objs'[m] = [objs[m] EXCEPT !.buf[objs[m].write_index] = <<p, pops[p]>>,
                                         !.stored = Append(@, <<p, pops[p]>>)]
<1> DEFINE x == <<p, pops[p]>>
           v == [objs[m] EXCEPT !.buf[objs[m].write_index] = x]
           v2 == [objs[m] EXCEPT !.buf[objs[m].write_index] = x, !.stored = Append(@, x)]
<1>1. /\ "write" \in PWorking /\ pmain = "run" /\ p \in plan.producers
      /\ ppc[p] = "write" /\ pops[p] \in 1 .. OPS_PER_PRODUCER
  BY DEF PMove, PWorking, IInv, Working
<1>2. x \in Values
  BY <1>1, Parts DEF Values
<1>3. /\ m \in InUse("mem") /\ "mem" \in Names /\ m \in 1 .. Len(objs) /\ objs[m] \in Memory
      /\ Len(objs[m].stored) \in Nat /\ Len(objs[m].taken) \in Nat
      /\ Len(objs[m].taken) <= Len(objs[m].stored) /\ Waiting(objs[m]) \in Nat
  <2>1. "mem" \in Names \ {"cs_cons"}
    BY DEF Names
  <2> QED BY <1>1, <2>1, ProducersHold, MemoryInUse
<1>4. Len(objs) \in Nat /\ objs = [i \in 1 .. Len(objs) |-> objs[i]]
  BY DEF IInv, TypeOK
<1>5. Changed(objs, objs', m) /\ objs'[m] = v2
  <2> DEFINE s == [objs EXCEPT ![m] = v]
             v3 == [s[m] EXCEPT !.stored = Append(@, x)]
  <2>1. objs' = [s EXCEPT ![m] = v3]
    OBVIOUS
  <2>2. Changed(objs, s, m) /\ s[m] = v
    <3> HIDE DEF v
    <3> QED BY <1>3, <1>4, ChangedByExcept
  <2>3. v3 = v2
    BY <2>2
  <2> HIDE DEF v3, v, s, v2
  <2>4. Len(s) \in Nat /\ s = [i \in 1 .. Len(s) |-> s[i]] /\ m \in 1 .. Len(s)
    BY <1>3, <1>4, <2>2 DEF Changed
  <2>5. Changed(s, objs', m) /\ objs'[m] = v3
    BY <2>1, <2>4, ChangedByExcept
  <2> QED BY <2>2, <2>3, <2>5 DEF Changed
<1>6. /\ objs[m].stored \in Seq(Values) /\ objs[m].taken \in Seq(Cells)
      /\ objs[m].buf \in [Slots -> Cells] /\ objs[m].write_index \in Slots
      /\ objs[m].read_index \in Slots
  BY <1>3 DEF Memory
<1>7. /\ v2.buf = [objs[m].buf EXCEPT ![objs[m].write_index] = x]
      /\ v2.stored = Append(objs[m].stored, x) /\ v2.taken = objs[m].taken
      /\ v2.read_index = objs[m].read_index /\ v2.write_index = objs[m].write_index
  BY <1>3 DEF Memory
<1>8. /\ Append(objs[m].stored, x) \in Seq(Values)
      /\ Len(Append(objs[m].stored, x)) = Len(objs[m].stored) + 1
  BY <1>2, <1>6, AppendFacts
<1>9. SoundMemory(v2)
  <2>1. [objs[m].buf EXCEPT ![objs[m].write_index] = x] \in [Slots -> Cells]
    <3>1. x \in Cells
      BY <1>2 DEF Cells
    <3> QED BY <1>6, <3>1
  <2>2. v2 \in Memory
    <3>1. objs[m] \in Memory /\ Append(objs[m].stored, x) \in Seq(Values)
      BY <1>3, <1>8
    <3> HIDE DEF x
    <3> QED BY <2>1, <3>1 DEF Memory
  <2>3. Len(v2.taken) <= Len(v2.stored)
    BY <1>3, <1>7, <1>8
  <2> QED BY <2>2, <2>3 DEF SoundMemory
<1>10. Shift(Waiting(v2), Waiting(objs[m]), 1)
  <2> HIDE DEF v2
  <2> QED BY <1>3, <1>7, <1>8 DEF Waiting, Shift
<1> HIDE DEF x, v2
<1>11. UNCHANGED <<names, pmain, pstep, phandle, cmain, cstep, chandle, counts>>
  BY DEF PMove, cvars
<1>12. Touches("mem", m)
  BY <1>3, <1>5, <1>9, <1>11 DEF Touches
<1>13. PTouch(p, "write", "advance", "mem", 0, 1)
  <2>1. /\ 0 + Change("write", "advance", {"advance", "post_cs", "post_filled"}) + 0 <= 1
        /\ 0 + Change("write", "advance", {"wait_cs", "write"}) + 0 <= -1
        /\ 0 + Change("write", "advance", {"write", "advance", "post_cs"}) + 0 <= 0
    BY DEF Change
  <2>2. /\ objs'[m].read_index = objs[m].read_index /\ objs'[m].taken = objs[m].taken
        /\ Shift(Waiting(objs'[m]), Waiting(objs[m]), 1)
    BY <1>5, <1>7, <1>10
  <2> QED BY <1>1, <1>12, <2>1, <2>2 DEF PTouch
<1>14. \A q \in plan.producers : q # p => ppc[q] \notin {"write", "advance", "post_cs"}
  BY <1>1, OneWriter
<1>15. objs[m].write_index = Len(objs[m].stored) % BUFFER_SIZE
  BY <1>1, <1>14 DEF QInv, WriteAt
<1>16. /\ UNCHANGED <<phandle, pmain, plan>>
       /\ \A q \in Producers : ppc'[q] = IF q = p THEN "advance" ELSE ppc[q]
  BY <1>13, PTouchFacts
<1>17. Wrapped(objs[m].write_index) = (Len(objs[m].stored) + 1) % BUFFER_SIZE
  <2> DEFINE n == Len(objs[m].stored)
  <2>1. BUFFER_SIZE \in Nat \ {0} /\ n \in Int
    BY <1>3, Parts
  <2> HIDE DEF n
  <2>2. Wrapped(n % BUFFER_SIZE) = (n + 1) % BUFFER_SIZE
    BY <2>1, WrappedNext
  <2> QED BY <1>15, <2>2 DEF n
<1>18. WriteAt'
  <2>1. plan.producers \subseteq Producers
    BY Parts
  <2>2. /\ objs'[m].write_index = objs[m].write_index
        /\ Len(objs'[m].stored) = Len(objs[m].stored) + 1
    BY <1>5, <1>7, <1>8
  <2>3. ppc'[p] = "advance" /\ phandle'["mem"] = m
    BY <1>16
  <2>4. ~(\A q \in plan'.producers : ppc'[q] # "advance")
    BY <1>1, <1>16, <2>3
  <2>5. Wrapped(objs'[m].write_index) = Len(objs'[m].stored) % BUFFER_SIZE
    BY <1>17, <2>2
  <2> QED BY <2>3, <2>4, <2>5 DEF WriteAt, Wrapped
<1>19. QInv'
  BY <1>13, <1>18, PTouchKeeps
<1>20. Waiting(objs[m]) < BUFFER_SIZE
  <2> DEFINE all == plan.producers
             f == ppc
             S == {"wait_cs", "write"}
             e == Val(phandle["empty"])
  <2>1. IsFiniteSet(all) /\ p \in all /\ f[p] \in S
    BY <1>1, Parts
  <2>2. e \in Nat /\ Returning \in Nat /\ BUFFER_SIZE \in Nat
    <3>1. "empty" \in Names \ {"mem"} /\ "empty" \in Names \ {"cs_cons"}
      BY DEF Names
    <3> QED BY <1>1, <3>1, ProducersHold, SemaphoreInUse, CountsNat, Parts DEF Returning
  <2>3. e + Count(all, f, S) + Returning <= BUFFER_SIZE - Waiting(objs[m])
    BY <1>1 DEF QInv, PBalance, Putting
  <2> HIDE DEF all, f, S, e
  <2>4. Count(all, f, S) >= 1 /\ Count(all, f, S) \in Nat
    <3>1. IsFiniteSet(all)
      BY <2>1
    <3> QED BY <2>1, <3>1, CountOne, CountType
  <2> QED BY <1>3, <2>2, <2>3, <2>4
<1> QED BY <1>2, <1>3, <1>5, <1>11, <1>15, <1>19, <1>20 DEF x, v2

LEMMA AdvanceQ ==
    ASSUME IInv, QInv, NEW p \in Producers, PMove(p, "advance", "post_cs"),
           NEW m, m = phandle["mem"],
           objs' = [objs EXCEPT ![m].write_index = Wrapped(@)]
    PROVE  /\ QInv' /\ m \in InUse("mem") /\ Changed(objs, objs', m)
           /\ UNCHANGED <<names, phandle, chandle>>
           /\ objs'[m] = [objs[m] EXCEPT !.write_index = Wrapped(@)]
<1> DEFINE v == [objs[m] EXCEPT !.write_index = Wrapped(@)]
<1>1. /\ "advance" \in PWorking /\ pmain = "run" /\ p \in plan.producers /\ ppc[p] = "advance"
  BY DEF PMove, PWorking, IInv, Working
<1>3. /\ m \in InUse("mem") /\ "mem" \in Names /\ m \in 1 .. Len(objs) /\ objs[m] \in Memory
      /\ Len(objs[m].stored) \in Nat /\ Len(objs[m].taken) \in Nat
      /\ Len(objs[m].taken) <= Len(objs[m].stored) /\ Waiting(objs[m]) \in Nat
  <2>1. "mem" \in Names \ {"cs_cons"}
    BY DEF Names
  <2> QED BY <1>1, <2>1, ProducersHold, MemoryInUse
<1>4. Len(objs) \in Nat /\ objs = [i \in 1 .. Len(objs) |-> objs[i]]
  BY DEF IInv, TypeOK
<1>5. Changed(objs, objs', m) /\ objs'[m] = v
  <2>1. objs' = [objs EXCEPT ![m] = v]
    OBVIOUS
  <2> HIDE DEF v
  <2> QED BY <1>3, <1>4, <2>1, ChangedByExcept
<1>6. objs[m].write_index \in Slots /\ Wrapped(objs[m].write_index) \in Slots
  <2>1. objs[m].write_index \in Slots
    BY <1>3 DEF Memory
  <2> QED BY <2>1, Parts, WrappedType
<1>7. /\ v.stored = objs[m].stored /\ v.taken = objs[m].taken
      /\ v.read_index = objs[m].read_index /\ v.write_index = Wrapped(objs[m].write_index)
      /\ v \in Memory
  BY <1>3, <1>6 DEF Memory
<1> HIDE DEF v
<1>8. SoundMemory(v) /\ Shift(Waiting(v), Waiting(objs[m]), 0)
  BY <1>3, <1>7 DEF SoundMemory, Waiting, Shift
<1>11. UNCHANGED <<names, pmain, pstep, phandle, cmain, cstep, chandle, counts>>
  BY DEF PMove, cvars
<1>12. Touches("mem", m)
  BY <1>3, <1>5, <1>8, <1>11 DEF Touches
<1>13. PTouch(p, "advance", "post_cs", "mem", 0, 0)
  <2>1. /\ 0 + Change("advance", "post_cs", {"advance", "post_cs", "post_filled"}) + 0 <= 0
        /\ 0 + Change("advance", "post_cs", {"wait_cs", "write"}) + 0 <= -0
        /\ 0 + Change("advance", "post_cs", {"write", "advance", "post_cs"}) + 0 <= 0
    BY DEF Change
  <2>2. /\ objs'[m].read_index = objs[m].read_index /\ objs'[m].taken = objs[m].taken
        /\ Shift(Waiting(objs'[m]), Waiting(objs[m]), 0)
    BY <1>5, <1>7, <1>8
  <2> QED BY <1>1, <1>12, <2>1, <2>2 DEF PTouch
<1>14. \A q \in plan.producers : q # p => ppc[q] \notin {"write", "advance", "post_cs"}
  BY <1>1, OneWriter
<1>15. Wrapped(objs[m].write_index) = Len(objs[m].stored) % BUFFER_SIZE
  BY <1>1 DEF QInv, WriteAt
<1>16. /\ UNCHANGED <<phandle, pmain, plan>>
       /\ \A q \in Producers : ppc'[q] = IF q = p THEN "post_cs" ELSE ppc[q]
  BY <1>13, PTouchFacts
<1>18. WriteAt'
  <2>1. plan.producers \subseteq Producers
    BY Parts
  <2>2. objs'[m].write_index = Len(objs'[m].stored) % BUFFER_SIZE
    BY <1>5, <1>7, <1>15
  <2>3. ~(\E q \in plan'.producers : ppc'[q] = "advance") /\ phandle'["mem"] = m
    BY <1>14, <1>16, <2>1
  <2> QED BY <2>2, <2>3 DEF WriteAt
<1>19. QInv'
  BY <1>13, <1>18, PTouchKeeps
<1> QED BY <1>3, <1>5, <1>11, <1>19 DEF v

LEMMA ProduceQ ==
    ASSUME IInv, QInv, NEW p \in Producers, ProduceChild(p)
    PROVE  QInv'
<1> DEFINE m == phandle["mem"]
<1>1. CASE PMove(p, "wait_empty", "wait_cs") /\ SemWait(phandle["empty"])
  BY <1>1, PSemQ
<1>2. CASE PMove(p, "wait_cs", "write") /\ SemWait(phandle["cs_prod"])
  BY <1>2, PSemQ
<1>3. CASE /\ PMove(p, "write", "advance")
           /\ objs' = [objs EXCEPT ![m].buf[objs[m].write_index] = <<p, pops[p]>>,
                                   ![m].stored = Append(@, <<p, pops[p]>>)]
  BY <1>3, WriteQ
<1>4. CASE PMove(p, "advance", "post_cs") /\ objs' = [objs EXCEPT ![m].write_index = Wrapped(@)]
  BY <1>4, AdvanceQ
<1>5. CASE PMove(p, "post_cs", "post_filled") /\ SemPost(phandle["cs_prod"])
  BY <1>5, PSemQ
<1>6. CASE /\ PMove(p, "post_filled", IF pops[p] > 1 THEN "wait_empty" ELSE "exit")
           /\ SemPost(phandle["filled"])
  BY <1>6, PSemQ
<1> QED BY <1>1, <1>2, <1>3, <1>4, <1>5, <1>6 DEF ProduceChild

-----------------------------------------------------------------------------
\* A step of a consumer on the object nm: it changes a semaphore by d, or the
\* number of taken values by dt.
CTouch(c, from, to, nm, d, dt) ==
    /\ c \in Consumers /\ from \in CWorking /\ CMove(c, from, to)
    /\ nm \in {"filled", "empty", "cs_cons", "mem"} /\ Touches(nm, chandle[nm])
    /\ d \in Int /\ dt \in Int
    /\ IF nm = "mem"
       THEN LET m == objs[chandle["mem"]]
                n == objs'[chandle["mem"]]
            IN  n.write_index = m.write_index /\ n.stored = m.stored
                /\ Shift(Waiting(n), Waiting(m), -dt)
       ELSE Shift(objs'[chandle[nm]].value, objs[chandle[nm]].value, d) /\ dt = 0
    /\ (IF nm = "filled" THEN d ELSE 0) + Change(from, to, {"wait_cs", "read"}) + 0 <= -dt
    /\ (IF nm = "empty" THEN d ELSE 0) + Change(from, to, {"advance", "post_cs", "post_empty"})
             + 0 <= dt
    /\ (IF nm = "cs_cons" THEN d ELSE 0) + Change(from, to, {"read", "advance", "post_cs"})
             + 0 <= 0

LEMMA CTouchFacts ==
    ASSUME IInv, QInv, NEW c, NEW from, NEW to, NEW nm, NEW d, NEW dt,
           CTouch(c, from, to, nm, d, dt)
    PROVE  /\ Covered' /\ Kinds' /\ Distinct' /\ Accounted' /\ Current' /\ Claimed' /\ Together'
           /\ cmain = "run" /\ c \in plan.consumers /\ cpc[c] = from
           /\ UNCHANGED <<names, pmain, pstep, phandle, cmain, cstep, chandle, ppc, plan>>
           /\ \A q \in Consumers : cpc'[q] = IF q = c THEN to ELSE cpc[q]
           /\ \A k \in {"filled", "empty", "cs_cons"} :
                 /\ Shift(Val(chandle[k])', Val(chandle[k]), IF k = nm THEN d ELSE 0)
                 /\ Val(chandle[k]) \in Nat
           /\ Shift(Waiting(objs[chandle["mem"]])', Waiting(objs[chandle["mem"]]), -dt)
           /\ Waiting(objs[chandle["mem"]]) \in Nat
           /\ \A S : Shift(Taking(S)', Taking(S), Change(from, to, S)) /\ Taking(S) \in Nat
           /\ \A S : Putting(S)' = Putting(S) /\ Putting(S) \in Nat
           /\ \A k \in Names : \A x \in InUse(k) : x # chandle[nm] => objs'[x] = objs[x]
           /\ \A k \in Names \ {nm} : chandle[nm] \notin InUse(k)
<1> DEFINE o == chandle[nm]
<1>1. nm \in Names \ {"cs_prod"} /\ nm \in Names
  BY DEF CTouch, Names
<1>2. /\ Covered' /\ Kinds' /\ Distinct' /\ Accounted' /\ Current' /\ Claimed' /\ Together'
      /\ \A k \in Names : \A x \in InUse(k) : x # o => objs'[x] = objs[x]
      /\ \A k \in Names \ {nm} : o \notin InUse(k)
      /\ plan' = plan
  BY <1>1, TouchesKeeps DEF CTouch
<1>3. /\ UNCHANGED <<names, pmain, pstep, phandle, cmain, cstep, chandle, ppc>>
      /\ cpc[c] = from /\ cpc' = [cpc EXCEPT ![c] = to] /\ c \in Consumers
  BY DEF CTouch, CMove, pvars
<1>4. cmain = "run" /\ c \in plan.consumers
  BY <1>3 DEF CTouch, IInv, Working
<1>5. \A q \in Consumers : cpc'[q] = IF q = c THEN to ELSE cpc[q]
  BY <1>3 DEF IInv, TypeOK
<1>6. \A S : Shift(Taking(S)', Taking(S), Change(from, to, S)) /\ Taking(S) \in Nat
  <2> SUFFICES ASSUME NEW S
               PROVE  Shift(Taking(S)', Taking(S), Change(from, to, S)) /\ Taking(S) \in Nat
    OBVIOUS
  <2> DEFINE all == plan.consumers
             f == cpc
             g == cpc'
  <2>1. IsFiniteSet(all) /\ c \in all /\ f[c] = from /\ g[c] = to
        /\ \A x \in all \ {c} : g[x] = f[x]
    BY <1>3, <1>4, <1>5, Parts
  <2>2. Taking(S) = Count(all, f, S) /\ Taking(S)' = Count(all, g, S)
    BY <1>2, <1>3, <1>4 DEF Taking
  <2> HIDE DEF all, f, g
  <2>3. Shift(Count(all, g, S), Count(all, f, S), Change(from, to, S))
    <3>1. IsFiniteSet(all)
      BY <2>1
    <3>2. \A x \in all \ {c} : g[x] = f[x]
      BY <2>1
    <3> QED BY <2>1, <3>1, <3>2, CountChange
  <2> QED BY <2>2, <2>3, CountsNat
<1>7. \A S : Putting(S)' = Putting(S) /\ Putting(S) \in Nat
  BY <1>2, <1>3, CountsNat DEF Putting, Count
<1>8. ASSUME NEW k \in {"filled", "empty", "cs_cons"}
      PROVE  /\ Shift(Val(chandle[k])', Val(chandle[k]), IF k = nm THEN d ELSE 0)
             /\ Val(chandle[k]) \in Nat
  <2>1. k \in Names \ {"cs_prod", "mem"}
    BY DEF Names
  <2>2. chandle[k] \in InUse(k) /\ Val(chandle[k]) \in Nat
    BY <1>4, <2>1, ConsumersHold, SemaphoreInUse
  <2>3. CASE k = nm
    <3>1. Shift(objs'[chandle[nm]].value, objs[chandle[nm]].value, d)
      BY <2>1, <2>3 DEF CTouch
    <3> QED BY <1>3, <2>2, <2>3, <3>1 DEF Val
  <2>4. CASE k # nm
    <3>1. objs'[chandle[k]] = objs[chandle[k]]
      BY <1>2, <2>1, <2>2, <2>4
    <3>2. Val(chandle[k])' = Val(chandle[k])
      BY <1>3, <3>1 DEF Val
    <3> QED BY <2>2, <2>4, <3>2 DEF Shift
  <2> QED BY <2>3, <2>4
<1>9. /\ Shift(Waiting(objs[chandle["mem"]])', Waiting(objs[chandle["mem"]]), -dt)
      /\ Waiting(objs[chandle["mem"]]) \in Nat
  <2>1. "mem" \in Names \ {"cs_prod"}
    BY DEF Names
  <2>2. chandle["mem"] \in InUse("mem") /\ Waiting(objs[chandle["mem"]]) \in Nat
    BY <1>4, <2>1, ConsumersHold, MemoryInUse
  <2>3. Waiting(objs[chandle["mem"]])' = Waiting(objs'[chandle["mem"]])
    BY <1>3 DEF Waiting
  <2>4. CASE nm = "mem"
    BY <2>2, <2>3, <2>4 DEF CTouch
  <2>5. CASE nm # "mem"
    <3>1. objs'[chandle["mem"]] = objs[chandle["mem"]] /\ dt = 0
      BY <1>2, <2>1, <2>2, <2>5 DEF CTouch
    <3> QED BY <2>2, <2>3, <3>1 DEF Shift
  <2> QED BY <2>4, <2>5
<1> QED BY <1>2, <1>3, <1>4, <1>5, <1>6, <1>7, <1>8, <1>9

LEMMA CTouchKeeps ==
    ASSUME IInv, QInv, NEW c, NEW from, NEW to, NEW nm, NEW d, NEW dt,
           CTouch(c, from, to, nm, d, dt), ReadAt'
    PROVE  QInv'
<1> DEFINE TR == {"wait_cs", "read"}
           TW == {"advance", "post_cs", "post_empty"}
           TC == {"read", "advance", "post_cs"}
<1>1. /\ Covered' /\ Kinds' /\ Distinct' /\ Accounted' /\ Current' /\ Claimed' /\ Together'
      /\ cmain = "run" /\ c \in plan.consumers /\ cpc[c] = from
      /\ UNCHANGED <<names, pmain, pstep, phandle, cmain, cstep, chandle, ppc, plan>>
  BY CTouchFacts
<1>2. \A k \in {"filled", "empty", "cs_cons"} :
         /\ Shift(Val(chandle[k])', Val(chandle[k]), IF k = nm THEN d ELSE 0)
         /\ Val(chandle[k]) \in Nat
  BY CTouchFacts
<1>3. /\ Shift(Waiting(objs[chandle["mem"]])', Waiting(objs[chandle["mem"]]), -dt)
      /\ Waiting(objs[chandle["mem"]]) \in Nat
  BY CTouchFacts
<1>4. \A S : Shift(Taking(S)', Taking(S), Change(from, to, S)) /\ Taking(S) \in Nat
  BY CTouchFacts
<1>5. \A S : Putting(S)' = Putting(S) /\ Putting(S) \in Nat
  BY CTouchFacts
<1>6. /\ \A k \in Names : \A x \in InUse(k) : x # chandle[nm] => objs'[x] = objs[x]
      /\ \A k \in Names \ {nm} : chandle[nm] \notin InUse(k)
  BY CTouchFacts
<1>7. /\ nm \in {"filled", "empty", "cs_cons", "mem"} /\ d \in Int /\ dt \in Int
      /\ (IF "filled" = nm THEN d ELSE 0) + Change(from, to, TR) + 0 <= -dt
      /\ (IF "empty" = nm THEN d ELSE 0) + Change(from, to, TW) + 0 <= dt
      /\ (IF "cs_cons" = nm THEN d ELSE 0) + Change(from, to, TC) + 0 <= 0
  BY DEF CTouch
<1>8. {"filled", "empty", "cs_prod", "cs_cons", "mem"} = Names
  BY DEF Names
\* What the producers see of it.
<1>9. /\ phandle["filled"] # 0 /\ chandle["filled"] # phandle["filled"]
           => Val(phandle["filled"])' = Val(phandle["filled"])
      /\ phandle["empty"] # 0 /\ chandle["empty"] # phandle["empty"]
           => Val(phandle["empty"])' = Val(phandle["empty"])
      /\ phandle["cs_prod"] # 0 => Val(phandle["cs_prod"])' = Val(phandle["cs_prod"])
      /\ phandle["mem"] # 0 /\ chandle["mem"] # phandle["mem"]
           => objs'[phandle["mem"]] = objs[phandle["mem"]]
  <2>1. ASSUME NEW k \in Names, phandle[k] # 0, k = "cs_prod" \/ chandle[k] # phandle[k]
        PROVE  objs'[phandle[k]] = objs[phandle[k]]
    <3>1. phandle[k] \in InUse(k)
      BY <2>1 DEF InUse
    <3>2. phandle[k] # chandle[nm]
      BY <1>6, <1>7, <1>8, <2>1, <3>1
    <3> QED BY <1>6, <3>1, <3>2
  <2> QED BY <1>1, <1>8, <2>1 DEF Val
<1>10. Prepared'
  <2>1. pmain = "setup" => ~Orderly
    BY <1>1 DEF QInv, Prepared, Ended
  <2>2. Orderly' = Orderly
    BY <1>1 DEF Orderly
  <2>3. pmain = "setup" /\ pstep > 5 => Val(phandle["filled"])' = Val(phandle["filled"])
    BY <1>1, <1>9 DEF QInv, Prepared
  <2>4. pmain = "setup" /\ pstep > 6 => Val(phandle["empty"])' = Val(phandle["empty"])
    BY <1>1, <1>9 DEF QInv, Prepared
  <2>5. pmain = "setup" /\ pstep > 7 => Val(phandle["cs_prod"])' = Val(phandle["cs_prod"])
    BY <1>1, <1>9 DEF QInv, Prepared
  <2> QED BY <1>1, <2>1, <2>2, <2>3, <2>4, <2>5 DEF QInv, Prepared
<1>11. Joining'
  BY <1>1 DEF Joining
<1>12. COne'
  <2> DEFINE v == Val(chandle["cs_cons"])
             a == Taking(TC)
             one == 1
             nil == 0
  <2>1. Shift(v', v, IF "cs_cons" = nm THEN d ELSE 0) /\ v \in Int
    BY <1>2
  <2>2. Shift(a', a, Change(from, to, TC)) /\ a \in Int
    BY <1>4
  <2>3. v + a + nil <= one
    BY <1>1, <2>1, <2>2 DEF QInv, COne
  <2>4. Shift(one', one, 0) /\ Shift(nil', nil, 0) /\ one \in Int /\ nil \in Int
    BY DEF Shift
  <2>5. v' + a' + nil' <= one'
    <3> DEFINE dv == IF "cs_cons" = nm THEN d ELSE 0
               da == Change(from, to, TC)
    <3>1. dv + da + 0 <= 0 /\ Shift(v', v, dv) /\ Shift(a', a, da)
      BY <1>7, <2>1, <2>2
    <3> HIDE DEF v, a, one, nil, dv, da
    <3> QED BY <2>1, <2>2, <2>3, <2>4, <3>1, Bounded
  <2>6. v' + a' <= 1
    <3>1. v' \in Int /\ a' \in Int
      BY <2>1, <2>2 DEF Shift
    <3>2. v' + a' + 0 <= 1 /\ 1 \in Int
      BY <2>5
    <3> HIDE DEF v, a
    <3>3. \A w \in Int : v' + a' + 0 <= w => v' + a' <= w
      BY <3>1, DropZero
    <3> QED BY <3>2, <3>3
  <2> QED BY <2>6 DEF COne
<1>13. CBalance'
  <2> DEFINE v == Val(chandle["filled"])
             a == Taking(TR)
             b == Posting
             w == Waiting(objs[chandle["mem"]])
  <2>1. Shift(v', v, IF "filled" = nm THEN d ELSE 0) /\ v \in Int
    BY <1>2
  <2>2. Shift(a', a, Change(from, to, TR)) /\ a \in Int
    BY <1>4
  <2>3. Shift(b', b, 0) /\ b \in Int
    BY <1>1, <1>5 DEF Posting, Shift
  <2>4. Shift(w', w, -dt) /\ w \in Int
    BY <1>3
  <2>5. v + a + b <= w
    BY <1>1 DEF QInv, CBalance
  <2>6. v' + a' + b' <= w'
    <3> DEFINE dv == IF "filled" = nm THEN d ELSE 0
               da == Change(from, to, TR)
    <3>1. dv + da + 0 <= -dt /\ Shift(v', v, dv) /\ Shift(a', a, da)
      BY <1>7, <2>1, <2>2
    <3> HIDE DEF v, a, b, w, dv, da
    <3> QED BY <2>1, <2>2, <2>3, <2>4, <2>5, <3>1, Bounded
  <2> QED BY <2>6 DEF CBalance
<1>14. POne'
  <2> SUFFICES ASSUME pmain = "run" PROVE POne'
    BY <1>1 DEF POne
  <2>1. phandle["cs_prod"] # 0
    BY <1>8 DEF QInv, Prepared
  <2>2. Val(phandle["cs_prod"])' = Val(phandle["cs_prod"])
    BY <1>9, <2>1
  <2> QED BY <1>5, <2>2 DEF QInv, POne
<1>15. /\ objs'[chandle["mem"]].write_index = objs[chandle["mem"]].write_index
       /\ objs'[chandle["mem"]].stored = objs[chandle["mem"]].stored
  <2>1. chandle["mem"] \in InUse("mem")
    BY <1>1, <1>8, ConsumersHold
  <2>2. nm # "mem" => objs'[chandle["mem"]] = objs[chandle["mem"]]
    BY <1>6, <1>8, <2>1
  <2> QED BY <2>2 DEF CTouch
<1>16. WriteAt'
  <2> SUFFICES ASSUME pmain = "run" PROVE WriteAt'
    BY <1>1 DEF WriteAt
  <2>1. phandle["mem"] # 0
    BY <1>8 DEF QInv, Prepared
  <2>2. /\ objs'[phandle["mem"]].write_index = objs[phandle["mem"]].write_index
        /\ objs'[phandle["mem"]].stored = objs[phandle["mem"]].stored
    BY <1>9, <1>15, <2>1
  <2> QED BY <1>1, <2>2 DEF QInv, WriteAt, Wrapped
<1>17. PBalance'
  <2> SUFFICES ASSUME pmain = "run" PROVE PBalance'
    BY <1>1 DEF PBalance
  <2> DEFINE v == Val(phandle["empty"])
             a == Putting({"wait_cs", "write"})
             b == Returning
             u == Waiting(objs[phandle["mem"]])
             w == BUFFER_SIZE - u
  <2>0. BUFFER_SIZE \in Nat
    BY Parts
  <2>1. phandle["empty"] # 0 /\ phandle["mem"] # 0 /\ v \in Nat /\ u \in Nat
    <3>1. "empty" \in Names \ {"cs_cons"} /\ "mem" \in Names \ {"cs_cons"}
          /\ "empty" \in Names \ {"mem"}
      BY <1>8
    <3>2. phandle["empty"] \in InUse("empty") /\ phandle["mem"] \in InUse("mem")
      BY <3>1, ProducersHold
    <3> QED BY <3>1, <3>2, SemaphoreInUse, MemoryInUse DEF InUse
  <2>2. v + a + b <= w
    BY DEF QInv, PBalance
  <2>3. a' = a /\ a \in Nat
    BY <1>5
  <2>4. v' + a' + b' <= w'
    <3>1. CASE chandle["empty"] = phandle["empty"]
      <4>1. chandle["mem"] = phandle["mem"]
        BY <1>1, <3>1 DEF QInv, Together
      <4>2. v = Val(chandle["empty"]) /\ v' = Val(chandle["empty"])'
            /\ b = Taking(TW) /\ b' = Taking(TW)'
        BY <1>1, <3>1 DEF Val, Returning
      <4>3. u = Waiting(objs[chandle["mem"]]) /\ u' = Waiting(objs[chandle["mem"]])'
        BY <1>1, <4>1 DEF Waiting
      <4> DEFINE dv == IF "empty" = nm THEN d ELSE 0
                 db == Change(from, to, TW)
      <4>4. Shift(v', v, dv) /\ Shift(b', b, db) /\ Shift(u', u, -dt) /\ b \in Int
        BY <1>2, <1>3, <1>4, <4>2, <4>3
      <4>5. Shift(a', a, 0) /\ a \in Int /\ v \in Int
        BY <2>1, <2>3 DEF Shift
      <4>6. dv + db + 0 <= dt /\ dt \in Int
        BY <1>7
      <4>7. Shift(w', w, dt) /\ w \in Int
        <5> HIDE DEF u
        <5> QED BY <2>0, <2>1, <4>4, <4>6 DEF Shift
      <4> HIDE DEF v, a, b, w, dv, db
      <4>8. dv + 0 + db <= dt
        <5>1. dv \in Int /\ db \in Int
          BY <4>4 DEF Shift
        <5> QED BY <4>6, <5>1
      <4> QED BY <2>2, <4>4, <4>5, <4>7, <4>8, Bounded
    <3>2. CASE chandle["empty"] # phandle["empty"]
      <4>1. chandle["mem"] # phandle["mem"]
        BY <1>1, <3>2 DEF QInv, Together
      <4>2. v' = v /\ b = 0 /\ b' = 0 /\ u' = u
        BY <1>1, <1>9, <2>1, <3>2, <4>1 DEF Returning, Waiting
      <4>3. w' = w
        BY <4>2
      <4> HIDE DEF v, a, b, w
      <4> QED BY <2>2, <2>3, <4>2, <4>3
    <3> QED BY <3>1, <3>2
  <2> QED BY <2>4 DEF PBalance
<1>18. Left'
  <2> SUFFICES ASSUME Free' PROVE Left'
    BY DEF Left
  <2>1. Free /\ names["filled"] # 0 /\ names["mem"] # 0 /\ names["cs_cons"] = 0
    BY <1>1 DEF Free
  <2>2. chandle["filled"] # phandle["filled"]
    BY <1>1, <2>1 DEF QInv, Claimed
  <2>3. pmain # "setup"
    <3>1. CASE Orderly
      BY <1>1, <3>1 DEF QInv, Prepared, Ended
    <3>2. CASE plan.kills = 0
      BY <2>1, <3>2 DEF IInv, InStep, Setting
    <3> QED BY <3>1, <3>2 DEF QInv, Covered
  <2>4. chandle["mem"] # phandle["mem"]
    BY <1>1, <2>2, <2>3 DEF QInv, Together
  <2>5. phandle["filled"] # 0 /\ phandle["mem"] # 0
    BY <2>1, FreeHandles
  <2>6. /\ Val(phandle["filled"])' = Val(phandle["filled"])
        /\ objs'[phandle["mem"]] = objs[phandle["mem"]]
    BY <1>9, <2>2, <2>4, <2>5
  <2> QED BY <1>1, <1>5, <2>1, <2>6 DEF QInv, Left, Waiting
<1> QED BY <1>1, <1>10, <1>11, <1>12, <1>13, <1>14, <1>16, <1>17, <1>18 DEF QInv

LEMMA CSemQ ==
    ASSUME IInv, QInv, NEW c \in Consumers, NEW from, NEW to, NEW nm, NEW d,
           CMove(c, from, to),
           (SemWait(chandle[nm]) /\ d = -1) \/ (SemPost(chandle[nm]) /\ d = 1),
           \/ /\ from = "wait_filled" /\ to = "wait_cs" /\ nm = "filled" /\ d = -1
              /\ Val(chandle["filled"]) > 0
           \/ from = "wait_cs" /\ to = "read" /\ nm = "cs_cons" /\ d = -1
           \/ from = "post_cs" /\ to = "post_empty" /\ nm = "cs_cons" /\ d = 1
           \/ from = "post_empty" /\ (to = "wait_filled" \/ to = "exit") /\ nm = "empty" /\ d = 1
    PROVE  QInv'
<1>1. from \in CWorking /\ "advance" \notin {from, to}
  BY DEF CWorking
<1>2. nm \in {"filled", "empty", "cs_cons"} /\ nm \in Names \ {"cs_prod"} /\ nm \in Names \ {"mem"}
      /\ "mem" \in Names \ {"cs_prod"} /\ d \in Int
  BY DEF Names
<1>3. cmain = "run" /\ c \in plan.consumers
  BY <1>1 DEF CMove, IInv, Working
<1>4. /\ chandle[nm] \in InUse(nm) /\ chandle[nm] \in 1 .. Len(objs)
      /\ objs[chandle[nm]] \in [value : Nat] /\ chandle["mem"] \in InUse("mem")
  BY <1>2, <1>3, ConsumersHold, SemaphoreInUse
<1>5. /\ Changed(objs, objs', chandle[nm]) /\ objs'[chandle[nm]] \in [value : Nat]
      /\ Shift(objs'[chandle[nm]].value, objs[chandle[nm]].value, d)
  <2> DEFINE o == chandle[nm]
  <2>1. o \in 1 .. Len(objs) /\ objs[o] \in [value : Nat]
    BY <1>4
  <2>2. (SemWait(o) /\ d = -1) \/ (SemPost(o) /\ d = 1)
    OBVIOUS
  <2> HIDE DEF o
  <2>3. Changed(objs, objs', o) /\ objs'[o] \in [value : Nat] /\ Shift(objs'[o].value, objs[o].value, d)
    BY <2>1, <2>2, SemShift
  <2> QED BY <2>3 DEF o
<1>6. Touches(nm, chandle[nm])
  BY <1>2, <1>4, <1>5 DEF Touches, CMove, pvars
<1>7. CTouch(c, from, to, nm, d, 0)
  <2>1. /\ (IF nm = "filled" THEN d ELSE 0) + Change(from, to, {"wait_cs", "read"}) + 0 <= -0
        /\ (IF nm = "empty" THEN d ELSE 0) + Change(from, to, {"advance", "post_cs", "post_empty"})
               + 0 <= 0
        /\ (IF nm = "cs_cons" THEN d ELSE 0) + Change(from, to, {"read", "advance", "post_cs"})
               + 0 <= 0
    BY DEF Change
  <2> QED BY <1>1, <1>2, <1>5, <1>6, <2>1 DEF CTouch
<1>8. /\ UNCHANGED <<chandle, cmain, plan>>
      /\ \A q \in Consumers : cpc'[q] = IF q = c THEN to ELSE cpc[q]
      /\ cpc[c] = from
      /\ objs'[chandle["mem"]] = objs[chandle["mem"]]
  BY <1>2, <1>4, <1>7, CTouchFacts
<1>9. ReadAt'
  <2>1. \A q \in Consumers : cpc'[q] = "advance" <=> cpc[q] = "advance"
    BY <1>1, <1>8
  <2>2. plan.consumers \subseteq Consumers
    BY Parts
  <2>3. Active
    BY <1>3, <1>8 DEF Active, CWorking
  <2> QED BY <1>8, <2>1, <2>2, <2>3 DEF QInv, ReadAt, Wrapped
<1> QED BY <1>7, <1>9, CTouchKeeps

\* One consumer at a time is at the memory.
LEMMA OneReader ==
    ASSUME IInv, QInv, NEW c \in plan.consumers, cpc[c] \in {"read", "advance", "post_cs"},
           cmain = "run"
    PROVE  \A q \in plan.consumers : q # c => cpc[q] \notin {"read", "advance", "post_cs"}
<1> SUFFICES ASSUME NEW q \in plan.consumers, q # c, cpc[q] \in {"read", "advance", "post_cs"}
             PROVE  FALSE
  OBVIOUS
<1> DEFINE all == plan.consumers
           f == cpc
           S == {"read", "advance", "post_cs"}
<1>1. IsFiniteSet(all) /\ c \in all /\ q \in all /\ f[c] \in S /\ f[q] \in S
  BY Parts
<1>2. Val(chandle["cs_cons"]) \in Nat
  <2>1. "cs_cons" \in Names \ {"mem"} /\ "cs_cons" \in Names \ {"cs_prod"}
    BY DEF Names
  <2> QED BY <2>1, ConsumersHold, SemaphoreInUse
<1>3. Val(chandle["cs_cons"]) + Count(all, f, S) <= 1
  BY DEF QInv, COne, Taking
<1> HIDE DEF all, f, S
<1>4. Count(all, f, S) >= 2 /\ Count(all, f, S) \in Nat
  <2>1. IsFiniteSet(all)
    BY <1>1
  <2> QED BY <1>1, <2>1, CountTwo, CountType
<1> QED BY <1>2, <1>3, <1>4

LEMMA ReadQ ==
    ASSUME IInv, QInv, NEW c \in Consumers, CMove(c, "read", "advance"),
           NEW m, m = chandle["mem"],
           objs' = [objs EXCEPT ![m].taken = Append(@, objs[m].buf[objs[m].read_index])]
    PROVE  /\ QInv' /\ m \in InUse("mem")
           /\ Changed(objs, objs', m) /\ UNCHANGED <<names, phandle, chandle>>
           /\ objs[m].read_index = Len(objs[m].taken) % BUFFER_SIZE
           /\ Waiting(objs[m]) > 0
           /\ objs'[m] = [objs[m] EXCEPT !.taken = Append(@, objs[m].buf[objs[m].read_index])]
<1> DEFINE x == objs[m].buf[objs[m].read_index]
           v == [objs[m] EXCEPT !.taken = Append(@, x)]
<1>1. /\ "read" \in CWorking /\ cmain = "run" /\ c \in plan.consumers /\ cpc[c] = "read"
  BY DEF CMove, CWorking, IInv, Working
<1>3. /\ m \in InUse("mem") /\ "mem" \in Names /\ m \in 1 .. Len(objs) /\ objs[m] \in Memory
      /\ Len(objs[m].stored) \in Nat /\ Len(objs[m].taken) \in Nat
      /\ Len(objs[m].taken) <= Len(objs[m].stored) /\ Waiting(objs[m]) \in Nat
  <2>1. "mem" \in Names \ {"cs_prod"}
    BY DEF Names
  <2> QED BY <1>1, <2>1, ConsumersHold, MemoryInUse
<1>4. Len(objs) \in Nat /\ objs = [i \in 1 .. Len(objs) |-> objs[i]]
  BY DEF IInv, TypeOK
<1>5. Changed(objs, objs', m) /\ objs'[m] = v
  <2>1. objs' = [objs EXCEPT ![m] = v]
    OBVIOUS
  <2> HIDE DEF v
  <2> QED BY <1>3, <1>4, <2>1, ChangedByExcept
<1>6. /\ objs[m].stored \in Seq(Values) /\ objs[m].taken \in Seq(Cells)
      /\ objs[m].buf \in [Slots -> Cells] /\ objs[m].read_index \in Slots /\ x \in Cells
  BY <1>3 DEF Memory
<1>7. /\ v.buf = objs[m].buf /\ v.stored = objs[m].stored /\ v.taken = Append(objs[m].taken, x)
      /\ v.read_index = objs[m].read_index /\ v.write_index = objs[m].write_index
  BY <1>3 DEF Memory
<1>8. /\ Append(objs[m].taken, x) \in Seq(Cells)
      /\ Len(Append(objs[m].taken, x)) = Len(objs[m].taken) + 1
  <2> HIDE DEF x
  <2> QED BY <1>6, AppendFacts
<1>20. Waiting(objs[m]) > 0
  <2> DEFINE all == plan.consumers
             f == cpc
             S == {"wait_cs", "read"}
             e == Val(chandle["filled"])
  <2>1. IsFiniteSet(all) /\ c \in all /\ f[c] \in S
    BY <1>1, Parts
  <2>2. e \in Nat /\ Posting \in Nat
    <3>1. "filled" \in Names \ {"mem"} /\ "filled" \in Names \ {"cs_prod"}
      BY DEF Names
    <3> QED BY <1>1, <3>1, ConsumersHold, SemaphoreInUse, CountsNat DEF Posting
  <2>3. e + Count(all, f, S) + Posting <= Waiting(objs[m])
    BY <1>1 DEF QInv, CBalance, Taking
  <2> HIDE DEF all, f, S, e
  <2>4. Count(all, f, S) >= 1 /\ Count(all, f, S) \in Nat
    <3>1. IsFiniteSet(all)
      BY <2>1
    <3> QED BY <2>1, <3>1, CountOne, CountType
  <2> QED BY <1>3, <2>2, <2>3, <2>4
<1>9. SoundMemory(v)
  <2>2. v \in Memory
    <3>1. objs[m] \in Memory /\ Append(objs[m].taken, x) \in Seq(Cells)
      BY <1>3, <1>8
    <3> HIDE DEF x
    <3> QED BY <3>1 DEF Memory
  <2>3. Len(v.taken) <= Len(v.stored)
    <3>1. Len(v.taken) = Len(objs[m].taken) + 1 /\ v.stored = objs[m].stored
      BY <1>7, <1>8
    <3>2. Len(objs[m].stored) - Len(objs[m].taken) > 0
      BY <1>20 DEF Waiting
    <3> HIDE DEF v
    <3>3. Len(objs[m].taken) + 1 <= Len(objs[m].stored)
      <4> DEFINE a == Len(objs[m].taken)
                 b == Len(objs[m].stored)
      <4>1. a \in Nat /\ b \in Nat /\ b - a > 0
        BY <1>3, <3>2
      <4> HIDE DEF a, b
      <4>2. a + 1 <= b
        BY <4>1
      <4> QED BY <4>2 DEF a, b
    <3> QED BY <3>1, <3>3
  <2> QED BY <2>2, <2>3 DEF SoundMemory
<1>10. Shift(Waiting(v), Waiting(objs[m]), -1)
  <2> HIDE DEF v
  <2> QED BY <1>3, <1>7, <1>8 DEF Waiting, Shift
<1> HIDE DEF x, v
<1>11. UNCHANGED <<names, pmain, pstep, phandle, cmain, cstep, chandle, counts>>
  BY DEF CMove, pvars
<1>12. Touches("mem", m)
  BY <1>3, <1>5, <1>9, <1>11 DEF Touches
<1>13. CTouch(c, "read", "advance", "mem", 0, 1)
  <2>1. /\ 0 + Change("read", "advance", {"wait_cs", "read"}) + 0 <= -1
        /\ 0 + Change("read", "advance", {"advance", "post_cs", "post_empty"}) + 0 <= 1
        /\ 0 + Change("read", "advance", {"read", "advance", "post_cs"}) + 0 <= 0
    BY DEF Change
  <2>2. /\ objs'[m].write_index = objs[m].write_index /\ objs'[m].stored = objs[m].stored
        /\ Shift(Waiting(objs'[m]), Waiting(objs[m]), -1)
    BY <1>5, <1>7, <1>10
  <2> QED BY <1>1, <1>12, <2>1, <2>2 DEF CTouch
<1>14. \A q \in plan.consumers : q # c => cpc[q] \notin {"read", "advance", "post_cs"}
  BY <1>1, OneReader
<1>15. objs[m].read_index = Len(objs[m].taken) % BUFFER_SIZE
  <2>1. Active
    BY <1>1 DEF Active
  <2>2. \A q \in plan.consumers : cpc[q] # "advance"
    BY <1>1, <1>14
  <2> QED BY <1>1, <2>1, <2>2 DEF QInv, ReadAt
<1>16. /\ UNCHANGED <<chandle, cmain, plan>>
       /\ \A q \in Consumers : cpc'[q] = IF q = c THEN "advance" ELSE cpc[q]
  BY <1>13, CTouchFacts
<1>17. Wrapped(objs[m].read_index) = (Len(objs[m].taken) + 1) % BUFFER_SIZE
  <2> DEFINE n == Len(objs[m].taken)
  <2>1. BUFFER_SIZE \in Nat \ {0} /\ n \in Int
    BY <1>3, Parts
  <2> HIDE DEF n
  <2>2. Wrapped(n % BUFFER_SIZE) = (n + 1) % BUFFER_SIZE
    BY <2>1, WrappedNext
  <2> QED BY <1>15, <2>2 DEF n
<1>18. ReadAt'
  <2>1. plan.consumers \subseteq Consumers
    BY Parts
  <2>2. /\ objs'[m].read_index = objs[m].read_index
        /\ Len(objs'[m].taken) = Len(objs[m].taken) + 1
    BY <1>5, <1>7, <1>8
  <2>3. cpc'[c] = "advance" /\ chandle'["mem"] = m
    BY <1>16
  <2>4. ~(\A q \in plan'.consumers : cpc'[q] # "advance")
    BY <1>1, <1>16, <2>3
  <2>5. Wrapped(objs'[m].read_index) = Len(objs'[m].taken) % BUFFER_SIZE
    BY <1>17, <2>2
  <2> QED BY <2>3, <2>4, <2>5 DEF ReadAt, Wrapped
<1>19. QInv'
  BY <1>13, <1>18, CTouchKeeps
<1> QED BY <1>3, <1>5, <1>11, <1>15, <1>19, <1>20 DEF x, v

LEMMA CAdvanceQ ==
    ASSUME IInv, QInv, NEW c \in Consumers, CMove(c, "advance", "post_cs"),
           NEW m, m = chandle["mem"],
           objs' = [objs EXCEPT ![m].read_index = Wrapped(@)]
    PROVE  /\ QInv' /\ m \in InUse("mem") /\ Changed(objs, objs', m)
           /\ UNCHANGED <<names, phandle, chandle>>
           /\ objs'[m] = [objs[m] EXCEPT !.read_index = Wrapped(@)]
<1> DEFINE v == [objs[m] EXCEPT !.read_index = Wrapped(@)]
<1>1. /\ "advance" \in CWorking /\ cmain = "run" /\ c \in plan.consumers /\ cpc[c] = "advance"
  BY DEF CMove, CWorking, IInv, Working
<1>3. /\ m \in InUse("mem") /\ "mem" \in Names /\ m \in 1 .. Len(objs) /\ objs[m] \in Memory
      /\ Len(objs[m].stored) \in Nat /\ Len(objs[m].taken) \in Nat
      /\ Len(objs[m].taken) <= Len(objs[m].stored) /\ Waiting(objs[m]) \in Nat
  <2>1. "mem" \in Names \ {"cs_prod"}
    BY DEF Names
  <2> QED BY <1>1, <2>1, ConsumersHold, MemoryInUse
<1>4. Len(objs) \in Nat /\ objs = [i \in 1 .. Len(objs) |-> objs[i]]
  BY DEF IInv, TypeOK
<1>5. Changed(objs, objs', m) /\ objs'[m] = v
  <2>1. objs' = [objs EXCEPT ![m] = v]
    OBVIOUS
  <2> HIDE DEF v
  <2> QED BY <1>3, <1>4, <2>1, ChangedByExcept
<1>6. objs[m].read_index \in Slots /\ Wrapped(objs[m].read_index) \in Slots
  <2>1. objs[m].read_index \in Slots
    BY <1>3 DEF Memory
  <2> QED BY <2>1, Parts, WrappedType
<1>7. /\ v.stored = objs[m].stored /\ v.taken = objs[m].taken
      /\ v.write_index = objs[m].write_index /\ v.read_index = Wrapped(objs[m].read_index)
      /\ v \in Memory
  BY <1>3, <1>6 DEF Memory
<1> HIDE DEF v
<1>8. SoundMemory(v) /\ Shift(Waiting(v), Waiting(objs[m]), -0)
  BY <1>3, <1>7 DEF SoundMemory, Waiting, Shift
<1>11. UNCHANGED <<names, pmain, pstep, phandle, cmain, cstep, chandle, counts>>
  BY DEF CMove, pvars
<1>12. Touches("mem", m)
  BY <1>3, <1>5, <1>8, <1>11 DEF Touches
<1>13. CTouch(c, "advance", "post_cs", "mem", 0, 0)
  <2>1. /\ 0 + Change("advance", "post_cs", {"wait_cs", "read"}) + 0 <= -0
        /\ 0 + Change("advance", "post_cs", {"advance", "post_cs", "post_empty"}) + 0 <= 0
        /\ 0 + Change("advance", "post_cs", {"read", "advance", "post_cs"}) + 0 <= 0
    BY DEF Change
  <2>2. /\ objs'[m].write_index = objs[m].write_index /\ objs'[m].stored = objs[m].stored
        /\ Shift(Waiting(objs'[m]), Waiting(objs[m]), -0)
    BY <1>5, <1>7, <1>8
  <2> QED BY <1>1, <1>12, <2>1, <2>2 DEF CTouch
<1>14. \A q \in plan.consumers : q # c => cpc[q] \notin {"read", "advance", "post_cs"}
  BY <1>1, OneReader
<1>15. Wrapped(objs[m].read_index) = Len(objs[m].taken) % BUFFER_SIZE
  <2>1. Active
    BY <1>1 DEF Active
  <2> QED BY <1>1, <2>1 DEF QInv, ReadAt
<1>16. /\ UNCHANGED <<chandle, cmain, plan>>
       /\ \A q \in Consumers : cpc'[q] = IF q = c THEN "post_cs" ELSE cpc[q]
  BY <1>13, CTouchFacts
<1>18. ReadAt'
  <2>1. plan.consumers \subseteq Consumers
    BY Parts
  <2>2. objs'[m].read_index = Len(objs'[m].taken) % BUFFER_SIZE
    BY <1>5, <1>7, <1>15
  <2>3. ~(\E q \in plan'.consumers : cpc'[q] = "advance") /\ chandle'["mem"] = m
    BY <1>14, <1>16, <2>1
  <2> QED BY <2>2, <2>3 DEF ReadAt
<1>19. QInv'
  BY <1>13, <1>18, CTouchKeeps
<1> QED BY <1>3, <1>5, <1>11, <1>19 DEF v

LEMMA ConsumeQ ==
    ASSUME IInv, QInv, NEW c \in Consumers, ConsumeChild(c)
    PROVE  QInv'
<1> DEFINE m == chandle["mem"]
<1>1. CASE CMove(c, "wait_filled", "wait_cs") /\ SemWait(chandle["filled"])
  <2>1. Val(chandle["filled"]) > 0
    BY <1>1 DEF SemWait, Val
  <2> QED BY <1>1, <2>1, CSemQ
<1>2. CASE CMove(c, "wait_cs", "read") /\ SemWait(chandle["cs_cons"])
  BY <1>2, CSemQ
<1>3. CASE /\ CMove(c, "read", "advance")
           /\ objs' = [objs EXCEPT ![m].taken = Append(@, objs[m].buf[objs[m].read_index])]
  BY <1>3, ReadQ
<1>4. CASE CMove(c, "advance", "post_cs") /\ objs' = [objs EXCEPT ![m].read_index = Wrapped(@)]
  BY <1>4, CAdvanceQ
<1>5. CASE CMove(c, "post_cs", "post_empty") /\ SemPost(chandle["cs_cons"])
  BY <1>5, CSemQ
<1>6. CASE /\ CMove(c, "post_empty", IF cops[c] > 1 THEN "wait_filled" ELSE "exit")
           /\ SemPost(chandle["empty"])
  BY <1>6, CSemQ
<1> QED BY <1>1, <1>2, <1>3, <1>4, <1>5, <1>6 DEF ConsumeChild

-----------------------------------------------------------------------------
LEMMA InitiallyQ ==
    ASSUME Init, Covered
    PROVE  QInv
<1>1. /\ pmain = "idle" /\ cmain = "idle" /\ pruns = 0 /\ cruns = 0 /\ objs = <<>> /\ plan \in Plans
      /\ \A nm \in Names : names[nm] = 0 /\ phandle[nm] = 0 /\ chandle[nm] = 0
  BY DEF Init
<1>2. \A nm \in Names : InUse(nm) = {}
  BY <1>1 DEF InUse
<1>3. Kinds /\ Distinct
  BY <1>2 DEF Kinds, Distinct
<1>4. Accounted
  <2>1. PToCreate = 0 /\ CToCreate = 0 /\ Len(objs) = 0 /\ plan.runs \in Nat
    BY <1>1, ShmAssumption DEF PToCreate, CToCreate
  <2> QED BY <1>1, <2>1 DEF Accounted
<1>5. ~Free
  BY <1>1 DEF Free, Names
<1>6. Current
  BY <1>1 DEF Current, Names
<1> QED BY <1>1, <1>3, <1>4, <1>5, <1>6
        DEF QInv, Prepared, Joining, Claimed, Together, Left, CBalance, COne, ReadAt,
            PBalance, POne, WriteAt

LEMMA StutterQ ==
    ASSUME QInv, UNCHANGED vars
    PROVE  QInv'
<1>1. UNCHANGED <<names, objs, pmain, pstep, phandle, ppc, cmain, cstep, chandle, cpc,
                  pruns, cruns, plan>>
  BY DEF vars, pvars, cvars, counts
<1>2. /\ \A nm \in Names : InUse(nm)' = InUse(nm)
      /\ Orderly' = Orderly /\ Free' = Free /\ Active' = Active
      /\ \A S : Putting(S)' = Putting(S) /\ Taking(S)' = Taking(S)
  BY <1>1 DEF InUse, Orderly, Free, Active, Val, Putting, Taking, Count
<1>3. Covered' /\ Kinds' /\ Distinct' /\ Current'
  BY <1>1, <1>2 DEF QInv, Covered, Kinds, SoundMemory, Memory, Distinct, Current
<1>4. Accounted'
  <2>1. PToCreate' = PToCreate /\ CToCreate' = CToCreate
    BY <1>1 DEF PToCreate, CToCreate
  <2> HIDE DEF PToCreate, CToCreate
  <2> QED BY <1>1, <2>1 DEF QInv, Accounted
<1>5. Prepared' /\ Joining' /\ Claimed' /\ Together'
  BY <1>1, <1>2 DEF QInv, Prepared, Joining, Claimed, Together, Val
<1>6. Left' /\ CBalance' /\ COne' /\ PBalance' /\ POne'
  BY <1>1, <1>2 DEF QInv, Left, CBalance, COne, PBalance, POne, Val, Waiting, Posting, Returning
<1>7. ReadAt' /\ WriteAt'
  BY <1>1, <1>2 DEF QInv, ReadAt, WriteAt, Wrapped
<1> QED BY <1>3, <1>4, <1>5, <1>6, <1>7 DEF QInv

LEMMA InductiveQ ==
    ASSUME IInv, QInv, IInv', [Next]_vars
    PROVE  QInv'
<1>1. CASE Programs
  BY <1>1, LaunchProducerQ, SetupQ, ProducerStopsQ, LaunchConsumerQ, ConnectQ, KillConsumerQ,
     CDestroyQ DEF Programs
<1>2. CASE KillProducer \/ KillConsumer
  BY <1>2, ProducerStopsQ, KillConsumerQ
<1>3. CASE Terminated \/ UNCHANGED vars
  BY <1>3, StutterQ DEF Terminated
<1>4. CASE \E p \in Producers : ProduceChild(p)
  BY <1>4, ProduceQ
<1>5. CASE \E c \in Consumers : ConsumeChild(c)
  BY <1>5, ConsumeQ
<1> QED BY <1>1, <1>2, <1>3, <1>4, <1>5 DEF Next

-----------------------------------------------------------------------------
(* The memory implements the queues. *)

\* The queue of an object and what it delivered, as the refinement mapping
\* reads them.
Content(o) == IF IsMemory(o) THEN Contents(objs[o]) ELSE <<>>
Delivered(o) == IF IsMemory(o) THEN objs[o].taken ELSE <<>>

\* How they change, and which step of the queues that is.
LEMMA AsStutter ==
    ASSUME \A o \in Objects : Content(o)' = Content(o) /\ Delivered(o)' = Delivered(o)
    PROVE  UNCHANGED Queues!queueVars
BY DEF Queues!queueVars, Content, Delivered

LEMMA AsPut ==
    ASSUME NEW m \in Objects, NEW v \in Values, Len(Content(m)) < BUFFER_SIZE,
           Content(m)' = Append(Content(m), v),
           \A o \in Objects \ {m} : Content(o)' = Content(o),
           \A o \in Objects : Delivered(o)' = Delivered(o)
    PROVE  Queues!QueueNext
<1>1. Queues!Put(m, v)
  BY DEF Queues!Put, Content, Delivered
<1> QED BY <1>1 DEF Queues!QueueNext, Values

LEMMA AsTake ==
    ASSUME NEW m \in Objects, Content(m) # <<>>, Content(m)' = Tail(Content(m)),
           Delivered(m)' = Append(Delivered(m), Head(Content(m))),
           \A o \in Objects \ {m} : Content(o)' = Content(o) /\ Delivered(o)' = Delivered(o)
    PROVE  Queues!QueueNext
<1>1. Queues!Take(m)
  BY DEF Queues!Take, Content, Delivered
<1> QED BY <1>1 DEF Queues!QueueNext

\* There are no more objects than the mapping has numbers for.
LEMMA ObjectNumber ==
    ASSUME IInv, QInv, NEW o \in 1 .. Len(objs)
    PROVE  o \in Objects
<1>1. /\ Len(objs) \in Nat /\ pruns \in Nat /\ cruns \in Nat /\ plan \in Plans
      /\ plan.runs \in Nat
  BY Parts, ShmAssumption
<1>2. PToCreate \in Nat /\ CToCreate \in Nat
  <2>1. pstep \in 1 .. 8
    BY Parts
  <2> QED BY <2>1 DEF PToCreate, CToCreate
<1>3. /\ Len(objs) + PToCreate + CToCreate <= 4 * pruns + cruns
      /\ pruns <= plan.runs /\ cruns <= plan.runs
  BY DEF QInv, Accounted
<1> HIDE DEF PToCreate, CToCreate
<1>4. Len(objs) <= 5 * plan.runs
  BY <1>1, <1>2, <1>3
<1>5. o \in 1 .. 5 * plan.runs
  BY <1>1, <1>4
<1> QED BY <1>1, <1>5 DEF Objects

\* The objects that a step does not touch.
LEMMA OthersKeep ==
    ASSUME IInv, NEW m, Changed(objs, objs', m), NEW o, o # m
    PROVE  Content(o)' = Content(o) /\ Delivered(o)' = Delivered(o)
<1>1. /\ objs = [i \in 1 .. Len(objs) |-> objs[i]] /\ Len(objs') = Len(objs)
      /\ objs' = [i \in 1 .. Len(objs') |-> objs'[i]]
      /\ \A i \in 1 .. Len(objs) : i # m => objs'[i] = objs[i]
  BY DEF IInv, TypeOK, Changed
<1>2. DOMAIN objs = 1 .. Len(objs) /\ DOMAIN objs' = 1 .. Len(objs)
  BY <1>1
<1>3. IsMemory(o)' <=> IsMemory(o)
  BY <1>1, <1>2 DEF IsMemory
<1>4. IsMemory(o) => objs'[o] = objs[o]
  BY <1>1, <1>2 DEF IsMemory
<1> QED BY <1>3, <1>4 DEF Content, Delivered, Contents

\* What memory is, and what a semaphore is not.
LEMMA MemoryIs ==
    ASSUME NEW s, DOMAIN s = 1 .. Len(s), NEW o \in 1 .. Len(s)
    PROVE  /\ s[o] \in Memory => o \in DOMAIN s /\ "buf" \in DOMAIN s[o]
           /\ s[o] \in [value : Nat] => ~("buf" \in DOMAIN s[o])
BY DEF Memory

\* A semaphore changes, or an index of the memory.
LEMMA AsNoValue ==
    ASSUME IInv, NEW o \in 1 .. Len(objs), Changed(objs, objs', o),
           \/ objs[o] \in [value : Nat] /\ objs'[o] \in [value : Nat]
           \/ /\ objs[o] \in Memory /\ objs'[o] \in Memory
              /\ objs'[o].buf = objs[o].buf /\ objs'[o].stored = objs[o].stored
              /\ objs'[o].taken = objs[o].taken
    PROVE  UNCHANGED Queues!queueVars
<1>1. DOMAIN objs = 1 .. Len(objs)
  BY DEF IInv, TypeOK
<1>2. DOMAIN objs' = 1 .. Len(objs') /\ Len(objs') = Len(objs)
  BY DEF Changed
<1>3. CASE objs[o] \in [value : Nat] /\ objs'[o] \in [value : Nat]
  <2>1. ~IsMemory(o) /\ ~IsMemory(o)'
    BY <1>1, <1>2, <1>3, MemoryIs DEF IsMemory
  <2>2. Content(o)' = Content(o) /\ Delivered(o)' = Delivered(o)
    BY <2>1 DEF Content, Delivered
  <2> QED BY <2>2, OthersKeep, AsStutter
<1>4. CASE /\ objs[o] \in Memory /\ objs'[o] \in Memory
           /\ objs'[o].buf = objs[o].buf /\ objs'[o].stored = objs[o].stored
           /\ objs'[o].taken = objs[o].taken
  <2>1. IsMemory(o) /\ IsMemory(o)'
    BY <1>1, <1>2, <1>4, MemoryIs DEF IsMemory
  <2>2. Content(o)' = Content(o) /\ Delivered(o)' = Delivered(o)
    BY <1>4, <2>1 DEF Content, Delivered, Contents
  <2> QED BY <2>2, OthersKeep, AsStutter
<1> QED BY <1>3, <1>4

\* Nothing but a new object.
LEMMA AsNew ==
    ASSUME IInv, objs' = objs \/ \E nm \in Names : objs' = Append(objs, Fresh[nm])
    PROVE  UNCHANGED Queues!queueVars
<1>1. Len(objs) \in Nat /\ objs = [i \in 1 .. Len(objs) |-> objs[i]] /\ DOMAIN objs = 1 .. Len(objs)
  BY DEF IInv, TypeOK
<1>2. CASE objs' = objs
  <2>1. \A o : Content(o)' = Content(o) /\ Delivered(o)' = Delivered(o)
    BY <1>2 DEF Content, Delivered, IsMemory, Contents
  <2> QED BY <2>1, AsStutter
<1>3. ASSUME NEW nm \in Names, objs' = Append(objs, Fresh[nm])
      PROVE  UNCHANGED Queues!queueVars
  <2> DEFINE fresh == Fresh[nm]
  <2>1. /\ Len(objs') = Len(objs) + 1 /\ objs' = [i \in 1 .. Len(objs') |-> objs'[i]]
        /\ \A i \in 1 .. Len(objs) : objs'[i] = objs[i]
        /\ objs'[Len(objs) + 1] = fresh
    <3>1. objs' = Append(objs, fresh)
      BY <1>3
    <3>2. \A s, x : Len(s) \in Nat /\ s = [i \in 1 .. Len(s) |-> s[i]] =>
             /\ Len(Append(s, x)) = Len(s) + 1
             /\ Append(s, x) = [i \in 1 .. Len(Append(s, x)) |-> Append(s, x)[i]]
             /\ \A i \in 1 .. Len(s) : Append(s, x)[i] = s[i]
             /\ Append(s, x)[Len(s) + 1] = x
      BY Created
    <3> DEFINE t == Append(objs, fresh)
    <3>3. /\ Len(t) = Len(objs) + 1 /\ t = [i \in 1 .. Len(t) |-> t[i]]
          /\ \A i \in 1 .. Len(objs) : t[i] = objs[i]
          /\ t[Len(objs) + 1] = fresh
      <4> HIDE DEF fresh
      <4> QED BY <1>1, <3>2
    <3> HIDE DEF fresh, t
    <3>4. objs' = t
      BY <3>1 DEF t
    <3> QED BY <3>3, <3>4
  <2>2. DOMAIN objs' = 1 .. Len(objs) + 1
    BY <2>1
  <2>3. ASSUME NEW o, o # Len(objs) + 1
        PROVE  Content(o)' = Content(o) /\ Delivered(o)' = Delivered(o)
    <3>1. o \in DOMAIN objs' <=> o \in DOMAIN objs
      BY <1>1, <2>2, <2>3
    <3>2. o \in DOMAIN objs => objs'[o] = objs[o]
      BY <1>1, <2>1
    <3>3. IsMemory(o)' <=> IsMemory(o)
      BY <3>1, <3>2 DEF IsMemory
    <3> QED BY <3>2, <3>3 DEF Content, Delivered, Contents, IsMemory
  <2>4. ASSUME NEW o, o = Len(objs) + 1
        PROVE  Content(o)' = Content(o) /\ Delivered(o)' = Delivered(o)
    <3>1. o \notin DOMAIN objs
      BY <1>1, <2>4
    <3>2. Content(o) = <<>> /\ Delivered(o) = <<>>
      BY <3>1 DEF Content, Delivered, IsMemory
    <3>3. objs'[o] = fresh
      BY <2>1, <2>4
    <3>4. CASE nm = "mem"
      <4>1. fresh.taken = <<>> /\ fresh.stored = <<>>
        BY <3>4 DEF Fresh
      <4>2. Contents(fresh) = <<>>
        <5>1. Len(fresh.taken) = 0 /\ Len(fresh.stored) - Len(fresh.taken) = 0
          BY <4>1
        <5> HIDE DEF fresh
        <5> QED BY <5>1, WindowEmpty DEF Contents
      <4>3. Content(o)' \in {<<>>, Contents(fresh)} /\ Delivered(o)' \in {<<>>, fresh.taken}
        BY <3>3 DEF Content, Delivered, Contents
      <4> QED BY <3>2, <4>1, <4>2, <4>3
    <3>5. CASE nm # "mem"
      <4>1. fresh \in {[value |-> 0], [value |-> 1], [value |-> BUFFER_SIZE]}
        BY <3>5 DEF Fresh, Names, Semaphore
      <4>2. ~("buf" \in DOMAIN fresh)
        <5> HIDE DEF fresh
        <5> QED BY <4>1
      <4>3. ~IsMemory(o)'
        BY <3>3, <4>2 DEF IsMemory
      <4> QED BY <3>2, <4>3 DEF Content, Delivered
    <3> QED BY <3>4, <3>5
  <2> QED BY <2>3, <2>4, AsStutter
<1> QED BY <1>2, <1>3

\* The main processes create objects, and do no more to them.
LEMMA PerformIsNew ==
    ASSUME IInv, NEW op, op[2] \in Names, Perform(op, Fresh[op[2]])
    PROVE  UNCHANGED Queues!queueVars
<1>1. objs' = objs \/ objs' = Append(objs, Fresh[op[2]])
  BY DEF Perform
<1> QED BY <1>1, AsNew

LEMMA ProgramsAreNew ==
    ASSUME IInv, Programs \/ KillProducer \/ KillConsumer \/ Terminated \/ UNCHANGED vars
    PROVE  UNCHANGED Queues!queueVars
<1>0. pstep \in 1 .. 8 /\ cstep \in 1 .. 4
  BY Parts
<1>1. CASE \/ LaunchProducer \/ JoinProducers \/ LaunchConsumer \/ JoinConsumers
           \/ KillProducer \/ KillConsumer \/ Terminated \/ UNCHANGED vars
  <2>1. UNCHANGED objs
    BY <1>1 DEF LaunchProducer, JoinProducers, LaunchConsumer, JoinConsumers, KillProducer,
                KillConsumer, Terminated, vars
  <2> QED BY <2>1, AsNew
<1>2. CASE SetupStep
  <2>1. Setup[pstep][2] \in Names
    BY <1>0 DEF Setup, Names
  <2>2. objs' = objs \/ Perform(Setup[pstep], Fresh[Setup[pstep][2]])
    BY <1>2 DEF SetupStep
  <2> QED BY <2>1, <2>2, AsNew, PerformIsNew
<1>3. CASE ConnectStep
  <2>1. Connect[cstep][2] \in Names
    BY <1>0 DEF Connect, Names
  <2>2. objs' = objs \/ Perform(Connect[cstep], Fresh[Connect[cstep][2]])
    BY <1>3 DEF ConnectStep
  <2> QED BY <2>1, <2>2, AsNew, PerformIsNew
<1>4. CASE PDestroyStep
  <2>1. objs' = objs
    BY <1>4 DEF PDestroyStep, Perform, PDestroy
  <2> QED BY <2>1, AsNew
<1>5. CASE CDestroyStep
  <2>1. CDestroy[cstep][2] \in Names
    BY <1>0 DEF CDestroy, Names
  <2>2. objs' = objs \/ Perform(CDestroy[cstep], Fresh[CDestroy[cstep][2]])
    BY <1>5 DEF CDestroyStep
  <2> QED BY <2>1, <2>2, AsNew, PerformIsNew
<1> QED BY <1>1, <1>2, <1>3, <1>4, <1>5 DEF Programs

\* A child that waits or posts.
LEMMA SemIsNoValue ==
    ASSUME IInv, QInv, NEW nm \in Names \ {"mem"}, NEW o \in InUse(nm), SemWait(o) \/ SemPost(o)
    PROVE  UNCHANGED Queues!queueVars
<1>1. o \in 1 .. Len(objs) /\ objs[o] \in [value : Nat]
  BY SemaphoreInUse
<1>2. Changed(objs, objs', o) /\ objs'[o] \in [value : Nat]
  BY <1>1, SemStep DEF IInv
<1> QED BY <1>1, <1>2, AsNoValue

\* The memory that a child works on, as a queue.
LEMMA QueueOf ==
    ASSUME IInv, QInv, NEW m \in InUse("mem")
    PROVE  /\ m \in Objects /\ m \in 1 .. Len(objs) /\ objs[m] \in Memory /\ IsMemory(m)
           /\ Len(objs[m].taken) \in Nat /\ Len(objs[m].stored) \in Nat
           /\ Waiting(objs[m]) \in Nat
           /\ Content(m) = Window(objs[m].buf, BUFFER_SIZE, Len(objs[m].taken), Waiting(objs[m]))
           /\ Delivered(m) = objs[m].taken
<1>1. /\ m \in 1 .. Len(objs) /\ objs[m] \in Memory /\ Waiting(objs[m]) \in Nat
      /\ Len(objs[m].taken) \in Nat /\ Len(objs[m].stored) \in Nat
  BY MemoryInUse
<1>2. DOMAIN objs = 1 .. Len(objs)
  BY DEF IInv, TypeOK
<1>3. IsMemory(m)
  BY <1>1, <1>2, MemoryIs DEF IsMemory
<1>4. m \in Objects
  BY <1>1, ObjectNumber
<1> QED BY <1>1, <1>3, <1>4 DEF Content, Delivered, Contents, Waiting

LEMMA WriteInQueue ==
    ASSUME IInv, QInv, NEW p \in Producers, PMove(p, "write", "advance"),
           NEW m, m = phandle["mem"],
           objs' = [objs EXCEPT ![m].buf[objs[m].write_index] = <<p, pops[p]>>,
                                ![m].stored = Append(@, <<p, pops[p]>>)]
    PROVE  Queues!QueueNext
<1> DEFINE x == <<p, pops[p]>>
           first == Len(objs[m].taken)
           count == Waiting(objs[m])
           array == objs[m].buf
           slot == objs[m].write_index
           new == objs'[m].buf
<1>1. /\ m \in InUse("mem") /\ x \in Values /\ Changed(objs, objs', m)
      /\ slot = Len(objs[m].stored) % BUFFER_SIZE /\ count < BUFFER_SIZE
      /\ objs'[m] = [objs[m] EXCEPT !.buf[slot] = x, !.stored = Append(@, x)]
  BY WriteQ
<1>2. /\ m \in Objects /\ m \in 1 .. Len(objs) /\ objs[m] \in Memory /\ count \in Nat
      /\ first \in Nat /\ Len(objs[m].stored) \in Nat
      /\ Content(m) = Window(array, BUFFER_SIZE, first, count)
      /\ Delivered(m) = objs[m].taken
  BY <1>1, QueueOf
<1>3. /\ array \in [Slots -> Cells] /\ slot \in Slots /\ objs[m].stored \in Seq(Values)
      /\ x \in Cells /\ BUFFER_SIZE \in Nat \ {0}
  BY <1>1, <1>2, Parts DEF Memory, Cells
<1>4. /\ new = [array EXCEPT ![slot] = x] /\ objs'[m].taken = objs[m].taken
      /\ objs'[m].stored = Append(objs[m].stored, x) /\ "buf" \in DOMAIN objs'[m]
  <2> DEFINE v == [objs[m] EXCEPT !.buf[slot] = x, !.stored = Append(@, x)]
  <2>1. /\ v.buf = [array EXCEPT ![slot] = x] /\ v.taken = objs[m].taken
        /\ v.stored = Append(objs[m].stored, x) /\ "buf" \in DOMAIN v
    BY <1>2 DEF Memory
  <2>2. objs'[m] = v
    BY <1>1
  <2> HIDE DEF v
  <2> QED BY <2>1, <2>2
<1>5. Len(objs'[m].stored) = Len(objs[m].stored) + 1
  <2> DEFINE s == objs[m].stored
  <2>1. x \in Values /\ s \in Seq(Values)
    BY <1>1, <1>3
  <2> HIDE DEF x, s
  <2>2. Len(Append(s, x)) = Len(s) + 1
    BY <2>1, AppendFacts
  <2> QED BY <1>4, <2>2 DEF s
<1>6. Len(objs'[m].stored) - Len(objs'[m].taken) = count + 1
  <2> DEFINE a == Len(objs[m].stored)
  <2>1. count = a - first /\ a \in Nat /\ first \in Nat
    BY <1>2 DEF Waiting
  <2> DEFINE a2 == Len(objs'[m].stored)
             b2 == Len(objs'[m].taken)
  <2>2. a2 = a + 1 /\ b2 = first
    BY <1>4, <1>5
  <2> HIDE DEF a, first, count, a2, b2
  <2>3. a2 - b2 = count + 1
    BY <2>1, <2>2
  <2> QED BY <2>3 DEF a2, b2
<1>7. IsMemory(m)'
  <2>1. m \in DOMAIN objs'
    BY <1>1, <1>2 DEF Changed
  <2> QED BY <1>4, <2>1 DEF IsMemory
<1>8. Content(m)' = Window(new, BUFFER_SIZE, first, count + 1)
  BY <1>4, <1>6, <1>7 DEF Content, Contents
<1>9. Delivered(m)' = Delivered(m)
  BY <1>2, <1>4, <1>7 DEF Delivered
<1>10. Content(m)' = Append(Content(m), x)
  <2>1. StoredIn(Cells, array, new, BUFFER_SIZE, slot, x)
    <3>1. array \in [Slots -> Cells] /\ slot \in Slots /\ x \in Cells
      BY <1>3
    <3>2. new = [array EXCEPT ![slot] = x]
      BY <1>4
    <3> HIDE DEF x, array, slot, new
    <3>3. new \in [Slots -> Cells] /\ new[slot] = x
      BY <3>1, <3>2
    <3>4. \A k \in Slots : k # slot => new[k] = array[k]
      BY <3>1, <3>2
    <3> QED BY <3>1, <3>3, <3>4 DEF StoredIn, Slots
  <2>2. slot = (first + count) % BUFFER_SIZE
    <3> DEFINE a == Len(objs[m].stored)
    <3>1. count = a - first /\ a \in Nat /\ first \in Nat
      BY <1>2 DEF Waiting
    <3>2. slot = a % BUFFER_SIZE
      BY <1>1
    <3> HIDE DEF a, first, count, slot
    <3>3. first + count = a
      BY <3>1
    <3> QED BY <3>2, <3>3
  <2>3. x \in Cells /\ first \in Nat /\ count \in Nat /\ count < BUFFER_SIZE
        /\ BUFFER_SIZE \in Nat \ {0}
    BY <1>1, <1>2, <1>3
  <2> HIDE DEF x, slot, first, array, new, count
  <2>5. Grows(array, new, BUFFER_SIZE, first, count, x)
    BY <2>1, <2>2, <2>3, WindowAppend
  <2> QED BY <1>2, <1>8, <2>5 DEF Grows
<1>11. Len(Content(m)) < BUFFER_SIZE
  <2>1. Len(Content(m)) = count
    <3> HIDE DEF count, first, array
    <3> QED BY <1>2, WindowLen
  <2> QED BY <1>1, <2>1
<1>12. \A o \in Objects \ {m} : Content(o)' = Content(o) /\ Delivered(o)' = Delivered(o)
  BY <1>1, OthersKeep
<1> HIDE DEF x
<1>13. \A o \in Objects : Delivered(o)' = Delivered(o)
  BY <1>9, <1>12
<1> QED BY <1>1, <1>2, <1>10, <1>11, <1>12, <1>13, AsPut

LEMMA ReadInQueue ==
    ASSUME IInv, QInv, NEW c \in Consumers, CMove(c, "read", "advance"),
           NEW m, m = chandle["mem"],
           objs' = [objs EXCEPT ![m].taken = Append(@, objs[m].buf[objs[m].read_index])]
    PROVE  Queues!QueueNext
<1> DEFINE first == Len(objs[m].taken)
           count == Waiting(objs[m])
           array == objs[m].buf
           slot == objs[m].read_index
           x == array[slot]
<1>1. /\ m \in InUse("mem") /\ Changed(objs, objs', m)
      /\ slot = first % BUFFER_SIZE /\ count > 0
      /\ objs'[m] = [objs[m] EXCEPT !.taken = Append(@, x)]
  BY ReadQ
<1>2. /\ m \in Objects /\ m \in 1 .. Len(objs) /\ objs[m] \in Memory /\ count \in Nat
      /\ first \in Nat /\ Len(objs[m].stored) \in Nat
      /\ Content(m) = Window(array, BUFFER_SIZE, first, count)
      /\ Delivered(m) = objs[m].taken
  BY <1>1, QueueOf
<1>3. x \in Cells /\ objs[m].taken \in Seq(Cells) /\ BUFFER_SIZE \in Nat \ {0}
  BY <1>2, Parts DEF Memory
<1>4. /\ objs'[m].buf = array /\ objs'[m].taken = Append(objs[m].taken, x)
      /\ objs'[m].stored = objs[m].stored /\ "buf" \in DOMAIN objs'[m]
  <2>1. objs[m] \in Memory
    BY <1>2
  <2> HIDE DEF x
  <2> QED BY <1>1, <2>1 DEF Memory
<1>5. Len(objs'[m].taken) = first + 1
  <2> HIDE DEF x
  <2> QED BY <1>3, <1>4, AppendFacts
<1>6. Len(objs'[m].stored) - Len(objs'[m].taken) = count - 1
  <2> DEFINE a == Len(objs[m].stored)
  <2>1. count = a - first /\ a \in Nat /\ first \in Nat
    BY <1>2 DEF Waiting
  <2> DEFINE a2 == Len(objs'[m].stored)
             b2 == Len(objs'[m].taken)
  <2>2. a2 = a /\ b2 = first + 1
    BY <1>4, <1>5
  <2> HIDE DEF a, first, count, a2, b2
  <2>3. a2 - b2 = count - 1
    BY <2>1, <2>2
  <2> QED BY <2>3 DEF a2, b2
<1>7. IsMemory(m)'
  <2>1. m \in DOMAIN objs'
    BY <1>1, <1>2 DEF Changed
  <2> QED BY <1>4, <2>1 DEF IsMemory
<1>8. Content(m)' = Window(array, BUFFER_SIZE, first + 1, count - 1)
  BY <1>4, <1>5, <1>6, <1>7 DEF Content, Contents
<1>9. /\ Content(m) # <<>> /\ Head(Content(m)) = array[first % BUFFER_SIZE]
      /\ Shrinks(array, BUFFER_SIZE, first, count)
  <2> HIDE DEF first, count, array
  <2> QED BY <1>1, <1>2, <1>3, WindowTake
<1>10. Content(m)' = Tail(Content(m))
  BY <1>2, <1>8, <1>9 DEF Shrinks
<1>11. Delivered(m)' = Append(Delivered(m), Head(Content(m)))
  BY <1>1, <1>2, <1>4, <1>7, <1>9 DEF Delivered
<1>12. \A o \in Objects \ {m} : Content(o)' = Content(o) /\ Delivered(o)' = Delivered(o)
  BY <1>1, OthersKeep
<1> QED BY <1>2, <1>9, <1>10, <1>11, <1>12, AsTake

LEMMA ProduceImplements ==
    ASSUME IInv, QInv, NEW p \in Producers, ProduceChild(p)
    PROVE  [Queues!QueueNext]_Queues!queueVars
<1> DEFINE m == phandle["mem"]
<1>0. pmain = "run"
  BY DEF ProduceChild, PMove, IInv, Working, PWorking
<1>1. /\ "empty" \in Names \ {"mem"} /\ "cs_prod" \in Names \ {"mem"} /\ "filled" \in Names \ {"mem"}
      /\ phandle["empty"] \in InUse("empty") /\ phandle["cs_prod"] \in InUse("cs_prod")
      /\ phandle["filled"] \in InUse("filled")
  BY <1>0, ProducersHold DEF Names
<1>2. CASE SemWait(phandle["empty"]) \/ SemWait(phandle["cs_prod"])
           \/ SemPost(phandle["cs_prod"]) \/ SemPost(phandle["filled"])
  BY <1>1, <1>2, SemIsNoValue
<1>3. CASE /\ PMove(p, "write", "advance")
           /\ objs' = [objs EXCEPT ![m].buf[objs[m].write_index] = <<p, pops[p]>>,
                                   ![m].stored = Append(@, <<p, pops[p]>>)]
  BY <1>3, WriteInQueue
<1>4. CASE PMove(p, "advance", "post_cs") /\ objs' = [objs EXCEPT ![m].write_index = Wrapped(@)]
  <2>1. /\ m \in InUse("mem") /\ Changed(objs, objs', m)
        /\ objs'[m] = [objs[m] EXCEPT !.write_index = Wrapped(@)]
    BY <1>4, AdvanceQ
  <2>2. m \in 1 .. Len(objs) /\ objs[m] \in Memory
    BY <2>1, MemoryInUse
  <2>3. Wrapped(objs[m].write_index) \in Slots
    <3>1. objs[m].write_index \in Slots
      BY <2>2 DEF Memory
    <3> QED BY <3>1, Parts, WrappedType
  <2>4. objs'[m] \in Memory /\ objs'[m].buf = objs[m].buf /\ objs'[m].stored = objs[m].stored
        /\ objs'[m].taken = objs[m].taken
    BY <2>1, <2>2, <2>3 DEF Memory
  <2> HIDE DEF m
  <2> QED BY <2>1, <2>2, <2>4, AsNoValue
<1> QED BY <1>2, <1>3, <1>4 DEF ProduceChild

LEMMA ConsumeImplements ==
    ASSUME IInv, QInv, NEW c \in Consumers, ConsumeChild(c)
    PROVE  [Queues!QueueNext]_Queues!queueVars
<1> DEFINE m == chandle["mem"]
<1>0. cmain = "run"
  BY DEF ConsumeChild, CMove, IInv, Working, CWorking
<1>1. /\ "empty" \in Names \ {"mem"} /\ "cs_cons" \in Names \ {"mem"} /\ "filled" \in Names \ {"mem"}
      /\ chandle["empty"] \in InUse("empty") /\ chandle["cs_cons"] \in InUse("cs_cons")
      /\ chandle["filled"] \in InUse("filled")
  BY <1>0, ConsumersHold DEF Names
<1>2. CASE SemWait(chandle["filled"]) \/ SemWait(chandle["cs_cons"])
           \/ SemPost(chandle["cs_cons"]) \/ SemPost(chandle["empty"])
  BY <1>1, <1>2, SemIsNoValue
<1>3. CASE /\ CMove(c, "read", "advance")
           /\ objs' = [objs EXCEPT ![m].taken = Append(@, objs[m].buf[objs[m].read_index])]
  BY <1>3, ReadInQueue
<1>4. CASE CMove(c, "advance", "post_cs") /\ objs' = [objs EXCEPT ![m].read_index = Wrapped(@)]
  <2>1. /\ m \in InUse("mem") /\ Changed(objs, objs', m)
        /\ objs'[m] = [objs[m] EXCEPT !.read_index = Wrapped(@)]
    BY <1>4, CAdvanceQ
  <2>2. m \in 1 .. Len(objs) /\ objs[m] \in Memory
    BY <2>1, MemoryInUse
  <2>3. Wrapped(objs[m].read_index) \in Slots
    <3>1. objs[m].read_index \in Slots
      BY <2>2 DEF Memory
    <3> QED BY <3>1, Parts, WrappedType
  <2>4. objs'[m] \in Memory /\ objs'[m].buf = objs[m].buf /\ objs'[m].stored = objs[m].stored
        /\ objs'[m].taken = objs[m].taken
    BY <2>1, <2>2, <2>3 DEF Memory
  <2> HIDE DEF m
  <2> QED BY <2>1, <2>2, <2>4, AsNoValue
<1> QED BY <1>2, <1>3, <1>4 DEF ConsumeChild

LEMMA StepImplements ==
    ASSUME IInv, QInv, [Next]_vars
    PROVE  [Queues!QueueNext]_Queues!queueVars
BY ProgramsAreNew, ProduceImplements, ConsumeImplements DEF Next

\* Every shared memory object is a FIFO of BUFFER_SIZE values for whoever
\* maps it: whatever is killed, if the programs are launched in order; in
\* whatever order they are launched, if nothing is killed.
THEOREM ShmIsQueue == Spec /\ (Orderly \/ plan.kills = 0) => ImplementsQueue
<1>1. Init /\ Covered => IInv /\ QInv /\ Queues!QueueInit
  <2> SUFFICES ASSUME Init, Covered PROVE IInv /\ QInv /\ Queues!QueueInit
    OBVIOUS
  <2>1. \A o : ~IsMemory(o)
    BY DEF Init, IsMemory
  <2>2. Queues!QueueInit
    BY <2>1 DEF Queues!QueueInit
  <2> QED BY <2>2, Initially, InitiallyQ
<1>2. IInv /\ QInv /\ [Next]_vars => IInv' /\ QInv'
  BY Steps, InductiveQ
<1>3. IInv /\ QInv /\ [Next]_vars => [Queues!QueueNext]_Queues!queueVars
  BY StepImplements
<1>4. (Orderly \/ plan.kills = 0) <=> Covered
  BY DEF Covered
<1> QED BY <1>1, <1>2, <1>3, <1>4, PTL DEF Spec, ImplementsQueue, Queues!QueueSpec
=============================================================================
