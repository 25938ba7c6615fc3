------------------------- MODULE FileBuffer_proofs -------------------------
(***************************************************************************)
(* FileBuffer for any plans, numbers of children and slots: IInv is        *)
(* inductive, hence one child at a time has the file open when the         *)
(* programs are launched in order.  With FileRivals: children with the     *)
(* same sem_cs exclude each other, of two producer programs too, and with  *)
(* a single one none writes back an index that is out of date.  With QInv, *)
(* that counts tokens against the values in the file, it is a FIFO queue.  *)
(***************************************************************************)
EXTENDS FileRivals, Lemmas

-----------------------------------------------------------------------------
(* The inductive invariant. *)

Slots == 0 .. BUFFER_SIZE - 1
Cells == (Producers \X Int) \cup {<<>>}

TypeOK ==
    /\ plan \in Plans /\ pruns \in Nat /\ cruns \in Nat /\ kills \in Nat
    /\ names \in [Names -> Nat] /\ objs \in Seq([value : Nat])
    /\ file \in [exists : BOOLEAN, length : 0 .. 2, read_index : Slots, write_index : Slots,
                 cells : [Slots -> Cells], stored : Seq(Cells), taken : Seq(Cells)]
    /\ index \in [Children -> Slots]
    /\ pmain \in {"idle", "setup", "run", "done", "killed"} /\ pstep \in 1 .. 9
    /\ psem \in [Names -> Nat]
    /\ ppc \in [Producers -> {"none", "wait_empty", "wait_cs", "load", "store", "advance",
                              "post_cs", "post_filled", "exit"}]
    /\ pops \in [Producers -> Int]
    /\ cmain \in {"idle", "connect", "run", "destroy", "done", "failed", "killed"}
    /\ cstep \in 1 .. 3 /\ csem \in [Names -> Nat]
    /\ cpc \in [Consumers -> {"none", "wait_filled", "wait_cs", "load", "read", "advance",
                              "post_cs", "post_empty", "exit", "crashed"}]
    /\ cops \in [Consumers -> Int]

\* The objects in use: by a name, or by a program.
InUse(nm) == {names[nm], psem[nm], csem[nm]}

\* Handles denote objects, and no semaphore is another one.
Handles ==
    /\ \A nm \in Names : InUse(nm) \subseteq 0 .. Len(objs)
    /\ \A x, y \in Names : x # y => InUse(x) \cap InUse(y) \subseteq {0}

\* The children of the producer program run with it, after its set-up.
ProducersRun ==
    /\ \A p \in Producers :
          ppc[p] \notin {"none", "exit"} => pmain = "run" /\ p \in plan.producers
    /\ pmain = "setup" => pstep <= 8
    /\ pmain = "run" \/ (pmain = "setup" /\ pstep > 2) => file.length = 2
    /\ pmain = "run" \/ (pmain = "setup" /\ pstep > 6) => psem["filled"] # 0
    /\ pmain = "run" \/ (pmain = "setup" /\ pstep > 7) => psem["empty"] # 0
    /\ pmain = "run" => psem["cs"] # 0

\* Those of the consumer program, except when one of them has crashed.
ConsumersRun ==
    /\ \A c \in Consumers : cpc[c] # "none" =>
           c \in plan.consumers /\ \A nm \in Names : csem[nm] # 0
    /\ cmain = "connect" /\ cstep > 1 => csem["filled"] # 0
    /\ cmain = "connect" /\ cstep > 2 => csem["empty"] # 0
    /\ \/ cmain = "run"
       \/ \E c \in Consumers : cpc[c] = "crashed"
       \/ \A c \in Consumers : cpc[c] \in {"none", "exit"}

\* The children that have waited for the semaphore o as their cs and not yet
\* posted it.
Holds(t, o) ==
    \/ /\ t \in Producers /\ ppc[t] \in {"load", "store", "advance", "post_cs"}
       /\ psem["cs"] = o
    \/ /\ t \in Consumers /\ cpc[t] \in {"load", "read", "advance", "post_cs", "crashed"}
       /\ csem["cs"] = o

\* A semaphore has at most one token; whoever holds it is alone.
Exclusive(o) ==
    /\ objs[o].value <= 1
    /\ \A t \in Children : Holds(t, o) =>
           objs[o].value = 0 /\ \A u \in Children : Holds(u, o) => u = t

Tokens == \A o \in InUse("cs") \ {0} : Exclusive(o)

\* Launched in order, each consumer program is the partner of the last
\* producer program, and has its cs if that one got past its set-up.
Paired == Orderly =>
    /\ cruns <= pruns /\ pruns <= cruns + 1
    /\ pmain = "setup" => cruns < pruns
    /\ cmain \in {"connect", "run", "destroy"} => cruns = pruns /\ pmain # "setup"
    /\ pmain = "run" /\ (cruns < pruns \/ cmain = "connect") => names["cs"] = psem["cs"]
    /\ pmain = "run" /\ cmain = "run" => psem["cs"] = csem["cs"]

IInv == /\ TypeOK /\ Handles /\ ProducersRun /\ ConsumersRun /\ Tokens /\ Paired
        /\ WriteIndexStable

-----------------------------------------------------------------------------
(* Semaphores. *)

\* What the calls do to the sequence of objects.
Changes(o, d) ==
    /\ objs' \in Seq([value : Nat]) /\ Len(objs') = Len(objs)
    /\ objs'[o].value = objs[o].value + d
    /\ \A x \in 1 .. Len(objs) : x # o => objs'[x] = objs[x]

LEMMA SemWaitEffect ==
    ASSUME objs \in Seq([value : Nat]), NEW o \in 1 .. Len(objs), SemWait(o)
    PROVE  objs[o].value > 0 /\ Changes(o, -1)
<1> DEFINE new == [objs[o] EXCEPT !.value = objs[o].value - 1]
<1>1. objs[o] \in [value : Nat] /\ objs[o].value > 0
  <2>1. objs[o] \in [value : Nat]
    BY ElementOfSeq
  <2> QED BY <2>1 DEF SemWait
<1>2. new \in [value : Nat] /\ new.value = objs[o].value - 1
  BY <1>1
<1>3. objs' = [objs EXCEPT ![o] = new]
  BY DEF SemWait
<1> HIDE DEF new
<1>4. objs' \in Seq([value : Nat]) /\ Len(objs') = Len(objs)
  BY <1>2, <1>3
<1>5. objs'[o] = new /\ \A x \in 1 .. Len(objs) : x # o => objs'[x] = objs[x]
  BY <1>3
<1>6. objs[o].value + -1 = objs[o].value - 1
  BY <1>1
<1> QED BY <1>1, <1>2, <1>4, <1>5, <1>6 DEF Changes

LEMMA SemPostEffect ==
    ASSUME objs \in Seq([value : Nat]), NEW o \in 1 .. Len(objs), SemPost(o)
    PROVE  Changes(o, 1)
<1> DEFINE new == [objs[o] EXCEPT !.value = objs[o].value + 1]
<1>1. objs[o] \in [value : Nat]
  BY ElementOfSeq
<1>2. new \in [value : Nat] /\ new.value = objs[o].value + 1
  BY <1>1
<1>3. objs' = [objs EXCEPT ![o] = new]
  BY DEF SemPost
<1> HIDE DEF new
<1>4. objs' \in Seq([value : Nat]) /\ Len(objs') = Len(objs)
  BY <1>2, <1>3
<1>5. objs'[o] = new /\ \A x \in 1 .. Len(objs) : x # o => objs'[x] = objs[x]
  BY <1>3
<1> QED BY <1>2, <1>4, <1>5 DEF Changes

\* A step that brings no new cs, leaves the tokens of those in use alone, and
\* makes no child a holder.
LEMMA TokensKeep ==
    ASSUME Tokens, NEW Used, Used = InUse("cs")', Used \ {0} \subseteq InUse("cs"),
           \A o \in Used \ {0} : objs'[o].value = objs[o].value,
           \A o \in Used \ {0}, t \in Children : Holds(t, o)' => Holds(t, o)
    PROVE  Tokens'
<1> SUFFICES ASSUME NEW o \in Used \ {0} PROVE Exclusive(o)'
  BY DEF Tokens
<1>1. Exclusive(o)
  BY DEF Tokens
<1>2. objs'[o].value = objs[o].value /\ \A t \in Children : Holds(t, o)' => Holds(t, o)
  OBVIOUS
<1>3. objs'[o].value <= 1
  BY <1>1, <1>2 DEF Exclusive
<1>4. \A t \in Children : Holds(t, o)' =>
          objs'[o].value = 0 /\ \A u \in Children : Holds(u, o)' => u = t
  BY <1>1, <1>2 DEF Exclusive
<1> QED BY <1>3, <1>4 DEF Exclusive

\* A child takes the token of its cs.
LEMMA TokensTaken ==
    ASSUME Tokens, NEW Used, Used = InUse("cs")', Used \ {0} \subseteq InUse("cs"),
           NEW o \in Used \ {0}, NEW t \in Children, Changes(o, -1), objs[o].value > 0,
           \A x \in Used \ {0} : x \in 1 .. Len(objs), objs[o].value \in Nat,
           \A x \in Used \ {0}, u \in Children :
               Holds(u, x)' => Holds(u, x) \/ (u = t /\ x = o)
    PROVE  Tokens'
<1> SUFFICES ASSUME NEW x \in Used \ {0} PROVE Exclusive(x)'
  BY DEF Tokens
<1>1. Exclusive(x) /\ Exclusive(o)
  BY DEF Tokens
<1>2. CASE x # o
  <2>1. objs'[x] = objs[x] /\ \A u \in Children : Holds(u, x)' => Holds(u, x)
    BY <1>2 DEF Changes
  <2>2. objs'[x].value <= 1
    BY <1>1, <2>1 DEF Exclusive
  <2>3. \A a \in Children : Holds(a, x)' =>
            objs'[x].value = 0 /\ \A u \in Children : Holds(u, x)' => u = a
    BY <1>1, <2>1 DEF Exclusive
  <2> QED BY <2>2, <2>3 DEF Exclusive
<1>3. CASE x = o
  <2>1. objs[o].value = 1 /\ \A u \in Children : ~Holds(u, o)
    BY <1>1 DEF Exclusive
  <2>2. objs'[x].value = 0
    BY <1>3, <2>1 DEF Changes
  <2>3. \A u \in Children : Holds(u, x)' => u = t
    BY <1>3, <2>1
  <2>4. \A a \in Children : Holds(a, x)' =>
            objs'[x].value = 0 /\ \A u \in Children : Holds(u, x)' => u = a
    BY <2>2, <2>3
  <2> QED BY <2>2, <2>4 DEF Exclusive
<1> QED BY <1>2, <1>3

\* The holder of a cs posts it.
LEMMA TokensPosted ==
    ASSUME Tokens, NEW Used, Used = InUse("cs")', Used \ {0} \subseteq InUse("cs"),
           NEW o \in Used \ {0}, NEW t \in Children, Changes(o, 1), Holds(t, o),
           \A x \in Used \ {0} : x \in 1 .. Len(objs), \A x : x = o => ~Holds(t, x)',
           \A x \in Used \ {0}, u \in Children : Holds(u, x)' => Holds(u, x)
    PROVE  Tokens'
<1> SUFFICES ASSUME NEW x \in Used \ {0} PROVE Exclusive(x)'
  BY DEF Tokens
<1>1. Exclusive(x) /\ Exclusive(o)
  BY DEF Tokens
<1>2. CASE x # o
  <2>1. objs'[x] = objs[x] /\ \A u \in Children : Holds(u, x)' => Holds(u, x)
    BY <1>2 DEF Changes
  <2>2. objs'[x].value <= 1
    BY <1>1, <2>1 DEF Exclusive
  <2>3. \A a \in Children : Holds(a, x)' =>
            objs'[x].value = 0 /\ \A u \in Children : Holds(u, x)' => u = a
    BY <1>1, <2>1 DEF Exclusive
  <2> QED BY <2>2, <2>3 DEF Exclusive
<1>3. CASE x = o
  <2>1. objs[o].value = 0 /\ \A u \in Children : Holds(u, o) => u = t
    BY <1>1 DEF Exclusive
  <2>2. objs'[x].value = 1
    BY <1>3, <2>1 DEF Changes
  <2>3. \A u \in Children : ~Holds(u, x)'
    BY <1>3, <2>1
  <2> QED BY <2>2, <2>3 DEF Exclusive
<1> QED BY <1>2, <1>3

\* A call on filled or empty is no affair of cs.
LEMMA OtherSemaphore ==
    ASSUME IInv, NEW nm \in {"filled", "empty"}, NEW o \in InUse(nm) \ {0}, NEW d,
           Changes(o, d), \A x \in Names : InUse(x)' = InUse(x),
           \A x \in InUse("cs") \ {0}, t \in Children : Holds(t, x)' => Holds(t, x)
    PROVE  Tokens' /\ Handles'
<1> DEFINE Used == InUse("cs")
<1>1. /\ "cs" \in Names /\ nm \in Names /\ Tokens
      /\ Used \subseteq 0 .. Len(objs) /\ InUse(nm) \cap Used \subseteq {0}
  BY DEF IInv, Handles, Names
<1>2. Used = InUse("cs")'
  BY <1>1
<1>3. \A x \in Used \ {0} : x \in 1 .. Len(objs) /\ x # o
  BY <1>1
<1>4. \A x \in Used \ {0} : objs'[x].value = objs[x].value
  BY <1>3 DEF Changes
<1>5. Tokens'
  <2> HIDE DEF Used
  <2> QED BY <1>1, <1>2, <1>4, TokensKeep DEF Used
<1>6. Handles'
  BY <1>1 DEF IInv, Handles, Changes, Names
<1> QED BY <1>5, <1>6

-----------------------------------------------------------------------------
(* The invariant is inductive: the producers. *)

\* What a move of a producer rests on, and what it leaves alone.
LEMMA ProducerFrame ==
    ASSUME IInv, NEW p \in Producers, NEW from, NEW to, PMove(p, from, to),
           from \notin {"none", "exit"}, file'.length = file.length
    PROVE  /\ pmain = "run" /\ p \in plan.producers /\ file.length = 2
           /\ ppc[p] = from /\ ppc' = [ppc EXCEPT ![p] = to]
           /\ UNCHANGED <<names, pmain, pstep, psem, cvars, counts>>
           /\ \A nm \in Names : /\ InUse(nm)' = InUse(nm)
                                /\ psem[nm] \in 1 .. Len(objs) /\ psem[nm] \in InUse(nm) \ {0}
           /\ \A x, t : Holds(t, x)' => \/ Holds(t, x)
                                        \/ t = p /\ x = psem["cs"] /\ to \in {"load", "store",
                                                             "advance", "post_cs"}
           /\ ProducersRun' /\ ConsumersRun' /\ Paired'
<1>1. /\ ppc[p] = from /\ ppc' = [ppc EXCEPT ![p] = to] /\ TypeOK
      /\ UNCHANGED <<names, pmain, pstep, psem, cvars, counts>>
  BY DEF PMove, IInv
<1>2. pmain = "run" /\ p \in plan.producers /\ file.length = 2
  BY <1>1 DEF IInv, ProducersRun
<1>3. ASSUME NEW nm \in Names
      PROVE  /\ InUse(nm)' = InUse(nm)
             /\ psem[nm] \in 1 .. Len(objs) /\ psem[nm] \in InUse(nm) \ {0}
  <2>1. InUse(nm)' = InUse(nm)
    BY <1>1 DEF InUse, cvars
  <2>2. psem[nm] # 0 /\ psem[nm] \in InUse(nm)
    BY <1>2 DEF IInv, ProducersRun, Names, InUse
  <2>3. psem[nm] \in 0 .. Len(objs)
    BY <2>2 DEF IInv, Handles
  <2>4. psem[nm] \in 1 .. Len(objs)
    BY <2>2, <2>3
  <2> QED BY <2>1, <2>2, <2>4
<1>4. ASSUME NEW x, NEW t, Holds(t, x)', ~Holds(t, x)
      PROVE  t = p /\ x = psem["cs"] /\ to \in {"load", "store", "advance", "post_cs"}
  BY <1>1, <1>4 DEF Holds, TypeOK, cvars
<1>5. ProducersRun'
  BY <1>1, <1>2 DEF IInv, ProducersRun, TypeOK, counts
<1>6. ConsumersRun'
  BY <1>1 DEF IInv, ConsumersRun, cvars, counts
<1>7. Paired'
  BY <1>1 DEF IInv, Paired, Orderly, cvars, counts
<1> QED BY <1>1, <1>2, <1>3, <1>4, <1>5, <1>6, <1>7

\* Type correctness of a producer's step.
LEMMA ProducerTypes ==
    ASSUME TypeOK, NEW p \in Producers, NEW to,
           to \in {"none", "wait_empty", "wait_cs", "load", "store", "advance",
                   "post_cs", "post_filled", "exit"},
           ppc' = [ppc EXCEPT ![p] = to],
           UNCHANGED <<names, pmain, pstep, psem, cvars, counts>>,
           objs' \in Seq([value : Nat]), pops' \in [Producers -> Int],
           file' \in [exists : BOOLEAN, length : 0 .. 2, read_index : Slots,
                      write_index : Slots, cells : [Slots -> Cells],
                      stored : Seq(Cells), taken : Seq(Cells)],
           index' \in [Children -> Slots]
    PROVE  TypeOK'
BY DEF TypeOK, cvars, counts

LEMMA PSemStep ==
    ASSUME IInv, NEW p \in Producers, PSem(p), UNCHANGED <<file, index>>
    PROVE  IInv'
<1> USE DEF Names
<1>1. TypeOK /\ Tokens /\ p \in Children /\ objs \in Seq([value : Nat])
  BY DEF IInv, TypeOK, Children
<1>2. file'.length = file.length /\ pops' \in [Producers -> Int]
  BY <1>1 DEF PSem, TypeOK
<1>3. CASE PMove(p, "wait_empty", "wait_cs") /\ SemWait(psem["empty"])
  <2>1. /\ ppc' = [ppc EXCEPT ![p] = "wait_cs"]
        /\ UNCHANGED <<names, pmain, pstep, psem, cvars, counts>>
        /\ \A nm \in Names : InUse(nm)' = InUse(nm)
        /\ psem["empty"] \in 1 .. Len(objs) /\ psem["empty"] \in InUse("empty") \ {0}
        /\ \A x, t : Holds(t, x)' => Holds(t, x)
        /\ ProducersRun' /\ ConsumersRun' /\ Paired'
    BY <1>2, <1>3, ProducerFrame
  <2>2. Changes(psem["empty"], -1)
    BY <1>1, <1>3, <2>1, SemWaitEffect
  <2>3. Tokens' /\ Handles'
    BY <2>1, <2>2, OtherSemaphore
  <2>4. TypeOK'
    BY <1>1, <1>2, <2>1, <2>2, ProducerTypes DEF TypeOK, Changes
  <2>5. WriteIndexStable'
    BY <1>1, <2>1 DEF IInv, WriteIndexStable, TypeOK
  <2> QED BY <2>1, <2>3, <2>4, <2>5 DEF IInv
<1>4. CASE PMove(p, "wait_cs", "load") /\ SemWait(psem["cs"])
  <2>1. /\ ppc' = [ppc EXCEPT ![p] = "load"]
        /\ UNCHANGED <<names, pmain, pstep, psem, cvars, counts>>
        /\ \A nm \in Names : InUse(nm)' = InUse(nm)
        /\ psem["cs"] \in 1 .. Len(objs) /\ psem["cs"] \in InUse("cs") \ {0}
        /\ \A x, t : Holds(t, x)' => Holds(t, x) \/ (t = p /\ x = psem["cs"])
        /\ ProducersRun' /\ ConsumersRun' /\ Paired'
    BY <1>2, <1>4, ProducerFrame
  <2>2. Changes(psem["cs"], -1) /\ objs[psem["cs"]].value > 0
    BY <1>1, <1>4, <2>1, SemWaitEffect
  <2>3. InUse("cs") = InUse("cs")' /\ InUse("cs") \subseteq 0 .. Len(objs)
    BY <2>1 DEF IInv, Handles
  <2>4. objs[psem["cs"]].value \in Nat
    <3>1. objs[psem["cs"]] \in [value : Nat]
      BY <1>1, <2>1, ElementOfSeq
    <3> QED BY <3>1
  <2>5. Tokens'
    <3> DEFINE Used == InUse("cs")
               o == psem["cs"]
    <3>1. /\ Used = InUse("cs")' /\ Used \subseteq InUse("cs") /\ o \in Used \ {0}
          /\ \A x \in Used \ {0} : x \in 1 .. Len(objs)
          /\ Changes(o, -1) /\ objs[o].value > 0 /\ objs[o].value \in Nat
          /\ \A x \in Used \ {0}, u \in Children :
                 Holds(u, x)' => Holds(u, x) \/ (u = p /\ x = o)
      BY <2>1, <2>2, <2>3, <2>4
    <3> HIDE DEF Used, o
    <3> QED BY <1>1, <3>1, TokensTaken
  <2>6. Handles'
    BY <2>1, <2>2 DEF IInv, Handles, Changes
  <2>7. TypeOK'
    BY <1>1, <1>2, <2>1, <2>2, ProducerTypes DEF TypeOK, Changes
  <2>8. WriteIndexStable'
    BY <1>1, <2>1 DEF IInv, WriteIndexStable, TypeOK
  <2> QED BY <2>1, <2>5, <2>6, <2>7, <2>8 DEF IInv
<1>5. CASE PMove(p, "post_cs", "post_filled") /\ SemPost(psem["cs"])
  <2>1. /\ ppc' = [ppc EXCEPT ![p] = "post_filled"] /\ ppc[p] = "post_cs"
        /\ UNCHANGED <<names, pmain, pstep, psem, cvars, counts>>
        /\ p \in plan.producers
        /\ \A nm \in Names : InUse(nm)' = InUse(nm)
        /\ psem["cs"] \in 1 .. Len(objs) /\ psem["cs"] \in InUse("cs") \ {0}
        /\ \A x, t : Holds(t, x)' => Holds(t, x)
        /\ ProducersRun' /\ ConsumersRun' /\ Paired'
    BY <1>2, <1>5, ProducerFrame
  <2>2. Changes(psem["cs"], 1)
    BY <1>1, <1>5, <2>1, SemPostEffect
  <2>3. InUse("cs") = InUse("cs")' /\ InUse("cs") \subseteq 0 .. Len(objs)
    BY <2>1 DEF IInv, Handles
  <2>4. Holds(p, psem["cs"]) /\ \A x : ~Holds(p, x)'
    <3>1. p \in Consumers => cpc[p] = "none"
      BY <1>1, <2>1, FileAssumption DEF IInv, ConsumersRun, TypeOK
    <3> QED BY <1>1, <2>1, <3>1 DEF Holds, TypeOK, cvars
  <2>5. Tokens'
    <3> DEFINE Used == InUse("cs")
               o == psem["cs"]
    <3>1. /\ Used = InUse("cs")' /\ Used \subseteq InUse("cs") /\ o \in Used \ {0}
          /\ \A x \in Used \ {0} : x \in 1 .. Len(objs)
          /\ Changes(o, 1) /\ Holds(p, o) /\ \A x : x = o => ~Holds(p, x)'
          /\ \A x \in Used \ {0}, u \in Children : Holds(u, x)' => Holds(u, x)
      BY <2>1, <2>2, <2>3, <2>4
    <3> HIDE DEF Used, o
    <3> QED BY <1>1, <3>1, TokensPosted
  <2>6. Handles'
    BY <2>1, <2>2 DEF IInv, Handles, Changes
  <2>7. TypeOK'
    BY <1>1, <1>2, <2>1, <2>2, ProducerTypes DEF TypeOK, Changes
  <2>8. WriteIndexStable'
    BY <1>1, <2>1 DEF IInv, WriteIndexStable, TypeOK
  <2> QED BY <2>1, <2>5, <2>6, <2>7, <2>8 DEF IInv
<1>6. CASE /\ PMove(p, "post_filled", IF pops[p] > 1 THEN "wait_empty" ELSE "exit")
           /\ SemPost(psem["filled"])
  <2> DEFINE to == IF pops[p] > 1 THEN "wait_empty" ELSE "exit"
  <2>1. to \in {"wait_empty", "exit"} /\ PMove(p, "post_filled", to)
    BY <1>6
  <2> HIDE DEF to
  <2>2. /\ ppc' = [ppc EXCEPT ![p] = to]
        /\ UNCHANGED <<names, pmain, pstep, psem, cvars, counts>>
        /\ \A nm \in Names : InUse(nm)' = InUse(nm)
        /\ psem["filled"] \in 1 .. Len(objs) /\ psem["filled"] \in InUse("filled") \ {0}
        /\ \A x, t : Holds(t, x)' => Holds(t, x)
        /\ ProducersRun' /\ ConsumersRun' /\ Paired'
    BY <1>2, <2>1, ProducerFrame
  <2>3. Changes(psem["filled"], 1)
    BY <1>1, <1>6, <2>2, SemPostEffect
  <2>4. Tokens' /\ Handles'
    BY <2>2, <2>3, OtherSemaphore
  <2>5. TypeOK'
    BY <1>1, <1>2, <2>1, <2>2, <2>3, ProducerTypes DEF TypeOK, Changes
  <2>6. WriteIndexStable'
    BY <1>1, <2>1, <2>2 DEF IInv, WriteIndexStable, TypeOK
  <2> QED BY <2>2, <2>4, <2>5, <2>6 DEF IInv
<1> QED BY <1>3, <1>4, <1>5, <1>6 DEF PSem

\* While a producer is inside cs, no other is.
LEMMA OneWriter ==
    ASSUME IInv, NEW p \in Producers, NEW q \in Producers,
           ppc[p] \in {"load", "store", "advance", "post_cs"},
           ppc[q] \in {"load", "store", "advance", "post_cs"}
    PROVE  p = q
<1> DEFINE o == psem["cs"]
<1>1. o \in InUse("cs") \ {0}
  BY DEF IInv, ProducersRun, InUse
<1>2. Exclusive(o)
  BY <1>1 DEF IInv, Tokens
<1>3. p \in Children /\ q \in Children /\ Holds(p, o) /\ Holds(q, o)
  BY DEF Children, Holds
<1> QED BY <1>2, <1>3 DEF Exclusive

\* While the producer program runs the file is whole: its children meet no
\* short file, and what they write makes it no longer.
Writes(p) ==
    \/ /\ PMove(p, "load", "store")
       /\ index' = [index EXCEPT ![p] = file.write_index] /\ UNCHANGED file
    \/ /\ PMove(p, "store", "advance") /\ UNCHANGED index
       /\ file' = [file EXCEPT !.cells[index[p]] = <<p, pops[p]>>,
                               !.stored = Append(@, <<p, pops[p]>>)]
    \/ /\ PMove(p, "advance", "post_cs") /\ UNCHANGED index
       /\ file' = [file EXCEPT !.write_index = Following(index[p])]

LEMMA WritesOnly ==
    ASSUME IInv, NEW p \in Producers, WriteToBufferFile(p)
    PROVE  Writes(p)
<1>1. ppc[p] \in {"load", "store", "advance"}
  BY DEF WriteToBufferFile, PMove
<1>2. file.length = 2
  BY <1>1 DEF IInv, ProducersRun
<1>3. ASSUME NEW i
      PROVE  [file EXCEPT !.write_index = i, !.length = 2] = [file EXCEPT !.write_index = i]
  BY <1>2 DEF IInv, TypeOK
<1>4. ~ (file.length < 2)
  BY <1>2
<1>5. CASE PMove(p, "advance", "post_cs") /\ UNCHANGED index
           /\ file' = [file EXCEPT !.write_index = Following(index[p]), !.length = 2]
  BY <1>3, <1>5 DEF Writes
<1> QED BY <1>4, <1>5 DEF WriteToBufferFile, Writes

LEMMA WriteStep ==
    ASSUME IInv, NEW p \in Producers, Writes(p), UNCHANGED <<objs, pops>>
    PROVE  IInv'
<1> USE DEF Names
<1>1. /\ TypeOK /\ Tokens /\ p \in Children
      /\ BUFFER_SIZE \in Nat \ {0} /\ index[p] \in Slots /\ file.write_index \in Slots
  BY FileAssumption DEF IInv, TypeOK, Children
<1>2. PICK from \in {"load", "store", "advance"}, to \in {"store", "advance", "post_cs"} :
          PMove(p, from, to)
  BY DEF Writes
<1>3. /\ file'.length = file.length
      /\ file' \in [exists : BOOLEAN, length : 0 .. 2, read_index : Slots, write_index : Slots,
                    cells : [Slots -> Cells], stored : Seq(Cells), taken : Seq(Cells)]
      /\ index' \in [Children -> Slots]
  <2>1. CASE /\ index' = [index EXCEPT ![p] = file.write_index] /\ UNCHANGED file
    BY <1>1, <2>1 DEF TypeOK
  <2>2. CASE /\ UNCHANGED index
             /\ file' = [file EXCEPT !.cells[index[p]] = <<p, pops[p]>>,
                                     !.stored = Append(@, <<p, pops[p]>>)]
    <3>1. <<p, pops[p]>> \in Cells
      BY <1>1 DEF TypeOK, Cells
    <3>2. /\ [file.cells EXCEPT ![index[p]] = <<p, pops[p]>>] \in [Slots -> Cells]
          /\ Append(file.stored, <<p, pops[p]>>) \in Seq(Cells)
      BY <1>1, <3>1 DEF TypeOK
    <3> QED BY <1>1, <2>2, <3>2 DEF TypeOK
  <2>3. CASE /\ UNCHANGED index
             /\ file' = [file EXCEPT !.write_index = Following(index[p])]
    <3>1. Following(index[p]) \in Slots
      BY <1>1 DEF Following, Slots
    <3> QED BY <1>1, <2>3, <3>1 DEF TypeOK
  <2> QED BY <2>1, <2>2, <2>3 DEF Writes
<1>4. /\ ppc[p] = from /\ ppc' = [ppc EXCEPT ![p] = to]
      /\ UNCHANGED <<names, pmain, pstep, psem, cvars, counts>>
      /\ \A nm \in Names : InUse(nm)' = InUse(nm)
      /\ \A x, t : Holds(t, x)' => Holds(t, x) \/ (t = p /\ x = psem["cs"])
      /\ ProducersRun' /\ ConsumersRun' /\ Paired' /\ file.length = 2
  BY <1>2, <1>3, ProducerFrame
<1>5. Tokens'
  <2> DEFINE Used == InUse("cs")
  <2>1. Holds(p, psem["cs"])
    BY <1>2, <1>4 DEF Holds
  <2>2. /\ Used = InUse("cs")' /\ Used \subseteq InUse("cs")
        /\ \A o \in Used \ {0} : objs'[o].value = objs[o].value
        /\ \A o \in Used \ {0}, t \in Children : Holds(t, o)' => Holds(t, o)
    BY <1>4, <2>1
  <2> HIDE DEF Used
  <2> QED BY <1>1, <2>2, TokensKeep
<1>6. Handles'
  BY <1>4 DEF IInv, Handles
<1>7. TypeOK'
  BY <1>1, <1>2, <1>3, <1>4, ProducerTypes DEF TypeOK
<1>8. ASSUME NEW q \in Producers, ppc'[q] \in {"store", "advance"}
      PROVE  file'.length = 2 /\ index'[q] = file'.write_index
  <2>1. CASE q = p
    BY <1>1, <1>3, <1>4, <1>8, <2>1
       DEF Writes, PMove, TypeOK, IInv, WriteIndexStable
  <2>2. CASE q # p
    <3>1. ppc[q] \in {"store", "advance"}
      BY <1>1, <1>4, <1>8, <2>2 DEF TypeOK
    <3>2. p = q
      BY <1>2, <1>4, <3>1, OneWriter
    <3> QED BY <2>2, <3>2
  <2> QED BY <2>1, <2>2
<1>9. WriteIndexStable'
  BY <1>8 DEF WriteIndexStable
<1> QED BY <1>4, <1>5, <1>6, <1>7, <1>9 DEF IInv
-----------------------------------------------------------------------------
(* The invariant is inductive: the consumers. *)

\* What a move of a consumer rests on, and what it leaves alone.
LEMMA ConsumerFrame ==
    ASSUME IInv, NEW c \in Consumers, NEW from, NEW to, CMove(c, from, to),
           from \notin {"none", "exit", "crashed"}, to # "none", (file.length = 2 => file'.length = 2)
    PROVE  /\ c \in plan.consumers
           /\ cpc[c] = from /\ cpc' = [cpc EXCEPT ![c] = to]
           /\ UNCHANGED <<names, cmain, cstep, csem, pvars, counts>>
           /\ \A nm \in Names : /\ InUse(nm)' = InUse(nm)
                                /\ csem[nm] \in 1 .. Len(objs) /\ csem[nm] \in InUse(nm) \ {0}
           /\ \A x, t : Holds(t, x)' => \/ Holds(t, x)
                                        \/ t = c /\ x = csem["cs"] /\ to \in {"load", "read",
                                                    "advance", "post_cs", "crashed"}
           /\ ProducersRun' /\ ConsumersRun' /\ Paired'
<1>1. /\ cpc[c] = from /\ cpc' = [cpc EXCEPT ![c] = to] /\ TypeOK
      /\ UNCHANGED <<names, cmain, cstep, csem, pvars, counts>>
  BY DEF CMove, IInv
<1>2. c \in plan.consumers /\ \A nm \in Names : csem[nm] # 0
  BY <1>1 DEF IInv, ConsumersRun
<1>3. ASSUME NEW nm \in Names
      PROVE  /\ InUse(nm)' = InUse(nm)
             /\ csem[nm] \in 1 .. Len(objs) /\ csem[nm] \in InUse(nm) \ {0}
  <2>1. InUse(nm)' = InUse(nm)
    BY <1>1 DEF InUse, pvars
  <2>2. csem[nm] # 0 /\ csem[nm] \in InUse(nm)
    BY <1>2 DEF InUse
  <2>3. csem[nm] \in 0 .. Len(objs)
    BY <2>2 DEF IInv, Handles
  <2>4. csem[nm] \in 1 .. Len(objs)
    BY <2>2, <2>3
  <2> QED BY <2>1, <2>2, <2>4
<1>4. ASSUME NEW x, NEW t, Holds(t, x)', ~Holds(t, x)
      PROVE  t = c /\ x = csem["cs"] /\ to \in {"load", "read", "advance", "post_cs", "crashed"}
  BY <1>1, <1>4 DEF Holds, TypeOK, pvars
<1>5. ProducersRun'
  BY <1>1 DEF IInv, ProducersRun, pvars, counts
<1>6. ConsumersRun'
  <2>1. \A d \in Consumers : cpc'[d] # "none" =>
            d \in plan'.consumers /\ \A nm \in Names : csem'[nm] # 0
    BY <1>1, <1>2 DEF IInv, ConsumersRun, TypeOK, counts
  <2>2. \/ cmain' = "run"
        \/ \E d \in Consumers : cpc'[d] = "crashed"
        \/ \A d \in Consumers : cpc'[d] \in {"none", "exit"}
    BY <1>1 DEF IInv, ConsumersRun, TypeOK
  <2> QED BY <1>1, <2>1, <2>2 DEF IInv, ConsumersRun
<1>7. Paired'
  BY <1>1 DEF IInv, Paired, Orderly, pvars, counts
<1> QED BY <1>1, <1>2, <1>3, <1>4, <1>5, <1>6, <1>7

\* Type correctness of a consumer's step.
LEMMA ConsumerTypes ==
    ASSUME TypeOK, NEW c \in Consumers, NEW to,
           to \in {"none", "wait_filled", "wait_cs", "load", "read", "advance",
                   "post_cs", "post_empty", "exit", "crashed"},
           cpc' = [cpc EXCEPT ![c] = to],
           UNCHANGED <<names, cmain, cstep, csem, pvars, counts>>,
           objs' \in Seq([value : Nat]), cops' \in [Consumers -> Int],
           file' \in [exists : BOOLEAN, length : 0 .. 2, read_index : Slots,
                      write_index : Slots, cells : [Slots -> Cells],
                      stored : Seq(Cells), taken : Seq(Cells)],
           index' \in [Children -> Slots]
    PROVE  TypeOK'
BY DEF TypeOK, pvars, counts

\* A consumer's step leaves what the producers have read alone.
LEMMA ConsumerWrites ==
    ASSUME IInv, NEW c \in Consumers, c \in plan.consumers, NEW i \in Slots,
           index' = [index EXCEPT ![c] = i] \/ UNCHANGED index, UNCHANGED pvars,
           (file.length = 2 => file'.length = 2), file'.write_index = file.write_index
    PROVE  WriteIndexStable'
<1> SUFFICES ASSUME NEW p \in Producers, ppc'[p] \in {"store", "advance"}
             PROVE  file'.length = 2 /\ index'[p] = file'.write_index
  BY DEF WriteIndexStable
<1>1. ppc[p] \in {"store", "advance"}
  BY DEF pvars
<1>2. p \in plan.producers /\ file.length = 2 /\ index[p] = file.write_index
  BY <1>1 DEF IInv, ProducersRun, WriteIndexStable
<1>3. p # c
  BY <1>2, FileAssumption DEF IInv, TypeOK
<1>4. index'[p] = index[p]
  BY <1>3 DEF IInv, TypeOK, Children
<1> QED BY <1>2, <1>4

LEMMA CSemStep ==
    ASSUME IInv, NEW c \in Consumers, CSem(c), UNCHANGED <<file, index>>
    PROVE  IInv'
<1> USE DEF Names
<1>1. TypeOK /\ Tokens /\ c \in Children /\ objs \in Seq([value : Nat]) /\ 0 \in Slots
  <2>1. TypeOK /\ Tokens
    BY DEF IInv
  <2>2. objs \in Seq([value : Nat])
    BY <2>1 DEF TypeOK
  <2>3. c \in Children /\ 0 \in Slots
    BY FileAssumption DEF Children, Slots
  <2> QED BY <2>1, <2>2, <2>3
<1>2. (file.length = 2 => file'.length = 2) /\ cops' \in [Consumers -> Int]
  BY <1>1 DEF CSem, TypeOK
<1>3. CASE CMove(c, "wait_filled", "wait_cs") /\ SemWait(csem["filled"])
  <2>1. /\ cpc' = [cpc EXCEPT ![c] = "wait_cs"] /\ c \in plan.consumers
        /\ UNCHANGED <<names, cmain, cstep, csem, pvars, counts>>
        /\ \A nm \in Names : InUse(nm)' = InUse(nm)
        /\ csem["filled"] \in 1 .. Len(objs) /\ csem["filled"] \in InUse("filled") \ {0}
        /\ \A x, t : Holds(t, x)' => Holds(t, x)
        /\ ProducersRun' /\ ConsumersRun' /\ Paired'
    BY <1>2, <1>3, ConsumerFrame
  <2>2. Changes(csem["filled"], -1)
    BY <1>1, <1>3, <2>1, SemWaitEffect
  <2>3. Tokens' /\ Handles'
    BY <2>1, <2>2, OtherSemaphore
  <2>4. TypeOK'
    BY <1>1, <1>2, <2>1, <2>2, ConsumerTypes DEF TypeOK, Changes
  <2>5. WriteIndexStable'
    BY <1>1, <2>1, ConsumerWrites
  <2> QED BY <2>1, <2>3, <2>4, <2>5 DEF IInv
<1>4. CASE CMove(c, "wait_cs", "load") /\ SemWait(csem["cs"])
  <2>1. /\ cpc' = [cpc EXCEPT ![c] = "load"] /\ c \in plan.consumers
        /\ UNCHANGED <<names, cmain, cstep, csem, pvars, counts>>
        /\ \A nm \in Names : InUse(nm)' = InUse(nm)
        /\ csem["cs"] \in 1 .. Len(objs) /\ csem["cs"] \in InUse("cs") \ {0}
        /\ \A x, t : Holds(t, x)' => Holds(t, x) \/ (t = c /\ x = csem["cs"])
        /\ ProducersRun' /\ ConsumersRun' /\ Paired'
    BY <1>2, <1>4, ConsumerFrame
  <2>2. Changes(csem["cs"], -1) /\ objs[csem["cs"]].value > 0
    BY <1>1, <1>4, <2>1, SemWaitEffect
  <2>3. InUse("cs") = InUse("cs")' /\ InUse("cs") \subseteq 0 .. Len(objs)
    BY <2>1 DEF IInv, Handles
  <2>4. objs[csem["cs"]].value \in Nat
    <3>1. objs[csem["cs"]] \in [value : Nat]
      BY <1>1, <2>1, ElementOfSeq
    <3> QED BY <3>1
  <2>5. Tokens'
    <3> DEFINE Used == InUse("cs")
               o == csem["cs"]
    <3>1. /\ Used = InUse("cs")' /\ Used \subseteq InUse("cs") /\ o \in Used \ {0}
          /\ \A x \in Used \ {0} : x \in 1 .. Len(objs)
          /\ Changes(o, -1) /\ objs[o].value > 0 /\ objs[o].value \in Nat
          /\ \A x \in Used \ {0}, u \in Children :
                 Holds(u, x)' => Holds(u, x) \/ (u = c /\ x = o)
      BY <2>1, <2>2, <2>3, <2>4
    <3> HIDE DEF Used, o
    <3> QED BY <1>1, <3>1, TokensTaken
  <2>6. Handles'
    BY <2>1, <2>2 DEF IInv, Handles, Changes
  <2>7. TypeOK'
    BY <1>1, <1>2, <2>1, <2>2, ConsumerTypes DEF TypeOK, Changes
  <2>8. WriteIndexStable'
    BY <1>1, <2>1, ConsumerWrites
  <2> QED BY <2>1, <2>5, <2>6, <2>7, <2>8 DEF IInv
<1>5. CASE CMove(c, "post_cs", "post_empty") /\ SemPost(csem["cs"])
  <2>1. /\ cpc' = [cpc EXCEPT ![c] = "post_empty"] /\ cpc[c] = "post_cs"
        /\ UNCHANGED <<names, cmain, cstep, csem, pvars, counts>>
        /\ c \in plan.consumers
        /\ \A nm \in Names : InUse(nm)' = InUse(nm)
        /\ csem["cs"] \in 1 .. Len(objs) /\ csem["cs"] \in InUse("cs") \ {0}
        /\ \A x, t : Holds(t, x)' => Holds(t, x)
        /\ ProducersRun' /\ ConsumersRun' /\ Paired'
    BY <1>2, <1>5, ConsumerFrame
  <2>2. Changes(csem["cs"], 1)
    BY <1>1, <1>5, <2>1, SemPostEffect
  <2>3. InUse("cs") = InUse("cs")' /\ InUse("cs") \subseteq 0 .. Len(objs)
    BY <2>1 DEF IInv, Handles
  <2>4. Holds(c, csem["cs"]) /\ \A x : ~Holds(c, x)'
    <3>1. c \in Producers => ppc[c] \in {"none", "exit"}
      BY <1>1, <2>1, FileAssumption DEF IInv, ProducersRun, TypeOK
    <3> QED BY <1>1, <2>1, <3>1 DEF Holds, TypeOK, pvars
  <2>5. Tokens'
    <3> DEFINE Used == InUse("cs")
               o == csem["cs"]
    <3>1. /\ Used = InUse("cs")' /\ Used \subseteq InUse("cs") /\ o \in Used \ {0}
          /\ \A x \in Used \ {0} : x \in 1 .. Len(objs)
          /\ Changes(o, 1) /\ Holds(c, o) /\ \A x : x = o => ~Holds(c, x)'
          /\ \A x \in Used \ {0}, u \in Children : Holds(u, x)' => Holds(u, x)
      BY <2>1, <2>2, <2>3, <2>4
    <3> HIDE DEF Used, o
    <3> QED BY <1>1, <3>1, TokensPosted
  <2>6. Handles'
    BY <2>1, <2>2 DEF IInv, Handles, Changes
  <2>7. TypeOK'
    BY <1>1, <1>2, <2>1, <2>2, ConsumerTypes DEF TypeOK, Changes
  <2>8. WriteIndexStable'
    BY <1>1, <2>1, ConsumerWrites
  <2> QED BY <2>1, <2>5, <2>6, <2>7, <2>8 DEF IInv
<1>6. CASE /\ CMove(c, "post_empty", IF cops[c] > 1 THEN "wait_filled" ELSE "exit")
           /\ SemPost(csem["empty"])
  <2> DEFINE to == IF cops[c] > 1 THEN "wait_filled" ELSE "exit"
  <2>1. to \in {"wait_filled", "exit"} /\ CMove(c, "post_empty", to)
    BY <1>6
  <2> HIDE DEF to
  <2>2. /\ cpc' = [cpc EXCEPT ![c] = to] /\ c \in plan.consumers
        /\ UNCHANGED <<names, cmain, cstep, csem, pvars, counts>>
        /\ \A nm \in Names : InUse(nm)' = InUse(nm)
        /\ csem["empty"] \in 1 .. Len(objs) /\ csem["empty"] \in InUse("empty") \ {0}
        /\ \A x, t : Holds(t, x)' => Holds(t, x)
        /\ ProducersRun' /\ ConsumersRun' /\ Paired'
    BY <1>2, <2>1, ConsumerFrame
  <2>3. Changes(csem["empty"], 1)
    BY <1>1, <1>6, <2>2, SemPostEffect
  <2>4. Tokens' /\ Handles'
    BY <2>2, <2>3, OtherSemaphore
  <2>5. TypeOK'
    BY <1>1, <1>2, <2>1, <2>2, <2>3, ConsumerTypes DEF TypeOK, Changes
  <2>6. WriteIndexStable'
    BY <1>1, <2>2, ConsumerWrites
  <2> QED BY <2>2, <2>4, <2>5, <2>6 DEF IInv
<1> QED BY <1>3, <1>4, <1>5, <1>6 DEF CSem

LEMMA ReadStep ==
    ASSUME IInv, NEW c \in Consumers, ReadFromBufferFile(c), UNCHANGED <<objs, cops>>
    PROVE  IInv'
<1> USE DEF Names
<1>1. /\ TypeOK /\ Tokens /\ c \in Children
      /\ BUFFER_SIZE \in Nat \ {0} /\ index[c] \in Slots /\ file.read_index \in Slots
  BY FileAssumption DEF IInv, TypeOK, Children
<1>2. PICK from \in {"load", "read", "advance"}, to \in {"read", "advance", "post_cs", "crashed"} :
          CMove(c, from, to)
  BY DEF ReadFromBufferFile
<1>3. /\ (file.length = 2 => file'.length = 2) /\ file'.write_index = file.write_index
      /\ file' \in [exists : BOOLEAN, length : 0 .. 2, read_index : Slots,
                      write_index : Slots, cells : [Slots -> Cells],
                      stored : Seq(Cells), taken : Seq(Cells)]
      /\ index' = [index EXCEPT ![c] = file.read_index] \/ UNCHANGED index
  <2>1. CASE index' = [index EXCEPT ![c] = file.read_index] /\ UNCHANGED file
    BY <1>1, <2>1 DEF TypeOK
  <2>2. CASE /\ UNCHANGED index
             /\ file' = [file EXCEPT !.taken = Append(@, file.cells[index[c]])]
    <3>1. Append(file.taken, file.cells[index[c]]) \in Seq(Cells)
      BY <1>1 DEF TypeOK
    <3> QED BY <1>1, <2>2, <3>1 DEF TypeOK
  <2>3. CASE /\ UNCHANGED index
             /\ file' = [file EXCEPT !.read_index = Following(index[c]),
                                   !.length = IF @ = 0 THEN 1 ELSE @]
    <3>1. Following(index[c]) \in Slots
      BY <1>1 DEF Following, Slots
    <3>2. (IF file.length = 0 THEN 1 ELSE file.length) \in 0 .. 2
      BY <1>1 DEF TypeOK
    <3>3. file'.length = IF file.length = 0 THEN 1 ELSE file.length
      BY <1>1, <2>3 DEF TypeOK
    <3>4. file \in [exists : BOOLEAN, length : 0 .. 2, read_index : Slots,
                    write_index : Slots, cells : [Slots -> Cells],
                    stored : Seq(Cells), taken : Seq(Cells)]
      BY <1>1 DEF TypeOK
    <3>5. file'.write_index = file.write_index /\ UNCHANGED index
          /\ (file.length = 2 => file'.length = 2)
      BY <2>3, <3>3, <3>4
    <3> DEFINE n == IF file.length = 0 THEN 1 ELSE file.length
               i == Following(index[c])
    <3>6. file' = [file EXCEPT !.read_index = i, !.length = n]
      BY <2>3, <3>4
    <3> HIDE DEF n, i, Slots, Cells
    <3>7. n \in 0 .. 2 /\ i \in Slots
      BY <3>1, <3>2 DEF n, i
    <3>8. file' \in [exists : BOOLEAN, length : 0 .. 2, read_index : Slots,
                     write_index : Slots, cells : [Slots -> Cells],
                     stored : Seq(Cells), taken : Seq(Cells)]
      BY <3>4, <3>6, <3>7
    <3> QED BY <3>5, <3>8
  <2>4. CASE UNCHANGED <<index, file>>
    BY <1>1, <2>4 DEF TypeOK
  <2> QED BY <2>1, <2>2, <2>3, <2>4 DEF ReadFromBufferFile
<1>4. /\ cpc[c] = from /\ cpc' = [cpc EXCEPT ![c] = to]
      /\ UNCHANGED <<names, cmain, cstep, csem, pvars, counts>> /\ c \in plan.consumers
      /\ \A nm \in Names : InUse(nm)' = InUse(nm)
      /\ \A x, t : Holds(t, x)' => Holds(t, x) \/ (t = c /\ x = csem["cs"])
      /\ ProducersRun' /\ ConsumersRun' /\ Paired'
  BY <1>2, <1>3, ConsumerFrame
<1>5. Tokens'
  <2> DEFINE Used == InUse("cs")
  <2>1. Holds(c, csem["cs"])
    BY <1>2, <1>4 DEF Holds
  <2>2. /\ Used = InUse("cs")' /\ Used \subseteq InUse("cs")
        /\ \A o \in Used \ {0} : objs'[o].value = objs[o].value
        /\ \A o \in Used \ {0}, t \in Children : Holds(t, o)' => Holds(t, o)
    BY <1>4, <2>1
  <2> HIDE DEF Used
  <2> QED BY <1>1, <2>2, TokensKeep
<1>6. Handles'
  BY <1>4 DEF IInv, Handles
<1>7. index' \in [Children -> Slots]
  BY <1>1, <1>3 DEF TypeOK
<1>8. TypeOK'
  BY <1>1, <1>2, <1>3, <1>4, <1>7, ConsumerTypes DEF TypeOK
<1>9. WriteIndexStable'
  BY <1>1, <1>3, <1>4, ConsumerWrites
<1> QED BY <1>4, <1>5, <1>6, <1>8, <1>9 DEF IInv
-----------------------------------------------------------------------------
(* The invariant is inductive: the producer program. *)

\* A step that brings no object into use, changes none, and makes no child a
\* holder.
LEMMA NoSemaphore ==
    ASSUME IInv, objs' = objs,
           \A nm \in Names : InUse(nm)' \subseteq InUse(nm) \cup {0},
           \A x, t : Holds(t, x)' => Holds(t, x)
    PROVE  Tokens' /\ Handles'
<1> DEFINE Used == InUse("cs")
           Next1 == InUse("cs")'
<1>1. Tokens /\ "cs" \in Names
  BY DEF IInv, Names
<1>2. /\ Next1 = InUse("cs")' /\ Next1 \ {0} \subseteq InUse("cs")
      /\ \A o \in Next1 \ {0} : objs'[o].value = objs[o].value
      /\ \A o \in Next1 \ {0}, t \in Children : Holds(t, o)' => Holds(t, o)
  BY <1>1
<1>3. Tokens'
  <2> HIDE DEF Next1
  <2> QED BY <1>1, <1>2, TokensKeep
<1>4. Handles'
  <2>1. \A nm \in Names : InUse(nm)' \subseteq 0 .. Len(objs)'
    <3>1. \A nm \in Names : InUse(nm) \subseteq 0 .. Len(objs) /\ 0 \in 0 .. Len(objs)
      BY DEF IInv, Handles, TypeOK
    <3> QED BY <3>1
  <2>2. \A x, y \in Names : x # y => InUse(x)' \cap InUse(y)' \subseteq {0}
    BY DEF IInv, Handles
  <2> QED BY <2>1, <2>2 DEF Handles
<1> QED BY <1>3, <1>4

\* When the producer program does not run, none of its children is active.
LEMMA NoProducer ==
    ASSUME IInv, pmain # "run"
    PROVE  \A p \in Producers : ppc[p] \in {"none", "exit"}
BY DEF IInv, ProducersRun

LEMMA LaunchProducerStep ==
    ASSUME IInv, LaunchProducer
    PROVE  IInv'
<1>1. /\ TypeOK /\ pmain \in {"idle", "done", "killed"} /\ pmain' = "setup" /\ pstep' = 1
      /\ pruns' = pruns + 1
      /\ UNCHANGED <<names, objs, file, psem, ppc, pops, cvars, index, cruns, kills, plan>>
  BY DEF LaunchProducer, IInv, TypeOK, Ended
<1>2. Tokens' /\ Handles'
  BY <1>1, NoSemaphore DEF InUse, Holds, cvars
<1>3. TypeOK'
  BY <1>1 DEF TypeOK, cvars
<1>4. \A p \in Producers : ppc[p] \in {"none", "exit"}
  BY <1>1, NoProducer
<1>5. ProducersRun' /\ WriteIndexStable'
  BY <1>1, <1>4 DEF ProducersRun, WriteIndexStable
<1>6. ConsumersRun'
  BY <1>1 DEF IInv, ConsumersRun, cvars
<1>7. Paired'
  <2>1. Orderly => pruns = cruns /\ cmain \in Ended
    BY DEF LaunchProducer
  <2>2. Orderly' = Orderly
    BY <1>1 DEF Orderly
  <2> QED BY <1>1, <2>1, <2>2 DEF Paired, cvars, Ended, TypeOK
<1> QED BY <1>2, <1>3, <1>5, <1>6, <1>7 DEF IInv

LEMMA NoneCrashed == IInv => \A p \in Producers : ppc[p] # "crashed"
BY DEF IInv, TypeOK

LEMMA JoinProducersStep ==
    ASSUME IInv, JoinProducers
    PROVE  IInv'
<1>1. /\ TypeOK /\ pmain = "run" /\ pmain' = "done"
      /\ UNCHANGED <<names, objs, file, pstep, psem, ppc, pops, cvars, index, counts>>
  BY NoneCrashed DEF JoinProducers, IInv
<1>2. Tokens' /\ Handles'
  BY <1>1, NoSemaphore DEF InUse, Holds, cvars
<1>3. TypeOK'
  BY <1>1 DEF TypeOK, cvars, counts
<1>4. \A p \in Producers : ppc[p] \in {"none", "exit"}
  BY NoneCrashed DEF JoinProducers, IInv, ProducersRun
<1>5. ProducersRun' /\ WriteIndexStable'
  BY <1>1, <1>4 DEF ProducersRun, WriteIndexStable
<1>6. ConsumersRun' /\ Paired'
  BY <1>1 DEF IInv, ConsumersRun, Paired, Orderly, cvars, counts
<1> QED BY <1>2, <1>3, <1>5, <1>6 DEF IInv

LEMMA KillProducerStep ==
    ASSUME IInv, KillProducer
    PROVE  IInv'
<1>1. /\ TypeOK /\ pmain' = "killed" /\ ppc' = [p \in Producers |-> "none"]
      /\ kills' = kills + 1
      /\ UNCHANGED <<names, objs, file, pstep, psem, pops, cvars, index, pruns, cruns, plan>>
  BY DEF KillProducer, IInv
<1>2. Tokens' /\ Handles'
  BY <1>1, NoSemaphore DEF InUse, Holds, cvars
<1>3. TypeOK'
  BY <1>1 DEF TypeOK, cvars
<1>4. ProducersRun' /\ WriteIndexStable'
  BY <1>1 DEF ProducersRun, WriteIndexStable
<1>5. ConsumersRun' /\ Paired'
  BY <1>1 DEF IInv, ConsumersRun, Paired, Orderly, cvars
<1> QED BY <1>2, <1>3, <1>4, <1>5 DEF IInv

-----------------------------------------------------------------------------
(* The invariant is inductive: the consumer program. *)

LEMMA LaunchConsumerStep ==
    ASSUME IInv, LaunchConsumer
    PROVE  IInv'
<1>1. /\ TypeOK /\ cmain \in {"idle", "done", "failed", "killed"}
      /\ cmain' \in {"connect", "failed"} /\ cstep' = 1 /\ cruns' = cruns + 1
      /\ cpc' = [c \in Consumers |-> "none"]
      /\ UNCHANGED <<names, objs, file, pvars, csem, cops, index, pruns, kills, plan>>
  BY DEF LaunchConsumer, IInv, Ended
<1>2. Tokens' /\ Handles'
  BY <1>1, NoSemaphore DEF InUse, Holds, pvars
<1>3. TypeOK'
  BY <1>1 DEF TypeOK, pvars
<1>4. ProducersRun' /\ WriteIndexStable'
  BY <1>1 DEF IInv, ProducersRun, WriteIndexStable, pvars
<1>5. ConsumersRun'
  BY <1>1 DEF IInv, ConsumersRun
<1>6. Paired'
  <2>1. Orderly => cruns < pruns /\ pmain \notin {"idle", "setup"}
    BY DEF LaunchConsumer
  <2>2. Orderly' = Orderly
    BY <1>1 DEF Orderly
  <2> QED BY <1>1, <2>1, <2>2 DEF IInv, Paired, pvars, TypeOK
<1> QED BY <1>2, <1>3, <1>4, <1>5, <1>6 DEF IInv

LEMMA ConnectStepStep ==
    ASSUME IInv, ConnectStep
    PROVE  IInv'
<1> USE DEF Names
<1>1. /\ Len(Connect) = 3 /\ Connect[1] = <<"open", "filled">>
      /\ Connect[2] = <<"open", "empty">> /\ Connect[3] = <<"open", "cs">>
  BY DEF Connect
<1>2. PICK nm \in Names :
          /\ Connect[cstep] = <<"open", nm>>
          /\ \/ cstep = 1 /\ nm = "filled"
             \/ cstep = 2 /\ nm = "empty"
             \/ cstep = 3 /\ nm = "cs"
  <2>1. cstep = 1 \/ cstep = 2 \/ cstep = 3
    BY DEF IInv, TypeOK
  <2> QED BY <1>1, <2>1
<1>3. /\ TypeOK /\ cmain = "connect" /\ names[nm] # 0 /\ csem' = [csem EXCEPT ![nm] = names[nm]]
      /\ UNCHANGED <<names, objs, file, pvars, index, counts>>
  BY <1>2 DEF ConnectStep, Succeeds, HandleOf, IInv
<1>4. \/ /\ cstep \in {1, 2} /\ nm = IF cstep = 1 THEN "filled" ELSE "empty"
         /\ cmain' = "connect" /\ cstep' = cstep + 1 /\ UNCHANGED <<cpc, cops>>
      \/ /\ cstep = 3 /\ nm = "cs" /\ cmain' = "run" /\ cstep' = 1
         /\ cpc' = Forked(Consumers, plan.consumers, "wait_filled")
         /\ cops' = [c \in Consumers |-> OPS_PER_CONSUMER]
  BY <1>1, <1>2 DEF ConnectStep
<1>5. \A x \in Names : InUse(x)' \subseteq InUse(x) \cup {0}
  BY <1>3 DEF InUse, TypeOK, pvars
<1>6. \A x, t : Holds(t, x)' => Holds(t, x)
  BY <1>3, <1>4 DEF Holds, TypeOK, pvars, Forked
<1>7. Tokens' /\ Handles'
  BY <1>3, <1>5, <1>6, NoSemaphore
<1>8. OPS_PER_CONSUMER \in Int
  <2>1. IsFiniteSet(plan.consumers) /\ plan.consumers # {}
    BY <1>3, FileAssumption DEF TypeOK
  <2>2. Cardinality(plan.consumers) \in Nat /\ Cardinality(plan.consumers) # 0
    BY <2>1, FS_CardinalityType, FS_EmptySet
  <2>3. NUM_OPERATIONS \in Nat
    BY FileAssumption
  <2> QED BY <2>2, <2>3 DEF OPS_PER_CONSUMER
<1>9. TypeOK'
  <2>1. csem' \in [Names -> Nat]
    BY <1>3 DEF TypeOK
  <2>2. /\ cpc' \in [Consumers -> {"none", "wait_filled", "wait_cs", "load", "read", "advance",
                                   "post_cs", "post_empty", "exit", "crashed"}]
        /\ cops' \in [Consumers -> Int]
    BY <1>3, <1>4, <1>8 DEF TypeOK, Forked
  <2>3. cstep' \in 1 .. 3 /\ cmain' \in {"connect", "run"}
    BY <1>4
  <2> QED BY <1>3, <2>1, <2>2, <2>3 DEF TypeOK, pvars, counts
<1>10. ProducersRun' /\ WriteIndexStable'
  BY <1>3 DEF IInv, ProducersRun, WriteIndexStable, pvars, counts
<1>11. ConsumersRun'
  <2>1. \A x \in Names : csem[x] # 0 => csem'[x] # 0
    BY <1>3 DEF TypeOK
  <2>2. csem'[nm] # 0
    BY <1>3 DEF TypeOK
  <2>3. CASE cstep = 3
    <3>1. \A x \in Names : csem'[x] # 0
      BY <1>2, <1>3, <2>1, <2>2, <2>3 DEF IInv, ConsumersRun
    <3> QED BY <1>3, <1>4, <2>3, <3>1 DEF ConsumersRun, Forked, counts
  <2>4. CASE cstep # 3
    <3>1. cmain' = "connect" /\ cstep' = cstep + 1 /\ UNCHANGED cpc
      BY <1>4, <2>4
    <3>2. cstep' > 1 => csem'["filled"] # 0
      BY <1>2, <1>3, <2>1, <2>2, <2>4 DEF IInv, ConsumersRun
    <3>3. cstep' > 2 => csem'["empty"] # 0
      BY <1>2, <1>3, <1>4, <2>1, <2>2, <2>4, <3>1 DEF IInv, ConsumersRun
    <3>4. \A c \in Consumers : cpc[c] # "none" =>
              c \in plan.consumers /\ \A x \in Names : csem'[x] # 0
      BY <2>1 DEF IInv, ConsumersRun
    <3>5. \/ \E c \in Consumers : cpc[c] = "crashed"
          \/ \A c \in Consumers : cpc[c] \in {"none", "exit"}
      BY <1>3 DEF IInv, ConsumersRun
    <3> QED BY <1>3, <3>1, <3>2, <3>3, <3>4, <3>5 DEF ConsumersRun, counts
  <2> QED BY <2>3, <2>4
<1>12. Paired'
  <2>1. csem'["cs"] = names["cs"] \/ cmain' = "connect"
    BY <1>3, <1>4 DEF TypeOK
  <2> QED BY <1>3, <1>4, <2>1 DEF IInv, Paired, Orderly, pvars, counts
<1> QED BY <1>7, <1>9, <1>10, <1>11, <1>12 DEF IInv

LEMMA JoinConsumersStep ==
    ASSUME IInv, JoinConsumers
    PROVE  IInv'
<1>1. /\ TypeOK /\ cmain = "run" /\ cmain' = "destroy"
      /\ UNCHANGED <<names, objs, file, cstep, csem, cpc, cops, pvars, index, counts>>
  BY DEF JoinConsumers, IInv
<1>2. Tokens' /\ Handles'
  BY <1>1, NoSemaphore DEF InUse, Holds, pvars
<1>3. TypeOK'
  BY <1>1 DEF TypeOK, pvars, counts
<1>4. ProducersRun' /\ WriteIndexStable'
  BY <1>1 DEF IInv, ProducersRun, WriteIndexStable, pvars, counts
<1>5. \A c \in Consumers : cpc[c] \in {"none", "exit"}
  BY DEF JoinConsumers, IInv, ConsumersRun
<1>6. ConsumersRun'
  BY <1>1, <1>5 DEF IInv, ConsumersRun, counts
<1>7. Paired'
  BY <1>1 DEF IInv, Paired, Orderly, pvars, counts
<1> QED BY <1>2, <1>3, <1>4, <1>6, <1>7 DEF IInv

LEMMA DestroyStepStep ==
    ASSUME IInv, DestroyStep
    PROVE  IInv'
<1>1. /\ Len(Destroy) = 3 /\ Destroy[1] = <<"remove", "filled">>
      /\ Destroy[2] = <<"remove", "empty">> /\ Destroy[3] = <<"remove", "cs">>
  BY DEF Destroy
<1>2. PICK nm \in Names : Destroy[cstep] = <<"remove", nm>>
  BY <1>1 DEF IInv, TypeOK, Names
<1>3. /\ TypeOK /\ cmain = "destroy" /\ names' = [names EXCEPT ![nm] = 0] /\ objs' = objs
      /\ cmain' \in {"done", "destroy"} /\ cstep' \in 1 .. 3 
      /\ UNCHANGED <<file, csem, cpc, cops, pvars, index, counts>>
  BY <1>1, <1>2 DEF DestroyStep, Perform, IInv, TypeOK
<1>4. \A x \in Names : InUse(x)' \subseteq InUse(x) \cup {0}
  BY <1>3 DEF InUse, TypeOK, pvars
<1>5. Tokens' /\ Handles'
  BY <1>3, <1>4, NoSemaphore DEF Holds, pvars
<1>6. TypeOK'
  BY <1>3 DEF TypeOK, pvars, counts
<1>7. ProducersRun' /\ WriteIndexStable'
  BY <1>3 DEF IInv, ProducersRun, WriteIndexStable, pvars, counts
<1>8. ConsumersRun'
  BY <1>3 DEF IInv, ConsumersRun, counts
<1>9. Paired'
  BY <1>3 DEF IInv, Paired, Orderly, pvars, counts, TypeOK
<1> QED BY <1>5, <1>6, <1>7, <1>8, <1>9 DEF IInv

LEMMA ConsumerFailsStep ==
    ASSUME IInv, ConsumerFails
    PROVE  IInv'
<1>1. /\ TypeOK /\ cmain' = "failed"
      /\ UNCHANGED <<names, objs, file, cstep, csem, cpc, cops, pvars, index, counts>>
      /\ \/ cmain \in {"connect", "destroy"}
         \/ \E c \in Consumers : cpc[c] = "crashed"
  BY DEF ConsumerFails, IInv
<1>2. Tokens' /\ Handles'
  BY <1>1, NoSemaphore DEF InUse, Holds, pvars
<1>3. TypeOK'
  BY <1>1 DEF TypeOK, pvars, counts
<1>4. ProducersRun' /\ WriteIndexStable'
  BY <1>1 DEF IInv, ProducersRun, WriteIndexStable, pvars, counts
<1>5. ConsumersRun'
  BY <1>1 DEF IInv, ConsumersRun, counts
<1>6. Paired'
  BY <1>1 DEF IInv, Paired, Orderly, pvars, counts
<1> QED BY <1>2, <1>3, <1>4, <1>5, <1>6 DEF IInv

LEMMA KillConsumerStep ==
    ASSUME IInv, KillConsumer
    PROVE  IInv'
<1>1. /\ TypeOK /\ cmain' = "killed" /\ cpc' = [c \in Consumers |-> "none"]
      /\ kills' = kills + 1
      /\ UNCHANGED <<names, objs, file, cstep, csem, cops, pvars, index, pruns, cruns, plan>>
  BY DEF KillConsumer, IInv
<1>2. Tokens' /\ Handles'
  BY <1>1, NoSemaphore DEF InUse, Holds, pvars
<1>3. TypeOK'
  BY <1>1 DEF TypeOK, pvars
<1>4. ProducersRun' /\ WriteIndexStable'
  BY <1>1 DEF IInv, ProducersRun, WriteIndexStable, pvars
<1>5. ConsumersRun' /\ Paired'
  BY <1>1 DEF IInv, ConsumersRun, Paired, Orderly, pvars
<1> QED BY <1>2, <1>3, <1>4, <1>5 DEF IInv
-----------------------------------------------------------------------------
(* The invariant is inductive: the set-up of the producer program. *)

\* The calls of the set-up in their order.
LEMMA SetupCalls ==
    /\ Len(Setup) = 8
    /\ Setup[1] = <<"truncate">> /\ Setup[2] = <<"fill">>
    /\ Setup[3] = <<"unlink", "filled">> /\ Setup[4] = <<"unlink", "empty">>
    /\ Setup[5] = <<"unlink", "cs">> /\ Setup[6] = <<"create", "filled">>
    /\ Setup[7] = <<"create", "empty">> /\ Setup[8] = <<"create", "cs">>
BY DEF Setup

\* What all steps of the set-up have in common.
LEMMA SetupFrame ==
    ASSUME IInv, SetupStep
    PROVE  /\ pmain = "setup" /\ pstep \in 1 .. 8 /\ pstep' = pstep + 1
           /\ pmain' = IF pstep = 8 THEN "run" ELSE "setup"
           /\ ppc' = IF pstep = 8 THEN Forked(Producers, plan.producers, "wait_empty") ELSE ppc
           /\ pops' \in [Producers -> Int]
           /\ ppc' \in [Producers -> {"none", "wait_empty", "wait_cs", "load", "store", "advance",
                                      "post_cs", "post_filled", "exit"}]
           /\ UNCHANGED <<cvars, index, counts>>
           /\ \A x, t : Holds(t, x)' => Holds(t, x) /\ t \in Consumers /\ csem["cs"] = x
           /\ WriteIndexStable' /\ ConsumersRun'
<1>1. /\ TypeOK /\ pmain = "setup" /\ pstep \in 1 .. 8 /\ pstep' = pstep + 1
      /\ pmain' = IF pstep = 8 THEN "run" ELSE "setup"
      /\ ppc' = IF pstep = 8 THEN Forked(Producers, plan.producers, "wait_empty") ELSE ppc
      /\ UNCHANGED <<cvars, index, counts>>
  BY SetupCalls DEF SetupStep, IInv, ProducersRun, TypeOK
<1>2. OPS_PER_PRODUCER \in Int
  <2>1. IsFiniteSet(plan.producers) /\ plan.producers # {}
    BY <1>1, FileAssumption DEF TypeOK
  <2>2. Cardinality(plan.producers) \in Nat /\ Cardinality(plan.producers) # 0
    BY <2>1, FS_CardinalityType, FS_EmptySet
  <2>3. NUM_OPERATIONS \in Nat
    BY FileAssumption
  <2> QED BY <2>2, <2>3 DEF OPS_PER_PRODUCER
<1>3. pops' = IF pstep = 8 THEN [p \in Producers |-> OPS_PER_PRODUCER] ELSE pops
  BY SetupCalls DEF SetupStep
<1>4. pops' \in [Producers -> Int]
  BY <1>1, <1>2, <1>3 DEF TypeOK
<1>5. ppc' \in [Producers -> {"none", "wait_empty", "wait_cs", "load", "store", "advance",
                              "post_cs", "post_filled", "exit"}]
  BY <1>1 DEF TypeOK, Forked
<1>6. \A p \in Producers : ppc[p] \in {"none", "exit"}
  BY <1>1, NoProducer
<1>7. \A p \in Producers : ppc'[p] \in {"none", "exit", "wait_empty"}
  BY <1>1, <1>6 DEF Forked
<1>8. ASSUME NEW x, NEW t, Holds(t, x)'
      PROVE  Holds(t, x) /\ t \in Consumers /\ csem["cs"] = x
  BY <1>1, <1>7, <1>8 DEF Holds, cvars
<1>9. WriteIndexStable'
  BY <1>7 DEF WriteIndexStable
<1>10. ConsumersRun'
  BY <1>1 DEF IInv, ConsumersRun, cvars, counts
<1> QED BY <1>1, <1>4, <1>5, <1>8, <1>9, <1>10

\* What initFile leaves is a file with nothing in it.
LEMMA EmptyFile ==
    ASSUME NEW e \in BOOLEAN, NEW n \in 0 .. 2
    PROVE  [exists |-> e, length |-> n, read_index |-> 0, write_index |-> 0,
            cells |-> Zeros, stored |-> <<>>, taken |-> <<>>]
           \in [exists : BOOLEAN, length : 0 .. 2, read_index : Slots, write_index : Slots,
                cells : [Slots -> Cells], stored : Seq(Cells), taken : Seq(Cells)]
<1>1. 0 \in Slots /\ <<>> \in Cells /\ <<>> \in Seq(Cells)
  BY FileAssumption DEF Slots, Cells
<1>2. Zeros \in [Slots -> Cells]
  BY <1>1 DEF Zeros, Slots
<1> HIDE DEF Slots, Cells
<1> QED BY <1>1, <1>2

LEMMA InitFileStep ==
    ASSUME IInv, SetupStep, InitFile(Setup[pstep])
    PROVE  IInv'
<1>1. /\ pmain = "setup" /\ pstep \in 1 .. 8 /\ pstep' = pstep + 1
      /\ pmain' = IF pstep = 8 THEN "run" ELSE "setup"
      /\ ppc' = IF pstep = 8 THEN Forked(Producers, plan.producers, "wait_empty") ELSE ppc
      /\ pops' \in [Producers -> Int]
      /\ ppc' \in [Producers -> {"none", "wait_empty", "wait_cs", "load", "store", "advance",
                                 "post_cs", "post_filled", "exit"}]
      /\ UNCHANGED <<cvars, index, counts>>
      /\ \A x, t : Holds(t, x)' => Holds(t, x)
      /\ WriteIndexStable' /\ ConsumersRun'
  BY SetupFrame
<1>2. pstep \in {1, 2} /\ UNCHANGED <<names, objs, psem>> /\ TypeOK
  <2>1. Setup[pstep][1] \in {"truncate", "fill"}
    BY DEF InitFile
  <2>2. pstep = 1 \/ pstep = 2
    BY <1>1, <2>1, SetupCalls
  <2> QED BY <2>2 DEF InitFile, IInv
<1>3. /\ file' \in [exists : BOOLEAN, length : 0 .. 2, read_index : Slots, write_index : Slots,
                    cells : [Slots -> Cells], stored : Seq(Cells), taken : Seq(Cells)]
      /\ pstep = 2 => file'.length = 2
  <2>1. CASE pstep = 1
    <3>1. file' \in [exists : BOOLEAN, length : 0 .. 2, read_index : Slots, write_index : Slots,
                     cells : [Slots -> Cells], stored : Seq(Cells), taken : Seq(Cells)]
      <4>1. /\ (IF Setup[pstep][1] = "fill" THEN 2 ELSE 0) \in 0 .. 2
            /\ InitFile(Setup[pstep])
        OBVIOUS
      <4> QED BY <4>1, EmptyFile DEF InitFile
    <3> QED BY <2>1, <3>1
  <2>2. CASE pstep = 2
    <3>1. Setup[pstep][1] = "fill"
      BY <2>2, SetupCalls
    <3>2. /\ 2 \in 0 .. 2 /\ TRUE \in BOOLEAN
          /\ file' = [exists |-> TRUE, length |-> 2, read_index |-> 0, write_index |-> 0,
                      cells |-> Zeros, stored |-> <<>>, taken |-> <<>>]
      BY <3>1 DEF InitFile
    <3> QED BY <3>2, EmptyFile
  <2> QED BY <1>2, <2>1, <2>2
<1>4. Tokens' /\ Handles'
  BY <1>1, <1>2, NoSemaphore DEF InUse, cvars
<1>5. TypeOK'
  BY <1>1, <1>2, <1>3 DEF TypeOK, cvars, counts
<1>6. ProducersRun'
  <2>1. /\ pmain' = "setup" /\ pstep' \in {2, 3} /\ UNCHANGED ppc
        /\ pstep' > 2 => file'.length = 2
    BY <1>1, <1>2, <1>3
  <2>2. \A p \in Producers : ppc[p] \in {"none", "exit"}
    BY <1>1, NoProducer
  <2> QED BY <2>1, <2>2 DEF ProducersRun
<1>7. Paired'
  BY <1>1, <1>2 DEF IInv, Paired, Orderly, cvars, counts
<1> QED BY <1>1, <1>4, <1>5, <1>6, <1>7 DEF IInv

\* An unlink takes a name away.
LEMMA UnlinkStep ==
    ASSUME IInv, SetupStep, NEW nm \in Names, Setup[pstep] = <<"unlink", nm>>,
           InitSemaphore(Setup[pstep])
    PROVE  IInv'
<1>1. /\ pmain = "setup" /\ pstep \in 1 .. 8 /\ pstep' = pstep + 1
      /\ pmain' = IF pstep = 8 THEN "run" ELSE "setup"
      /\ ppc' = IF pstep = 8 THEN Forked(Producers, plan.producers, "wait_empty") ELSE ppc
      /\ pops' \in [Producers -> Int]
      /\ ppc' \in [Producers -> {"none", "wait_empty", "wait_cs", "load", "store", "advance",
                                 "post_cs", "post_filled", "exit"}]
      /\ UNCHANGED <<cvars, index, counts>>
      /\ \A x, t : Holds(t, x)' => Holds(t, x)
      /\ WriteIndexStable' /\ ConsumersRun'
  BY SetupFrame
<1>2. pstep \in {3, 4, 5}
  <2>1. pstep = 3 \/ pstep = 4 \/ pstep = 5
    BY <1>1, SetupCalls
  <2> QED BY <2>1
<1>3. /\ TypeOK /\ names' = [names EXCEPT ![nm] = 0]
      /\ UNCHANGED <<objs, psem, file>>
  BY DEF InitSemaphore, Perform, IInv
<1>4. \A x \in Names : InUse(x)' \subseteq InUse(x) \cup {0}
  BY <1>1, <1>3 DEF InUse, TypeOK, cvars
<1>5. Tokens' /\ Handles'
  BY <1>1, <1>3, <1>4, NoSemaphore
<1>6. TypeOK'
  <2>1. pmain' = "setup" /\ pstep' \in 4 .. 6 /\ UNCHANGED ppc
    BY <1>1, <1>2
  <2>2. names' \in [Names -> Nat]
    BY <1>3 DEF TypeOK
  <2> QED BY <1>1, <1>3, <2>1, <2>2 DEF TypeOK, cvars, counts
<1>7. ProducersRun'
  <2>1. /\ pmain' = "setup" /\ pstep' \in {4, 5, 6} /\ UNCHANGED ppc /\ file'.length = 2
    BY <1>1, <1>2, <1>3 DEF IInv, ProducersRun
  <2>2. \A p \in Producers : ppc[p] \in {"none", "exit"}
    BY <1>1, NoProducer
  <2> QED BY <2>1, <2>2 DEF ProducersRun
<1>8. Paired'
  BY <1>1, <1>2, <1>3 DEF IInv, Paired, Orderly, cvars, counts
<1> QED BY <1>1, <1>5, <1>6, <1>7, <1>8 DEF IInv

\* A create brings a new object into use, under its name and for the producers.
LEMMA CreateStep ==
    ASSUME IInv, SetupStep, NEW nm \in Names, Setup[pstep] = <<"create", nm>>,
           InitSemaphore(Setup[pstep])
    PROVE  IInv'
<1> DEFINE new == Len(objs) + 1
<1>1. /\ pmain = "setup" /\ pstep \in 1 .. 8 /\ pstep' = pstep + 1
      /\ pmain' = IF pstep = 8 THEN "run" ELSE "setup"
      /\ ppc' = IF pstep = 8 THEN Forked(Producers, plan.producers, "wait_empty") ELSE ppc
      /\ pops' \in [Producers -> Int]
      /\ ppc' \in [Producers -> {"none", "wait_empty", "wait_cs", "load", "store", "advance",
                                 "post_cs", "post_filled", "exit"}]
      /\ UNCHANGED <<cvars, index, counts>>
      /\ \A x, t : Holds(t, x)' => Holds(t, x) /\ t \in Consumers /\ csem["cs"] = x
      /\ WriteIndexStable' /\ ConsumersRun'
  BY SetupFrame
<1>2. \/ pstep = 6 /\ nm = "filled"
      \/ pstep = 7 /\ nm = "empty"
      \/ pstep = 8 /\ nm = "cs"
  BY <1>1, SetupCalls
<1>3. /\ TypeOK /\ names' = [names EXCEPT ![nm] = new] /\ psem' = [psem EXCEPT ![nm] = new]
      /\ objs' = Append(objs, Fresh[nm]) /\ UNCHANGED file
  BY DEF InitSemaphore, Perform, HandleOf, IInv
<1>4. Fresh[nm] \in [value : Nat] /\ (nm = "cs" => Fresh[nm].value = 1)
  BY FileAssumption DEF Fresh, Semaphore, Names
<1>5. /\ objs' \in Seq([value : Nat]) /\ Len(objs') = Len(objs) + 1 /\ new \in Nat
      /\ objs'[new] = Fresh[nm] /\ Len(objs) \in Nat
      /\ \A x \in 1 .. Len(objs) : objs'[x] = objs[x]
  BY <1>3, <1>4 DEF TypeOK
<1>6. /\ InUse(nm)' = {new, csem[nm]}
      /\ \A x \in Names \ {nm} : InUse(x)' = InUse(x)
      /\ \A x \in Names : InUse(x) \subseteq 0 .. Len(objs) /\ csem[x] \in InUse(x)
  BY <1>1, <1>3 DEF IInv, Handles, InUse, TypeOK, cvars
<1>7. \A x \in Names : InUse(x)' \subseteq 0 .. Len(objs')
  <2>1. 0 .. Len(objs) \subseteq 0 .. Len(objs') /\ new \in 0 .. Len(objs')
    BY <1>5
  <2>2. InUse(nm)' \subseteq 0 .. Len(objs')
    BY <1>6, <2>1
  <2>3. \A x \in Names \ {nm} : InUse(x)' \subseteq 0 .. Len(objs')
    BY <1>6, <2>1
  <2> QED BY <2>2, <2>3
<1>8. \A x \in Names : x # nm => InUse(x)' \cap InUse(nm)' \subseteq InUse(x) \cap InUse(nm)
  <2> SUFFICES ASSUME NEW x \in Names, x # nm, NEW o, o \in InUse(x)', o \in InUse(nm)'
               PROVE  o \in InUse(x) /\ o \in InUse(nm)
    OBVIOUS
  <2>1. o \in InUse(x) /\ o \in 0 .. Len(objs)
    BY <1>6
  <2>2. o # new
    BY <1>5, <2>1
  <2> QED BY <1>6, <2>1, <2>2
<1>9. Handles'
  <2>1. ASSUME NEW x \in Names, NEW y \in Names, x # y
        PROVE  InUse(x)' \cap InUse(y)' \subseteq {0}
    <3>1. InUse(x) \cap InUse(y) \subseteq {0}
      BY <2>1 DEF IInv, Handles
    <3>2. CASE x = nm
      BY <1>8, <2>1, <3>1, <3>2
    <3>3. CASE y = nm
      BY <1>8, <2>1, <3>1, <3>3
    <3>4. CASE x # nm /\ y # nm
      BY <1>6, <3>1, <3>4
    <3> QED BY <3>2, <3>3, <3>4
  <2> QED BY <1>7, <2>1 DEF Handles
<1>10. Tokens'
  <2>1. CASE nm # "cs"
    <3> DEFINE Used == InUse("cs")
    <3>1. "cs" \in Names
      BY DEF Names
    <3>2. /\ Tokens /\ Used = InUse("cs")' /\ Used \ {0} \subseteq InUse("cs")
          /\ \A o \in Used \ {0} : o \in 1 .. Len(objs)
      BY <1>5, <1>6, <2>1, <3>1 DEF IInv
    <3>3. /\ \A o \in Used \ {0} : objs'[o].value = objs[o].value
          /\ \A o \in Used \ {0}, t \in Children : Holds(t, o)' => Holds(t, o)
      BY <1>1, <1>5, <3>2
    <3> HIDE DEF Used
    <3> QED BY <3>2, <3>3, TokensKeep
  <2>2. CASE nm = "cs"
    <3> SUFFICES ASSUME NEW o \in InUse("cs")' \ {0} PROVE Exclusive(o)'
      BY DEF Tokens
    <3>1. CASE o = new
      <4>1. \A t \in Children : ~Holds(t, o)'
        BY <1>1, <1>5, <1>6, <2>2, <3>1
      <4>2. objs'[o].value = 1
        BY <1>4, <1>5, <2>2, <3>1
      <4> QED BY <4>1, <4>2 DEF Exclusive
    <3>2. CASE o # new
      <4>1. o = csem["cs"] /\ o \in InUse("cs") \ {0} /\ objs'[o] = objs[o]
        BY <1>5, <1>6, <2>2, <3>2
      <4>2. Exclusive(o)
        BY <4>1 DEF IInv, Tokens
      <4>3. \A t \in Children : Holds(t, o)' => Holds(t, o)
        BY <1>1
      <4>4. \A t \in Children : Holds(t, o)' =>
                objs'[o].value = 0 /\ \A u \in Children : Holds(u, o)' => u = t
        BY <4>1, <4>2, <4>3 DEF Exclusive
      <4> QED BY <4>1, <4>2, <4>4 DEF Exclusive
    <3> QED BY <3>1, <3>2
  <2> QED BY <2>1, <2>2
<1>11. TypeOK'
  <2>1. names' \in [Names -> Nat] /\ psem' \in [Names -> Nat]
    BY <1>3, <1>5 DEF TypeOK
  <2>2. pmain' \in {"setup", "run"} /\ pstep' \in 1 .. 9
    BY <1>1
  <2> QED BY <1>1, <1>3, <1>5, <2>1, <2>2 DEF TypeOK, cvars, counts
<1>12. ProducersRun'
  <2>1. \A p \in Producers : ppc[p] \in {"none", "exit"}
    BY <1>1, NoProducer
  <2>2. \A p \in Producers :
            ppc'[p] \notin {"none", "exit"} => pmain' = "run" /\ p \in plan'.producers
    BY <1>1, <2>1 DEF Forked, counts
  <2>3. file'.length = 2 /\ psem'[nm] = new /\ new # 0
    BY <1>1, <1>2, <1>3, <1>5 DEF IInv, ProducersRun, TypeOK
  <2>4. \A x \in Names \ {nm} : psem'[x] = psem[x]
    BY <1>3 DEF TypeOK
  <2>5. CASE pstep = 6
    BY <1>1, <1>2, <2>2, <2>3, <2>5 DEF ProducersRun
  <2>6. CASE pstep = 7
    <3>1. psem'["filled"] # 0
      BY <1>1, <1>2, <2>4, <2>6 DEF IInv, ProducersRun, Names
    <3> QED BY <1>1, <1>2, <2>2, <2>3, <2>6, <3>1 DEF ProducersRun
  <2>7. CASE pstep = 8
    <3>1. psem'["filled"] # 0 /\ psem'["empty"] # 0
      BY <1>1, <1>2, <2>4, <2>7 DEF IInv, ProducersRun, Names
    <3> QED BY <1>1, <1>2, <2>2, <2>3, <2>7, <3>1 DEF ProducersRun
  <2> QED BY <1>2, <2>5, <2>6, <2>7
<1>13. Paired'
  <2>1. pmain' = "run" => names'["cs"] = psem'["cs"]
    BY <1>1, <1>2, <1>3 DEF TypeOK, Names
  <2> QED BY <1>1, <2>1 DEF IInv, Paired, Orderly, cvars, counts
<1> QED BY <1>1, <1>9, <1>10, <1>11, <1>12, <1>13 DEF IInv

LEMMA SetupStepStep ==
    ASSUME IInv, SetupStep
    PROVE  IInv'
<1>1. CASE InitFile(Setup[pstep])
  BY <1>1, InitFileStep
<1>2. CASE InitSemaphore(Setup[pstep])
  <2>1. pstep \in 1 .. 8
    BY SetupFrame
  <2>2. Setup[pstep][1] \in {"unlink", "create"}
    BY <1>2 DEF InitSemaphore
  <2>3. \E nm \in Names : Setup[pstep] \in {<<"unlink", nm>>, <<"create", nm>>}
    <3>1. pstep \notin {1, 2}
      BY <2>2, SetupCalls
    <3>2. pstep = 3 \/ pstep = 4 \/ pstep = 5 \/ pstep = 6 \/ pstep = 7 \/ pstep = 8
      BY <2>1, <3>1
    <3> QED BY <3>2, SetupCalls DEF Names
  <2> QED BY <1>2, <2>3, UnlinkStep, CreateStep
<1> QED BY <1>1, <1>2 DEF SetupStep

-----------------------------------------------------------------------------
LEMMA Initially ==
    ASSUME Init
    PROVE  IInv
<1>1. BUFFER_SIZE \in Nat \ {0} /\ 0 \in Slots /\ <<>> \in Cells
  BY FileAssumption DEF Slots, Cells
<1>2. TypeOK
  <2>1. Zeros \in [Slots -> Cells] /\ <<>> \in Seq(Cells) /\ <<>> \in Seq([value : Nat])
    BY <1>1 DEF Zeros, Slots
  <2> QED BY <1>1, <2>1 DEF Init, TypeOK
<1>3. \A x \in Names : InUse(x) = {0}
  BY DEF Init, InUse
<1>4. Handles /\ Tokens
  <2>1. "cs" \in Names /\ 0 \in 0 .. Len(objs)
    BY DEF Names, Init
  <2> QED BY <1>3, <2>1 DEF Handles, Tokens
<1>5. ProducersRun /\ ConsumersRun /\ Paired /\ WriteIndexStable
  BY DEF Init, ProducersRun, ConsumersRun, Paired, WriteIndexStable
<1> QED BY <1>2, <1>4, <1>5 DEF IInv

LEMMA Inductive ==
    ASSUME IInv, [Next]_vars
    PROVE  IInv'
<1>1. CASE UNCHANGED vars
  <2>1. /\ UNCHANGED <<names, objs, file, index, plan, pruns, cruns, kills>>
        /\ UNCHANGED pvars /\ UNCHANGED cvars
    BY <1>1 DEF vars, counts
  <2>2. Tokens' /\ Handles'
    BY <2>1, NoSemaphore DEF InUse, Holds, pvars, cvars
  <2>3. TypeOK' /\ WriteIndexStable'
    BY <2>1 DEF IInv, TypeOK, WriteIndexStable, pvars, cvars
  <2>4. ProducersRun' /\ ConsumersRun' /\ Paired'
    BY <2>1 DEF IInv, ProducersRun, ConsumersRun, Paired, Orderly, pvars, cvars
  <2> QED BY <2>2, <2>3, <2>4 DEF IInv
<1>2. CASE Programs
  BY <1>2, LaunchProducerStep, SetupStepStep, JoinProducersStep, LaunchConsumerStep,
     ConnectStepStep, JoinConsumersStep, DestroyStepStep, ConsumerFailsStep
     DEF Programs
<1>3. CASE KillProducer \/ KillConsumer
  BY <1>3, KillProducerStep, KillConsumerStep
<1>4. CASE Terminated
  BY <1>1, <1>4 DEF Terminated
<1>5. CASE \E p \in Producers : Producer(p)
  BY <1>5, PSemStep, WritesOnly, WriteStep DEF Producer
<1>6. CASE \E c \in Consumers : Consumer(c)
  BY <1>6, CSemStep, ReadStep DEF Consumer
<1> QED BY <1>1, <1>2, <1>3, <1>4, <1>5, <1>6 DEF Next

-----------------------------------------------------------------------------
\* Launched in order, children inside the file hold the same semaphore, and
\* so are one.
LEMMA AloneInFile ==
    ASSUME IInv, Orderly,
           NEW t \in Children, InFile(t), NEW u \in Children, InFile(u)
    PROVE  t = u
<1>1. TypeOK /\ Tokens /\ Paired /\ Orderly /\ "cs" \in Names
  BY DEF IInv, Orderly, Names
<1>2. ASSUME NEW p \in Producers, ppc[p] \in {"load", "store", "advance"}
      PROVE  pmain = "run" /\ psem["cs"] \in InUse("cs") \ {0} /\ Holds(p, psem["cs"])
  BY <1>2 DEF IInv, ProducersRun, InUse, Holds
<1>3. ASSUME NEW c \in Consumers, cpc[c] \in {"load", "read", "advance"}
      PROVE  cmain = "run" /\ csem["cs"] \in InUse("cs") \ {0} /\ Holds(c, csem["cs"])
  <2>1. csem["cs"] \in InUse("cs") \ {0} /\ Holds(c, csem["cs"])
    BY <1>1, <1>3 DEF IInv, ConsumersRun, InUse, Holds
  <2>2. ASSUME cmain # "run" PROVE FALSE
    <3>1. PICK d \in Consumers : cpc[d] = "crashed"
      BY <1>3, <2>2 DEF IInv, ConsumersRun
    <3>2. Holds(d, csem["cs"]) /\ d \in Children /\ c \in Children
      BY <3>1 DEF Holds, Children
    <3>3. d = c
      BY <1>1, <2>1, <3>2 DEF Tokens, Exclusive
    <3> QED BY <1>3, <3>1, <3>3
  <2> QED BY <2>1, <2>2
<1>4. pmain = "run" /\ cmain = "run" => psem["cs"] = csem["cs"]
  BY <1>1 DEF Paired
<1>5. PICK o \in InUse("cs") \ {0} : Holds(t, o) /\ Holds(u, o)
  BY <1>2, <1>3, <1>4 DEF InFile
<1>6. Exclusive(o)
  BY <1>1 DEF Tokens
<1> QED BY <1>5, <1>6 DEF Exclusive

\* The inductive invariant holds.
THEOREM Invariant == Spec => []IInv
<1>1. Init => IInv
  BY Initially
<1>2. IInv /\ [Next]_vars => IInv'
  BY Inductive
<1> QED BY <1>1, <1>2, PTL DEF Spec

\* One child at a time has the file open, of both programs together, however
\* often they are killed, as long as the user launches them in order.
THEOREM FileMutex == Spec => []OneInFile
<1>1. IInv => OneInFile
  <2> SUFFICES ASSUME IInv, Orderly
               PROVE  Cardinality({t \in Children : InFile(t)}) <= 1
    BY DEF OneInFile
  <2> DEFINE S == {t \in Children : InFile(t)}
  <2>1. \A t, u \in S : t = u
    BY AloneInFile
  <2>2. S = {} \/ \E t : S = {t}
    BY <2>1
  <2> HIDE DEF S
  <2>3. Cardinality(S) \in {0, 1}
    BY <2>2, FS_EmptySet, FS_Singleton
  <2> QED BY <2>3 DEF S
<1> QED BY <1>1, Invariant, PTL

-----------------------------------------------------------------------------
(* A second producer beside the first one. *)

\* Where a child has taken its cs and not posted it.
Taken == {"load", "store", "read", "advance", "post_cs", "crashed"}

\* The children that have, of all three programs, each with its cs.
Holders == {<<"first", p, psem["cs"]>> : p \in {q \in Producers : ppc[q] \in Taken}}
           \cup {<<"second", p, rsem["cs"]>> : p \in {q \in Producers : rpc[q] \in Taken}}
           \cup {<<"consumer", c, csem["cs"]>> : c \in {d \in Consumers : cpc[d] \in Taken}}

Uses(nm) == {names[nm], psem[nm], rsem[nm], csem[nm]}

\* The semaphores: each cs has one token, or one child has taken it.
OneHolder ==
    /\ objs \in Seq([value : Nat])
    /\ \A nm \in Names : Uses(nm) \subseteq 0 .. Len(objs)
    /\ \A x, y \in Names : x # y => Uses(x) \cap Uses(y) \subseteq {0}
    /\ \A o \in Uses("cs") \ {0} : objs[o].value <= 1
    /\ \A s \in Holders : s[3] # 0 =>
           objs[s[3]].value = 0 /\ \A t \in Holders : t[3] = s[3] => t = s

\* A program has its semaphores when it forks its children.
Begun(children, main, pc, sem) ==
    /\ main \in {"idle", "setup", "connect"} => \A c \in children : pc[c] = "none"
    /\ \A c \in children : pc[c] # "none" => \A nm \in Names : sem[nm] # 0

Shapes ==
    /\ names \in [Names -> Nat] /\ psem \in [Names -> Nat] /\ rsem \in [Names -> Nat]
    /\ csem \in [Names -> Nat]
    /\ ppc = [p \in Producers |-> ppc[p]] /\ rpc = [p \in Producers |-> rpc[p]]
    /\ cpc = [c \in Consumers |-> cpc[c]]
    /\ pstep \in 1 .. 9 /\ rstep \in 1 .. 9 /\ cstep \in 1 .. 3

InSetup(main, step, sem) == main = "setup" =>
    /\ step <= 8
    /\ step > 6 => sem["filled"] # 0
    /\ step > 7 => sem["empty"] # 0

Forking ==
    /\ Begun(Producers, pmain, ppc, psem) /\ Begun(Producers, rmain, rpc, rsem)
    /\ Begun(Consumers, cmain, cpc, csem)
    /\ InSetup(pmain, pstep, psem) /\ InSetup(rmain, rstep, rsem)
    /\ cmain = "connect" /\ cstep > 1 => csem["filled"] # 0
    /\ cmain = "connect" /\ cstep > 2 => csem["empty"] # 0

Joint == Shapes /\ OneHolder /\ Forking

\* Until somebody starts the second one, there is FileBuffer; where somebody
\* may, each program is launched once.
FirstOnly == rruns = 0 => IInv /\ rmain = "idle" /\ \A p \in Producers : rpc[p] = "none"

Once == plan.rivals # 0 => /\ plan.runs = 1 /\ pruns \in Nat
                           /\ pruns = 0 => pmain = "idle"
                           /\ rruns = 0 => rmain = "idle"
                           /\ Joint

RInv == /\ plan \in Plans /\ plan.rivals \in Nat /\ rruns \in 0 .. plan.rivals
        /\ FirstOnly /\ Once

-----------------------------------------------------------------------------
\* What a child has taken is a semaphore in use.
LEMMA HoldersUse ==
    ASSUME NEW s \in Holders
    PROVE  s[3] \in Uses("cs")
BY DEF Holders, Uses

\* Steps that touch no semaphore and make nobody a holder.
LEMMA HolderKeeps ==
    ASSUME OneHolder, UNCHANGED objs, NEW H, H = Holders', H \subseteq Holders,
           \A nm \in Names : Uses(nm)' \subseteq Uses(nm) \cup {0}
    PROVE  OneHolder'
<1>1. Len(objs) \in Nat /\ "cs" \in Names
  BY DEF OneHolder, Names
<1>2. \A nm \in Names : Uses(nm)' \subseteq 0 .. Len(objs')
  BY <1>1 DEF OneHolder
<1>3. \A x, y \in Names : x # y => Uses(x)' \cap Uses(y)' \subseteq {0}
  BY DEF OneHolder
<1>4. \A o \in Uses("cs")' \ {0} : objs'[o].value <= 1
  BY <1>1 DEF OneHolder
<1>5. \A s \in H : s[3] # 0 =>
           objs'[s[3]].value = 0 /\ \A t \in H : t[3] = s[3] => t = s
  BY DEF OneHolder
<1> QED BY <1>2, <1>3, <1>4, <1>5 DEF OneHolder

\* A call on one semaphore, by its new value.
LEMMA HolderCall ==
    ASSUME OneHolder, NEW o \in 1 .. Len(objs), NEW d, Changes(o, d),
           NEW H, H = Holders', \A nm \in Names : Uses(nm)' = Uses(nm),
           o \in Uses("cs") => objs'[o].value <= 1,
           \A s \in H : s[3] # 0 =>
               objs'[s[3]].value = 0 /\ \A t \in H : t[3] = s[3] => t = s
    PROVE  OneHolder'
<1>1. "cs" \in Names
  BY DEF Names
<1>2. \A x \in Uses("cs") \ {0} : objs'[x].value <= 1
  <2> TAKE x \in Uses("cs") \ {0}
  <2>1. x \in 1 .. Len(objs)
    BY <1>1 DEF OneHolder
  <2> QED BY <2>1 DEF OneHolder, Changes
<1> QED BY <1>1, <1>2 DEF OneHolder, Changes

\* On filled or empty.
LEMMA HolderOther ==
    ASSUME OneHolder, NEW nm \in Names \ {"cs"}, NEW o, o \in Uses(nm) \ {0},
           SemWait(o) \/ SemPost(o),
           NEW H, H = Holders', H \subseteq Holders,
           \A x \in Names : Uses(x)' = Uses(x)
    PROVE  OneHolder'
<1>1. o \in 1 .. Len(objs) /\ o \notin Uses("cs")
  BY DEF OneHolder, Names
<1>2. Changes(o, -1) \/ Changes(o, 1)
  BY <1>1, SemWaitEffect, SemPostEffect DEF OneHolder
<1>3. \A s \in H : s[3] # 0 => objs'[s[3]] = objs[s[3]]
  <2> TAKE s \in H
  <2>1. s[3] \in Uses("cs")
    BY HoldersUse
  <2>2. s[3] # o /\ (s[3] # 0 => s[3] \in 1 .. Len(objs))
    BY <1>1, <2>1 DEF OneHolder, Names
  <2> QED BY <1>2, <2>2 DEF Changes
<1>4. \A s \in H : s[3] # 0 =>
           objs'[s[3]].value = 0 /\ \A t \in H : t[3] = s[3] => t = s
  BY <1>3 DEF OneHolder
<1> QED BY <1>1, <1>2, <1>4, HolderCall

\* A wait for cs: the only token goes to t.
LEMMA HolderWaits ==
    ASSUME OneHolder, NEW t, t[3] \in Uses("cs") \ {0}, SemWait(t[3]),
           NEW H, H = Holders', H \subseteq Holders \cup {t},
           \A x \in Names : Uses(x)' = Uses(x)
    PROVE  OneHolder'
<1> DEFINE o == t[3]
<1>1. o \in 1 .. Len(objs) /\ objs \in Seq([value : Nat])
  BY DEF OneHolder, Names
<1>2. Changes(o, -1) /\ objs[o].value > 0
  BY <1>1, SemWaitEffect
<1>3. objs[o] \in [value : Nat]
  BY <1>1, ElementOfSeq
<1>4. objs[o].value = 1 /\ objs'[o].value = 0
  <2>1. objs[o].value <= 1
    BY DEF OneHolder
  <2> QED BY <1>2, <1>3, <2>1 DEF Changes
<1>5. \A s \in Holders : s[3] # o
  BY <1>1, <1>4 DEF OneHolder
<1>6. ASSUME NEW s \in H, s[3] # 0
      PROVE  objs'[s[3]].value = 0 /\ \A u \in H : u[3] = s[3] => u = s
  <2>1. CASE s = t
    BY <1>4, <1>5, <2>1
  <2>2. CASE s # t
    <3>1. s \in Holders /\ s[3] # o
      BY <1>5, <2>2
    <3>2. s[3] \in 1 .. Len(objs)
      BY <1>6, <3>1, HoldersUse DEF OneHolder, Names
    <3>3. objs'[s[3]] = objs[s[3]]
      BY <1>2, <3>1, <3>2 DEF Changes
    <3> QED BY <1>6, <3>1, <3>3 DEF OneHolder
  <2> QED BY <2>1, <2>2
<1> HIDE DEF o
<1> QED BY <1>1, <1>2, <1>4, <1>6, HolderCall

\* A post of cs, by t that had it.
LEMMA HolderPosts ==
    ASSUME OneHolder, NEW t \in Holders, t[3] # 0, SemPost(t[3]),
           NEW H, H = Holders', H \subseteq Holders \ {t},
           \A x \in Names : Uses(x)' = Uses(x)
    PROVE  OneHolder'
<1> DEFINE o == t[3]
<1>1. o \in 1 .. Len(objs) /\ objs \in Seq([value : Nat])
  BY HoldersUse DEF OneHolder, Names
<1>2. Changes(o, 1) /\ objs'[o].value = 1
  <2>1. Changes(o, 1)
    BY <1>1, SemPostEffect
  <2>2. objs[o].value = 0
    BY DEF OneHolder
  <2> QED BY <2>1, <2>2 DEF Changes
<1>3. ASSUME NEW s \in H, s[3] # 0
      PROVE  objs'[s[3]].value = 0 /\ \A u \in H : u[3] = s[3] => u = s
  <2>1. s \in Holders /\ s[3] # o
    BY DEF OneHolder
  <2>2. s[3] \in 1 .. Len(objs)
    BY <1>3, <2>1, HoldersUse DEF OneHolder, Names
  <2>3. objs'[s[3]] = objs[s[3]]
    BY <1>2, <2>1, <2>2 DEF Changes
  <2> QED BY <1>3, <2>1, <2>3 DEF OneHolder
<1> HIDE DEF o
<1> QED BY <1>1, <1>2, <1>3, HolderCall

\* A new semaphore has not been taken.
LEMMA HolderCreates ==
    ASSUME OneHolder, NEW nm \in Names, NEW v \in [value : Nat], nm = "cs" => v.value = 1,
           objs' = Append(objs, v), NEW H, H = Holders', H \subseteq Holders,
           Uses(nm)' \subseteq Uses(nm) \cup {Len(objs) + 1},
           \A x \in Names \ {nm} : Uses(x)' = Uses(x)
    PROVE  OneHolder'
<1> DEFINE new == Len(objs) + 1
<1>1. /\ objs' \in Seq([value : Nat]) /\ Len(objs') = new /\ objs'[new] = v
      /\ \A x \in 1 .. Len(objs) : objs'[x] = objs[x]
      /\ Len(objs) \in Nat /\ new \in Nat /\ new \notin 0 .. Len(objs) /\ "cs" \in Names
  BY DEF OneHolder, Names
<1>2. \A x \in Names : Uses(x) \subseteq 0 .. Len(objs) /\ Uses(x) \subseteq 0 .. new
  BY <1>1 DEF OneHolder
<1>3. \A x \in Names : Uses(x)' \subseteq 0 .. new
  BY <1>1, <1>2
<1>4. \A x, y \in Names : x # y => Uses(x)' \cap Uses(y)' \subseteq {0}
  BY <1>1, <1>2 DEF OneHolder
<1>5. ASSUME NEW o \in Uses("cs")' \ {0} PROVE objs'[o].value <= 1
  <2>1. CASE o = new
    <3>1. nm = "cs"
      BY <1>1, <1>2, <2>1
    <3> QED BY <1>1, <2>1, <3>1
  <2>2. CASE o # new
    BY <1>1, <1>2, <2>2 DEF OneHolder
  <2> QED BY <2>1, <2>2
<1>6. ASSUME NEW s \in H, s[3] # 0
      PROVE  objs'[s[3]].value = 0 /\ \A u \in H : u[3] = s[3] => u = s
  <2>1. s \in Holders /\ s[3] \in 1 .. Len(objs)
    BY <1>1, <1>2, <1>6, HoldersUse
  <2> QED BY <1>1, <1>6, <2>1 DEF OneHolder
<1> QED BY <1>1, <1>3, <1>4, <1>5, <1>6 DEF OneHolder

-----------------------------------------------------------------------------
\* A child of one of the programs moves.
LEMMA FirstMoves ==
    ASSUME Shapes, NEW p \in Producers, NEW to, ppc' = [ppc EXCEPT ![p] = to],
           UNCHANGED <<psem, rpc, rsem, cpc, csem>>
    PROVE  LET t == <<"first", p, psem["cs"]>> IN
           /\ Holders' \subseteq Holders \cup {t}
           /\ ppc[p] \in Taken => t \in Holders /\ Holders' \subseteq Holders
           /\ to \notin Taken => Holders' \subseteq Holders \ {t}
<1>1. \A q \in Producers : ppc'[q] = IF q = p THEN to ELSE ppc[q]
  BY DEF Shapes
<1> QED BY <1>1 DEF Holders

LEMMA SecondMoves ==
    ASSUME Shapes, NEW p \in Producers, NEW to, rpc' = [rpc EXCEPT ![p] = to],
           UNCHANGED <<psem, ppc, rsem, cpc, csem>>
    PROVE  LET t == <<"second", p, rsem["cs"]>> IN
           /\ Holders' \subseteq Holders \cup {t}
           /\ rpc[p] \in Taken => t \in Holders /\ Holders' \subseteq Holders
           /\ to \notin Taken => Holders' \subseteq Holders \ {t}
<1>1. \A q \in Producers : rpc'[q] = IF q = p THEN to ELSE rpc[q]
  BY DEF Shapes
<1> QED BY <1>1 DEF Holders

LEMMA ConsumerMoves ==
    ASSUME Shapes, NEW c \in Consumers, NEW to, cpc' = [cpc EXCEPT ![c] = to],
           UNCHANGED <<psem, ppc, rsem, rpc, csem>>
    PROVE  LET t == <<"consumer", c, csem["cs"]>> IN
           /\ Holders' \subseteq Holders \cup {t}
           /\ cpc[c] \in Taken => t \in Holders /\ Holders' \subseteq Holders
           /\ to \notin Taken => Holders' \subseteq Holders \ {t}
<1>1. \A d \in Consumers : cpc'[d] = IF d = c THEN to ELSE cpc[d]
  BY DEF Shapes
<1> QED BY <1>1 DEF Holders

\* What a step of a child leaves to show.
ProgramsStay == UNCHANGED <<names, pmain, pstep, psem, rmain, rstep, rsem, cmain, cstep, csem>>

LEMMA ChildJoint ==
    ASSUME Joint, ProgramsStay, OneHolder',
           \/ \E p \in Producers : \E to : /\ ppc[p] # "none" /\ ppc' = [ppc EXCEPT ![p] = to]
                                           /\ UNCHANGED <<rpc, cpc>>
           \/ \E p \in Producers : \E to : /\ rpc[p] # "none" /\ rpc' = [rpc EXCEPT ![p] = to]
                                           /\ UNCHANGED <<ppc, cpc>>
           \/ \E c \in Consumers : \E to : /\ cpc[c] # "none" /\ cpc' = [cpc EXCEPT ![c] = to]
                                           /\ UNCHANGED <<ppc, rpc>>
    PROVE  Joint'
<1>1. Shapes'
  BY DEF Joint, Shapes, ProgramsStay
<1>2. /\ Begun(Producers, pmain, ppc, psem)' /\ Begun(Producers, rmain, rpc, rsem)'
      /\ Begun(Consumers, cmain, cpc, csem)'
  BY DEF Joint, Forking, Begun, Shapes, ProgramsStay
<1>3. Forking'
  BY <1>2 DEF Joint, Forking, InSetup, ProgramsStay
<1> QED BY <1>1, <1>3 DEF Joint

LEMMA FirstJoint ==
    ASSUME Joint, NEW p \in Producers, Producer(p), UNCHANGED rvars
    PROVE  Joint'
<1> DEFINE t == <<"first", p, psem["cs"]>>
           H == Holders'
<1>0. Shapes /\ OneHolder /\ UNCHANGED <<rmain, rstep, rsem, rpc>>
  BY DEF Joint, rvars
<1>1. PICK from, to : /\ PMove(p, from, to) /\ from # "none"
                      /\ \/ /\ <<from, to>> = <<"wait_empty", "wait_cs">> /\ SemWait(psem["empty"])
                         \/ <<from, to>> = <<"wait_cs", "load">> /\ SemWait(psem["cs"])
                         \/ <<from, to>> = <<"post_cs", "post_filled">> /\ SemPost(psem["cs"])
                         \/ /\ from = "post_filled" /\ to \in {"wait_empty", "exit"}
                            /\ SemPost(psem["filled"])
                         \/ from \in Taken /\ UNCHANGED objs
  <2>1. CASE PSem(p)
    BY <2>1 DEF PSem
  <2>2. CASE WriteToBufferFile(p) /\ UNCHANGED objs
    BY <2>2 DEF WriteToBufferFile, Taken
  <2> QED BY <2>1, <2>2 DEF Producer
<1>2. /\ ppc[p] = from /\ ppc' = [ppc EXCEPT ![p] = to] /\ ProgramsStay /\ UNCHANGED <<rpc, cpc>>
      /\ \A nm \in Names : Uses(nm)' = Uses(nm)
  BY <1>0, <1>1 DEF PMove, ProgramsStay, cvars, Uses
<1>3. \A nm \in Names : psem[nm] \in Uses(nm) \ {0}
  BY <1>1, <1>2 DEF Joint, Forking, Begun, Uses
<1>4. /\ H \subseteq Holders \cup {t}
      /\ from \in Taken => t \in Holders /\ H \subseteq Holders
      /\ to \notin Taken => H \subseteq Holders \ {t}
  BY <1>0, <1>2, FirstMoves DEF ProgramsStay
<1>5. "cs" \in Names /\ "empty" \in Names \ {"cs"} /\ "filled" \in Names \ {"cs"} /\ t[3] = psem["cs"]
  BY DEF Names
<1>6. OneHolder'
  <2> HIDE DEF H
  <2>1. H = Holders'
    BY DEF H
  <2>2. CASE <<from, to>> = <<"wait_empty", "wait_cs">> /\ SemWait(psem["empty"])
    BY <1>0, <1>2, <1>3, <1>4, <1>5, <2>1, <2>2, HolderOther DEF Taken
  <2>3. CASE <<from, to>> = <<"wait_cs", "load">> /\ SemWait(psem["cs"])
    BY <1>0, <1>2, <1>3, <1>4, <1>5, <2>1, <2>3, HolderWaits
  <2>4. CASE <<from, to>> = <<"post_cs", "post_filled">> /\ SemPost(psem["cs"])
    BY <1>0, <1>2, <1>3, <1>4, <1>5, <2>1, <2>4, HolderPosts DEF Taken
  <2>5. CASE from = "post_filled" /\ to \in {"wait_empty", "exit"} /\ SemPost(psem["filled"])
    BY <1>0, <1>2, <1>3, <1>4, <1>5, <2>1, <2>5, HolderOther DEF Taken
  <2>6. CASE from \in Taken /\ UNCHANGED objs
    BY <1>0, <1>2, <1>4, <2>1, <2>6, HolderKeeps
  <2> QED BY <1>1, <2>2, <2>3, <2>4, <2>5, <2>6
<1> QED BY <1>1, <1>2, <1>6, ChildJoint

LEMMA SameCalls ==
    ASSUME NEW op, NEW x
    PROVE  /\ R!Succeeds(op) = Succeeds(op) /\ R!HandleOf(op) = HandleOf(op)
           /\ R!Perform(op, x) <=> Perform(op, x)
BY Zenon DEF Succeeds, R!Succeeds, Perform, R!Perform, HandleOf, R!HandleOf

LEMMA SameConstants == R!Setup = Setup /\ R!Producers = Producers
BY DEF Setup, R!Setup, Producers, R!Producers

LEMMA SameSemaphores ==
    ASSUME NEW o
    PROVE  (R!SemWait(o) <=> SemWait(o)) /\ (R!SemPost(o) <=> SemPost(o))
BY Zenon DEF SemWait, R!SemWait, SemPost, R!SemPost

LEMMA SecondJoint ==
    ASSUME Joint, NEW p \in Producers, R!Producer(p), UNCHANGED pvars
    PROVE  Joint'
<1> DEFINE t == <<"second", p, rsem["cs"]>>
           H == Holders'
<1>0. Shapes /\ OneHolder /\ UNCHANGED <<pmain, pstep, psem, ppc>>
  BY DEF Joint, pvars
<1>1. PICK from, to : /\ R!PMove(p, from, to) /\ from # "none"
                      /\ \/ /\ <<from, to>> = <<"wait_empty", "wait_cs">> /\ SemWait(rsem["empty"])
                         \/ <<from, to>> = <<"wait_cs", "load">> /\ SemWait(rsem["cs"])
                         \/ <<from, to>> = <<"post_cs", "post_filled">> /\ SemPost(rsem["cs"])
                         \/ /\ from = "post_filled" /\ to \in {"wait_empty", "exit"}
                            /\ SemPost(rsem["filled"])
                         \/ from \in Taken /\ UNCHANGED objs
  <2>1. CASE R!PSem(p)
    BY <2>1, SameSemaphores DEF R!PSem
  <2>2. CASE R!WriteToBufferFile(p) /\ UNCHANGED objs
    BY <2>2 DEF R!WriteToBufferFile, Taken
  <2> QED BY <2>1, <2>2 DEF R!Producer
<1>2. /\ rpc[p] = from /\ rpc' = [rpc EXCEPT ![p] = to] /\ ProgramsStay /\ UNCHANGED <<ppc, cpc>>
      /\ \A nm \in Names : Uses(nm)' = Uses(nm)
  BY <1>0, <1>1 DEF R!PMove, ProgramsStay, R!cvars, Uses
<1>3. \A nm \in Names : rsem[nm] \in Uses(nm) \ {0}
  BY <1>1, <1>2 DEF Joint, Forking, Begun, Uses
<1>4. /\ H \subseteq Holders \cup {t}
      /\ from \in Taken => t \in Holders /\ H \subseteq Holders
      /\ to \notin Taken => H \subseteq Holders \ {t}
  BY <1>0, <1>2, SecondMoves DEF ProgramsStay
<1>5. "cs" \in Names /\ "empty" \in Names \ {"cs"} /\ "filled" \in Names \ {"cs"} /\ t[3] = rsem["cs"]
  BY DEF Names
<1>6. OneHolder'
  <2> HIDE DEF H
  <2>1. H = Holders'
    BY DEF H
  <2>2. CASE <<from, to>> = <<"wait_empty", "wait_cs">> /\ SemWait(rsem["empty"])
    BY <1>0, <1>2, <1>3, <1>4, <1>5, <2>1, <2>2, HolderOther DEF Taken
  <2>3. CASE <<from, to>> = <<"wait_cs", "load">> /\ SemWait(rsem["cs"])
    BY <1>0, <1>2, <1>3, <1>4, <1>5, <2>1, <2>3, HolderWaits
  <2>4. CASE <<from, to>> = <<"post_cs", "post_filled">> /\ SemPost(rsem["cs"])
    BY <1>0, <1>2, <1>3, <1>4, <1>5, <2>1, <2>4, HolderPosts DEF Taken
  <2>5. CASE from = "post_filled" /\ to \in {"wait_empty", "exit"} /\ SemPost(rsem["filled"])
    BY <1>0, <1>2, <1>3, <1>4, <1>5, <2>1, <2>5, HolderOther DEF Taken
  <2>6. CASE from \in Taken /\ UNCHANGED objs
    BY <1>0, <1>2, <1>4, <2>1, <2>6, HolderKeeps
  <2> QED BY <1>1, <2>2, <2>3, <2>4, <2>5, <2>6
<1> QED BY <1>1, <1>2, <1>6, ChildJoint

LEMMA ConsumerJoint ==
    ASSUME Joint, NEW c \in Consumers, Consumer(c), UNCHANGED rvars
    PROVE  Joint'
<1> DEFINE t == <<"consumer", c, csem["cs"]>>
           H == Holders'
<1>0. Shapes /\ OneHolder /\ UNCHANGED <<rmain, rstep, rsem, rpc>>
  BY DEF Joint, rvars
<1>1. PICK from, to : /\ CMove(c, from, to) /\ from # "none"
                      /\ \/ /\ <<from, to>> = <<"wait_filled", "wait_cs">> /\ SemWait(csem["filled"])
                         \/ <<from, to>> = <<"wait_cs", "load">> /\ SemWait(csem["cs"])
                         \/ <<from, to>> = <<"post_cs", "post_empty">> /\ SemPost(csem["cs"])
                         \/ /\ from = "post_empty" /\ to \in {"wait_filled", "exit"}
                            /\ SemPost(csem["empty"])
                         \/ from \in Taken /\ UNCHANGED objs
  <2>1. CASE CSem(c)
    BY <2>1 DEF CSem
  <2>2. CASE ReadFromBufferFile(c) /\ UNCHANGED objs
    BY <2>2 DEF ReadFromBufferFile, Taken
  <2> QED BY <2>1, <2>2 DEF Consumer
<1>2. /\ cpc[c] = from /\ cpc' = [cpc EXCEPT ![c] = to] /\ ProgramsStay /\ UNCHANGED <<ppc, rpc>>
      /\ \A nm \in Names : Uses(nm)' = Uses(nm)
  BY <1>0, <1>1 DEF CMove, ProgramsStay, pvars, Uses
<1>3. \A nm \in Names : csem[nm] \in Uses(nm) \ {0}
  BY <1>1, <1>2 DEF Joint, Forking, Begun, Uses
<1>4. /\ H \subseteq Holders \cup {t}
      /\ from \in Taken => t \in Holders /\ H \subseteq Holders
      /\ to \notin Taken => H \subseteq Holders \ {t}
  BY <1>0, <1>2, ConsumerMoves DEF ProgramsStay
<1>5. "cs" \in Names /\ "empty" \in Names \ {"cs"} /\ "filled" \in Names \ {"cs"} /\ t[3] = csem["cs"]
  BY DEF Names
<1>6. OneHolder'
  <2> HIDE DEF H
  <2>1. H = Holders'
    BY DEF H
  <2>2. CASE <<from, to>> = <<"wait_filled", "wait_cs">> /\ SemWait(csem["filled"])
    BY <1>0, <1>2, <1>3, <1>4, <1>5, <2>1, <2>2, HolderOther DEF Taken
  <2>3. CASE <<from, to>> = <<"wait_cs", "load">> /\ SemWait(csem["cs"])
    BY <1>0, <1>2, <1>3, <1>4, <1>5, <2>1, <2>3, HolderWaits
  <2>4. CASE <<from, to>> = <<"post_cs", "post_empty">> /\ SemPost(csem["cs"])
    BY <1>0, <1>2, <1>3, <1>4, <1>5, <2>1, <2>4, HolderPosts DEF Taken
  <2>5. CASE from = "post_empty" /\ to \in {"wait_filled", "exit"} /\ SemPost(csem["empty"])
    BY <1>0, <1>2, <1>3, <1>4, <1>5, <2>1, <2>5, HolderOther DEF Taken
  <2>6. CASE from \in Taken /\ UNCHANGED objs
    BY <1>0, <1>2, <1>4, <2>1, <2>6, HolderKeeps
  <2> QED BY <1>1, <2>2, <2>3, <2>4, <2>5, <2>6
<1> QED BY <1>1, <1>2, <1>6, ChildJoint

-----------------------------------------------------------------------------
\* A step of a set-up replaces a semaphore, or none.
LEMMA FirstSetsUp ==
    ASSUME Joint, SetupStep, UNCHANGED rvars
    PROVE  Joint'
<1> DEFINE op == Setup[pstep]
           H == Holders'
           Done == /\ names' \in [Names -> Nat] /\ psem' \in [Names -> Nat] /\ OneHolder'
                   /\ \/ UNCHANGED psem /\ pstep < 6
                      \/ /\ pstep \in 6 .. 8
                         /\ \E nm \in Names : /\ nm = (CASE pstep = 6 -> "filled" [] pstep = 7 -> "empty" [] pstep = 8 -> "cs")
                                              /\ psem'[nm] # 0 /\ \A x \in Names \ {nm} : psem'[x] = psem[x]
<1> USE DEF Names
<1>1. /\ Shapes /\ OneHolder /\ Forking /\ UNCHANGED <<rmain, rstep, rsem, rpc>>
      /\ UNCHANGED <<cmain, cstep, csem, cpc>>
      /\ pmain = "setup" /\ pstep \in 1 .. 8 /\ pstep' = pstep + 1
      /\ pmain' = (IF pstep = 8 THEN "run" ELSE "setup")
      /\ \A p \in Producers : ppc[p] = "none"
  BY DEF Joint, Shapes, Forking, Begun, InSetup, SetupStep, Setup, rvars, cvars
<1>2. /\ ppc' = [p \in Producers |-> ppc'[p]]
      /\ \A p \in Producers : ppc'[p] \notin Taken /\ (ppc'[p] # "none" => pstep = 8)
  BY <1>1 DEF SetupStep, Setup, Shapes, Forked, Taken
<1>3. H \subseteq Holders
  BY <1>1, <1>2 DEF Holders
<1>4. Done
  <2> HIDE DEF H
  <2>1. CASE pstep \in {1, 2}
    <3>1. UNCHANGED <<names, objs, psem>>
      BY <1>1, <2>1, SetupCalls DEF SetupStep, InitFile, InitSemaphore
    <3>2. \A nm \in Names : Uses(nm)' = Uses(nm)
      BY <1>1, <3>1 DEF Uses
    <3> QED BY <1>1, <1>3, <2>1, <3>1, <3>2, HolderKeeps DEF H, Shapes
  <2>2. ASSUME NEW nm \in Names, op = <<"unlink", nm>> PROVE Done
    <3>1. names' = [names EXCEPT ![nm] = 0] /\ UNCHANGED <<objs, psem>> /\ pstep < 6
      BY <1>1, <2>2, SetupCalls DEF SetupStep, InitFile, InitSemaphore, Perform
    <3>2. \A x \in Names : Uses(x)' \subseteq Uses(x) \cup {0}
      BY <1>1, <3>1 DEF Uses, Shapes
    <3> QED BY <1>1, <1>3, <3>1, <3>2, HolderKeeps DEF H, Shapes
  <2>3. ASSUME NEW nm \in Names, op = <<"create", nm>>,
               nm = (CASE pstep = 6 -> "filled" [] pstep = 7 -> "empty" [] pstep = 8 -> "cs"),
               pstep \in 6 .. 8
        PROVE  Done
    <3> DEFINE new == Len(objs) + 1
    <3>1. /\ names' = [names EXCEPT ![nm] = new] /\ psem' = [psem EXCEPT ![nm] = new]
          /\ objs' = Append(objs, Fresh[nm])
      BY <2>3 DEF SetupStep, InitFile, InitSemaphore, Perform, HandleOf
    <3>2. new \in Nat /\ new # 0 /\ Fresh[nm] \in [value : Nat] /\ (nm = "cs" => Fresh[nm].value = 1)
      BY <1>1, FileAssumption DEF Fresh, Semaphore, OneHolder
    <3>3. /\ names' \in [Names -> Nat] /\ psem' \in [Names -> Nat] /\ psem'[nm] = new
          /\ \A x \in Names \ {nm} : psem'[x] = psem[x] /\ names'[x] = names[x]
          /\ names'[nm] = new
      BY <1>1, <3>1, <3>2 DEF Shapes
    <3>4. Uses(nm)' \subseteq Uses(nm) \cup {new} /\ \A x \in Names \ {nm} : Uses(x)' = Uses(x)
      BY <1>1, <3>3 DEF Uses
    <3>5. OneHolder'
      BY <1>1, <1>3, <3>1, <3>2, <3>4, HolderCreates DEF H
    <3> QED BY <2>3, <3>2, <3>3, <3>5
  <2>4. \/ pstep \in {1, 2} \/ \E nm \in Names : op = <<"unlink", nm>>
        \/ pstep = 6 /\ op = <<"create", "filled">>
        \/ pstep = 7 /\ op = <<"create", "empty">>
        \/ pstep = 8 /\ op = <<"create", "cs">>
    BY <1>1 DEF Setup
  <2> QED BY <2>1, <2>2, <2>3, <2>4
<1>5. Shapes'
  BY <1>1, <1>2, <1>4 DEF Shapes
<1>6. \A p \in Producers : ppc'[p] # "none" => \A nm \in Names : psem'[nm] # 0
  BY <1>1, <1>2, <1>4 DEF Forking, InSetup
<1>7. InSetup(pmain, pstep, psem)'
  BY <1>1, <1>4 DEF Forking, InSetup
<1>8. /\ Begun(Producers, rmain, rpc, rsem)' /\ Begun(Consumers, cmain, cpc, csem)'
      /\ InSetup(rmain, rstep, rsem)' /\ (cmain = "connect" /\ cstep > 1 => csem["filled"] # 0)'
      /\ (cmain = "connect" /\ cstep > 2 => csem["empty"] # 0)'
  BY <1>1 DEF Forking, Begun, InSetup
<1>9. Begun(Producers, pmain, ppc, psem)'
  BY <1>1, <1>2, <1>6 DEF Begun
<1> QED BY <1>4, <1>5, <1>7, <1>8, <1>9 DEF Joint, Forking

LEMMA SecondSetsUp ==
    ASSUME Joint, R!SetupStep, UNCHANGED pvars
    PROVE  Joint'
<1> DEFINE op == Setup[rstep]
           H == Holders'
           Done == /\ names' \in [Names -> Nat] /\ rsem' \in [Names -> Nat] /\ OneHolder'
                   /\ \/ UNCHANGED rsem /\ rstep < 6
                      \/ /\ rstep \in 6 .. 8
                         /\ \E nm \in Names : /\ nm = (CASE rstep = 6 -> "filled" [] rstep = 7 -> "empty" [] rstep = 8 -> "cs")
                                              /\ rsem'[nm] # 0 /\ \A x \in Names \ {nm} : rsem'[x] = rsem[x]
<1> USE DEF Names
<1>1. /\ Shapes /\ OneHolder /\ Forking /\ UNCHANGED <<pmain, pstep, psem, ppc>>
      /\ UNCHANGED <<cmain, cstep, csem, cpc>>
      /\ rmain = "setup" /\ rstep \in 1 .. 8 /\ rstep' = rstep + 1
      /\ rmain' = (IF rstep = 8 THEN "run" ELSE "setup")
      /\ \A p \in Producers : rpc[p] = "none"
  BY DEF Joint, Shapes, Forking, Begun, InSetup, R!SetupStep, R!Setup, pvars, R!cvars
<1>2. /\ rpc' = [p \in Producers |-> rpc'[p]]
      /\ \A p \in Producers : rpc'[p] \notin Taken /\ (rpc'[p] # "none" => rstep = 8)
  BY <1>1, SameConstants DEF R!SetupStep, Setup, Shapes, R!Forked, Taken
<1>3. H \subseteq Holders
  BY <1>1, <1>2 DEF Holders
<1>4. Done
  <2> HIDE DEF H
  <2>1. CASE rstep \in {1, 2}
    <3>1. UNCHANGED <<names, objs, rsem>>
      BY <1>1, <2>1, SetupCalls, SameConstants DEF R!SetupStep, R!InitFile, R!InitSemaphore
    <3>2. \A nm \in Names : Uses(nm)' = Uses(nm)
      BY <1>1, <3>1 DEF Uses
    <3> QED BY <1>1, <1>3, <2>1, <3>1, <3>2, HolderKeeps DEF H, Shapes
  <2>2. ASSUME NEW nm \in Names, op = <<"unlink", nm>> PROVE Done
    <3>1. names' = [names EXCEPT ![nm] = 0] /\ UNCHANGED <<objs, rsem>> /\ rstep < 6
      BY <1>1, <2>2, SetupCalls, SameConstants DEF R!SetupStep, R!InitFile, R!InitSemaphore, R!Perform
    <3>2. \A x \in Names : Uses(x)' \subseteq Uses(x) \cup {0}
      BY <1>1, <3>1 DEF Uses, Shapes
    <3> QED BY <1>1, <1>3, <3>1, <3>2, HolderKeeps DEF H, Shapes
  <2>3. ASSUME NEW nm \in Names, op = <<"create", nm>>,
               nm = (CASE rstep = 6 -> "filled" [] rstep = 7 -> "empty" [] rstep = 8 -> "cs"),
               rstep \in 6 .. 8
        PROVE  Done
    <3> DEFINE new == Len(objs) + 1
    <3>1. /\ names' = [names EXCEPT ![nm] = new] /\ rsem' = [rsem EXCEPT ![nm] = new]
          /\ objs' = Append(objs, R!Fresh[nm])
      BY <2>3, SameConstants DEF R!SetupStep, R!InitFile, R!InitSemaphore, R!Perform, R!HandleOf
    <3>2. new \in Nat /\ new # 0 /\ R!Fresh[nm] \in [value : Nat] /\ (nm = "cs" => R!Fresh[nm].value = 1)
      BY <1>1, FileAssumption DEF R!Fresh, R!Semaphore, OneHolder
    <3>3. /\ names' \in [Names -> Nat] /\ rsem' \in [Names -> Nat] /\ rsem'[nm] = new
          /\ \A x \in Names \ {nm} : rsem'[x] = rsem[x] /\ names'[x] = names[x]
          /\ names'[nm] = new
      BY <1>1, <3>1, <3>2 DEF Shapes
    <3>4. Uses(nm)' \subseteq Uses(nm) \cup {new} /\ \A x \in Names \ {nm} : Uses(x)' = Uses(x)
      BY <1>1, <3>3 DEF Uses
    <3>5. OneHolder'
      BY <1>1, <1>3, <3>1, <3>2, <3>4, HolderCreates DEF H
    <3> QED BY <2>3, <3>2, <3>3, <3>5
  <2>4. \/ rstep \in {1, 2} \/ \E nm \in Names : op = <<"unlink", nm>>
        \/ rstep = 6 /\ op = <<"create", "filled">>
        \/ rstep = 7 /\ op = <<"create", "empty">>
        \/ rstep = 8 /\ op = <<"create", "cs">>
    BY <1>1 DEF Setup
  <2> QED BY <2>1, <2>2, <2>3, <2>4
<1>5. Shapes'
  BY <1>1, <1>2, <1>4 DEF Shapes
<1>6. \A p \in Producers : rpc'[p] # "none" => \A nm \in Names : rsem'[nm] # 0
  BY <1>1, <1>2, <1>4 DEF Forking, InSetup
<1>7. InSetup(rmain, rstep, rsem)'
  BY <1>1, <1>4 DEF Forking, InSetup
<1>8. /\ Begun(Producers, pmain, ppc, psem)' /\ Begun(Consumers, cmain, cpc, csem)'
      /\ InSetup(pmain, pstep, psem)' /\ (cmain = "connect" /\ cstep > 1 => csem["filled"] # 0)'
      /\ (cmain = "connect" /\ cstep > 2 => csem["empty"] # 0)'
  BY <1>1 DEF Forking, Begun, InSetup
<1>9. Begun(Producers, rmain, rpc, rsem)'
  BY <1>1, <1>2, <1>6 DEF Begun
<1> QED BY <1>4, <1>5, <1>7, <1>8, <1>9 DEF Joint, Forking


\* The consumer opens the semaphores that have the names now.
LEMMA ConsumerOpens ==
    ASSUME Joint, ConnectStep, UNCHANGED rvars
    PROVE  Joint'
<1> DEFINE op == Connect[cstep]
           H == Holders'
<1> USE DEF Names
<1>1. /\ Shapes /\ OneHolder /\ Forking /\ cmain = "connect" /\ cstep \in 1 .. 3
      /\ UNCHANGED <<names, objs, rmain, rstep, rsem, rpc, pmain, pstep, psem, ppc>>
      /\ \A c \in Consumers : cpc[c] = "none"
  BY DEF Joint, Shapes, Forking, Begun, ConnectStep, rvars, pvars
<1>2. \E nm \in Names :
          /\ cstep = 1 => nm = "filled"
          /\ cstep = 2 => nm = "empty"
          /\ cstep = 3 => nm = "cs"
          /\ names[nm] # 0 /\ csem' = [csem EXCEPT ![nm] = names[nm]]
  <2>1. op \in {<<"open", "filled">>, <<"open", "empty">>, <<"open", "cs">>}
        /\ op[1] = "open" /\ Succeeds(op) /\ csem' = [csem EXCEPT ![op[2]] = HandleOf(op)]
    BY <1>1 DEF ConnectStep, Connect
  <2>2. names[op[2]] # 0 /\ HandleOf(op) = names[op[2]]
    BY <2>1 DEF Succeeds, HandleOf
  <2>3. /\ cstep = 1 => op = <<"open", "filled">>
        /\ cstep = 2 => op = <<"open", "empty">>
        /\ cstep = 3 => op = <<"open", "cs">>
    BY DEF Connect
  <2> DEFINE nm == op[2]
  <2>4. /\ nm \in Names
        /\ cstep = 1 => nm = "filled"
        /\ cstep = 2 => nm = "empty"
        /\ cstep = 3 => nm = "cs"
    BY <2>1, <2>3
  <2> HIDE DEF op
  <2> QED BY <2>1, <2>2, <2>4
<1>3. /\ cpc' = [c \in Consumers |-> cpc'[c]]
      /\ \A c \in Consumers : cpc'[c] \notin Taken /\ (cpc'[c] # "none" => cstep = 3)
      /\ cmain' = (IF cstep = 3 THEN "run" ELSE "connect")
      /\ cstep' = (IF cstep = 3 THEN 1 ELSE cstep + 1)
  BY <1>1 DEF ConnectStep, Connect, Shapes, Forked, Taken
<1>4. H \subseteq Holders
  BY <1>1, <1>3 DEF Holders
<1>5. csem' \in [Names -> Nat] /\ \A nm \in Names : Uses(nm)' \subseteq Uses(nm)
  BY <1>1, <1>2 DEF Uses, Shapes
<1>6. OneHolder'
  <2> HIDE DEF H
  <2> QED BY <1>1, <1>4, <1>5, HolderKeeps DEF H
<1>7. Shapes'
  BY <1>1, <1>3, <1>5 DEF Shapes
<1>8. /\ cstep = 1 => csem'["filled"] # 0
      /\ cstep = 2 => csem'["filled"] # 0 /\ csem'["empty"] # 0
      /\ cstep = 3 => \A nm \in Names : csem'[nm] # 0
  BY <1>1, <1>2 DEF Forking, Shapes
<1>9. Begun(Consumers, cmain, cpc, csem)'
  BY <1>3, <1>8 DEF Begun
<1>10. (cmain = "connect" /\ cstep > 1 => csem["filled"] # 0)'
       /\ (cmain = "connect" /\ cstep > 2 => csem["empty"] # 0)'
  BY <1>1, <1>3, <1>8
<1> QED BY <1>1, <1>6, <1>7, <1>9, <1>10 DEF Joint, Forking, Begun, InSetup

\* The other steps of the main processes at most take a name away, and end
\* children.
LEMMA MainJoint ==
    ASSUME Joint, UNCHANGED <<objs, psem, rsem, csem>>,
           names' = names \/ \E nm \in Names : names' = [names EXCEPT ![nm] = 0],
           pstep' \in 1 .. 9, rstep' \in 1 .. 9, cstep' \in 1 .. 3,
           ppc' = ppc \/ ppc' = [p \in Producers |-> "none"],
           rpc' = rpc \/ rpc' = [p \in Producers |-> "none"],
           cpc' = cpc \/ cpc' = [c \in Consumers |-> "none"],
           \/ pmain' \notin {"idle", "setup", "connect"}
           \/ pmain' = pmain /\ pstep' = pstep
           \/ pmain' = "setup" /\ pmain = "idle" /\ pstep' = 1,
           \/ rmain' \notin {"idle", "setup", "connect"}
           \/ rmain' = rmain /\ rstep' = rstep
           \/ rmain' = "setup" /\ rmain = "idle" /\ rstep' = 1,
           \/ cmain' \notin {"idle", "setup", "connect"}
           \/ cmain' = cmain /\ cstep' = cstep
           \/ cmain' = "connect" /\ cstep' = 1 /\ cpc' = [c \in Consumers |-> "none"]
    PROVE  Joint'
<1> DEFINE H == Holders'
<1>1. Shapes /\ OneHolder /\ Forking
  BY DEF Joint
<1>2. H \subseteq Holders
  BY DEF Holders, Taken
<1>3. names' \in [Names -> Nat] /\ \A nm \in Names : Uses(nm)' \subseteq Uses(nm) \cup {0}
  BY <1>1 DEF Uses, Shapes
<1>4. OneHolder'
  <2> HIDE DEF H
  <2> QED BY <1>1, <1>2, <1>3, HolderKeeps DEF H
<1>5. Shapes'
  BY <1>1, <1>3 DEF Shapes
<1>6. Begun(Producers, pmain, ppc, psem)'
  BY <1>1 DEF Forking, Begun
<1>7. Begun(Producers, rmain, rpc, rsem)'
  BY <1>1 DEF Forking, Begun
<1>8. Begun(Consumers, cmain, cpc, csem)'
  BY <1>1 DEF Forking, Begun
<1>9. InSetup(pmain, pstep, psem)' /\ InSetup(rmain, rstep, rsem)'
  BY <1>1 DEF Forking, InSetup
<1>10. (cmain = "connect" /\ cstep > 1 => csem["filled"] # 0)'
       /\ (cmain = "connect" /\ cstep > 2 => csem["empty"] # 0)'
  BY <1>1 DEF Forking
<1> QED BY <1>4, <1>5, <1>6, <1>7, <1>8, <1>9, <1>10 DEF Joint, Forking

LEMMA StepsJoint ==
    ASSUME RInv, plan.rivals # 0, [RivalNext]_<<vars, rvars>>
    PROVE  Joint'
<1>1. Joint /\ pstep \in 1 .. 9 /\ rstep \in 1 .. 9 /\ cstep \in 1 .. 3
  BY DEF RInv, Once, Joint, Shapes
<1>2. /\ plan.runs = 1 /\ plan.rivals \in Nat /\ pruns \in Nat /\ rruns \in Nat
      /\ pruns < plan.runs => pmain = "idle"
      /\ rruns < plan.runs => rmain = "idle"
  BY DEF RInv, Once
<1>3. ASSUME Next, UNCHANGED rvars PROVE Joint'
  <2>1. UNCHANGED <<rmain, rstep, rsem, rpc>>
    BY <1>3 DEF rvars
  <2>2. CASE LaunchProducer \/ JoinProducers \/ KillProducer
    BY <1>1, <1>2, <2>1, <2>2, MainJoint DEF LaunchProducer, JoinProducers,
       KillProducer, cvars
  <2>3. CASE LaunchConsumer \/ JoinConsumers \/ ConsumerFails \/ KillConsumer
    BY <1>1, <2>1, <2>3, MainJoint DEF LaunchConsumer, JoinConsumers, ConsumerFails,
       KillConsumer, pvars
  <2>4. CASE DestroyStep
    <3>1. \E nm \in Names : Destroy[cstep] = <<"remove", nm>>
      BY <1>1 DEF Destroy, Names
    <3>2. \E nm \in Names : names' = [names EXCEPT ![nm] = 0]
      <4>1. PICK nm \in Names : Destroy[cstep] = <<"remove", nm>>
        BY <3>1
      <4>2. Perform(<<"remove", nm>>, 0)
        BY <2>4, <4>1 DEF DestroyStep
      <4>3. names' = [names EXCEPT ![nm] = 0]
        BY <4>2 DEF Perform
      <4> QED BY <4>3
    <3>3. /\ UNCHANGED <<objs, csem, cpc, pmain, pstep, psem, ppc>>
          /\ cmain' \in {"done", "destroy"} /\ cstep' \in 1 .. 3
      BY <1>1, <2>4, <3>1 DEF DestroyStep, Perform, pvars, Destroy
    <3> QED BY <1>1, <2>1, <3>2, <3>3, MainJoint
  <2>5. CASE SetupStep \/ ConnectStep
    BY <1>1, <1>3, <2>5, FirstSetsUp, ConsumerOpens
  <2>6. CASE \/ \E p \in Producers : Producer(p)
             \/ \E c \in Consumers : Consumer(c)
    BY <1>1, <1>3, <2>6, FirstJoint, ConsumerJoint
  <2>7. CASE Terminated
    BY <1>1, <2>1, <2>7, MainJoint DEF Terminated, vars, pvars, cvars
  <2> QED BY <1>3, <2>2, <2>3, <2>4, <2>5, <2>6, <2>7 DEF Next, Programs
<1>4. ASSUME RivalStep PROVE Joint'
  <2>1. UNCHANGED <<pmain, pstep, psem, ppc>> /\ UNCHANGED pvars
    BY <1>4 DEF RivalStep, pvars
  <2>2. CASE R!LaunchProducer \/ R!JoinProducers \/ R!KillProducer
    <3>1. CASE R!LaunchProducer
      BY <1>1, <1>2, <2>1, <3>1, MainJoint DEF R!LaunchProducer, R!cvars
    <3>2. CASE R!JoinProducers
      BY <1>1, <2>1, <3>2, MainJoint DEF R!JoinProducers, R!cvars
    <3>3. CASE R!KillProducer
      BY <1>1, <2>1, <3>3, MainJoint, SameConstants DEF R!KillProducer, R!cvars
    <3> QED BY <2>2, <3>1, <3>2, <3>3
  <2>3. CASE R!SetupStep \/ \E p \in Producers : R!Producer(p)
    BY <1>1, <2>1, <2>3, SecondSetsUp, SecondJoint
  <2> QED BY <1>4, <2>2, <2>3 DEF RivalStep, RivalProgram, RivalLaunch
<1>5. CASE UNCHANGED <<vars, rvars>>
  BY <1>1, <1>5, MainJoint DEF vars, rvars, pvars, cvars
<1> QED BY <1>3, <1>4, <1>5 DEF RivalNext

\* The second program does nothing before somebody launches it, and nobody
\* launches a program more often than planned.
LEMMA FirstAlone ==
    ASSUME RInv, [RivalNext]_<<vars, rvars>>
    PROVE  /\ FirstOnly' /\ plan' = plan /\ rruns' \in 0 .. plan.rivals
           /\ plan.rivals # 0 => /\ pruns' \in Nat /\ (pruns' = 0 => pmain' = "idle")
                                 /\ rruns' = 0 => rmain' = "idle"
<1>0. rruns \in Nat /\ plan.rivals \in Nat /\ rruns <= plan.rivals
  BY DEF RInv
<1>1. CASE UNCHANGED rvars /\ [Next]_vars
  <2>1. UNCHANGED <<rruns, rmain, rpc>>
    BY <1>1 DEF rvars
  <2>2. plan' = plan
    BY <1>1 DEF Next, Programs, LaunchProducer, SetupStep, JoinProducers, LaunchConsumer,
       ConnectStep, JoinConsumers, DestroyStep, ConsumerFails, KillProducer,
       KillConsumer, Terminated, Producer, Consumer, PSem, CSem, WriteToBufferFile,
       ReadFromBufferFile, PMove, CMove, counts, vars
  <2>3. \/ pruns' = pruns /\ (pmain = "idle" => pmain' = "idle")
        \/ pruns' = pruns + 1
    BY <1>1 DEF Next, Programs, LaunchProducer, SetupStep, JoinProducers, LaunchConsumer,
       ConnectStep, JoinConsumers, DestroyStep, ConsumerFails, KillProducer,
       KillConsumer, Terminated, Producer, Consumer, PSem, CSem, WriteToBufferFile,
       ReadFromBufferFile, PMove, CMove, counts, vars, pvars
  <2> QED BY <1>0, <1>1, <2>1, <2>2, <2>3, Inductive DEF RInv, FirstOnly, Once
<1>2. CASE RivalStep
  <2>0. UNCHANGED <<pmain, pruns>>
    BY <1>2 DEF RivalStep, pvars
  <2>1. CASE RivalLaunch
    <3>1. rruns' = rruns + 1 /\ rruns < plan.rivals /\ plan' = plan
      BY <2>1 DEF RivalLaunch, R!LaunchProducer
    <3>2. rruns' \in 0 .. plan.rivals /\ rruns' # 0
      BY <1>0, <3>1
    <3> QED BY <2>0, <3>1, <3>2 DEF FirstOnly, RInv, Once
  <2>2. CASE \/ R!SetupStep \/ R!JoinProducers \/ R!KillProducer
             \/ \E p \in Producers : R!Producer(p)
    <3>1. UNCHANGED <<rruns, plan>>
      BY <2>2 DEF R!SetupStep, R!JoinProducers, R!KillProducer,
         R!Producer, R!PSem, R!WriteToBufferFile, R!PMove, R!counts
    <3>2. rmain \in {"setup", "run"} \/ \E p \in Producers : rpc[p] # "none"
      BY <2>2 DEF R!SetupStep, R!JoinProducers, R!KillProducer,
         R!Producer, R!PSem, R!WriteToBufferFile, R!PMove
    <3>3. plan.rivals # 0 => rruns # 0
      BY <3>2 DEF RInv, Once, Joint, Forking, Begun
    <3>4. rruns # 0
      BY <3>2 DEF RInv, FirstOnly
    <3> QED BY <2>0, <3>1, <3>4 DEF RInv, FirstOnly, Once
  <2> QED BY <1>2, <2>1, <2>2 DEF RivalStep, RivalProgram
<1>3. CASE UNCHANGED <<vars, rvars>>
  BY <1>1, <1>3
<1> QED BY <1>1, <1>2, <1>3 DEF RivalNext

LEMMA Guarded ==
    ASSUME RInv
    PROVE  FileGuarded
<1>1. rruns = 0 => WriteIndexStable
  BY DEF RInv, FirstOnly, IInv
<1>2. ASSUME NEW s \in Inside, NEW t \in Inside, s[3] = t[3] PROVE s = t
  <2>1. CASE plan.rivals # 0
    <3>1. OneHolder /\ Forking /\ "cs" \in Names
      BY <2>1 DEF RInv, Once, Joint, Names
    <3>2. s \in Holders /\ t \in Holders
      BY DEF Inside, Holders, Taken
    <3>3. s[3] # 0
      BY <3>1 DEF Inside, Forking, Begun
    <3> QED BY <1>2, <3>1, <3>2, <3>3 DEF OneHolder
  <2>2. CASE plan.rivals = 0
    <3>1. IInv /\ \A p \in Producers : rpc[p] = "none"
      BY <2>2 DEF RInv, FirstOnly
    <3>2. /\ TypeOK /\ Tokens /\ ProducersRun /\ ConsumersRun /\ "cs" \in Names
          /\ plan.producers \cap plan.consumers = {}
      BY <3>1, FileAssumption DEF IInv, TypeOK, Names
    <3>3. ASSUME NEW u \in Inside
          PROVE  /\ u[2] \in Children /\ Holds(u[2], u[3]) /\ u[3] \in InUse("cs") \ {0}
                 /\ \/ u[2] \in plan.producers /\ u = <<"first", u[2], u[3]>>
                    \/ u[2] \in plan.consumers /\ u = <<"consumer", u[2], u[3]>>
      BY <3>1, <3>2 DEF Inside, ProducersRun, ConsumersRun, Holds, InUse, Children
    <3>4. s[2] = t[2]
      BY <1>2, <3>2, <3>3 DEF Tokens, Exclusive
    <3> QED BY <1>2, <3>2, <3>3, <3>4
  <2> QED BY <2>1, <2>2
<1> QED BY <1>1, <1>2 DEF FileGuarded

\* Children that have the same sem_cs are in the file one at a time, those of
\* a second producer that is started beside the first one included; and as
\* long as nobody has started it, what a producer has read of the file is
\* still there when it writes back, however the launches overlap.
THEOREM NoLostWrite ==
    ASSUME RivalsAssumption
    PROVE  RivalSpec => []FileGuarded
<1>1. RivalInit => RInv
  <2> SUFFICES ASSUME RivalInit PROVE RInv
    OBVIOUS
  <2> USE DEF Names
  <2>1. IInv /\ FirstOnly /\ rruns = 0 /\ pruns = 0 /\ rmain = "idle" /\ pmain = "idle" /\ plan \in Plans
    BY Initially DEF RivalInit, FirstOnly, Init
  <2>2. plan.rivals \in Nat /\ (plan.rivals # 0 => plan.runs = 1)
    BY <2>1 DEF RivalsAssumption
  <2>3. Shapes /\ Forking
    BY DEF RivalInit, Init, Shapes, Forking, Begun, InSetup
  <2>4. \A nm \in Names : Uses(nm) = {0}
    BY DEF RivalInit, Init, Uses
  <2>5. Holders = {} /\ objs = <<>> /\ Len(objs) = 0
    BY DEF RivalInit, Init, Holders, Taken
  <2>6. OneHolder
    BY <2>4, <2>5 DEF OneHolder
  <2> QED BY <2>1, <2>2, <2>3, <2>6 DEF RInv, Once, Joint
<1>2. RInv /\ [RivalNext]_<<vars, rvars>> => RInv'
  BY StepsJoint, FirstAlone DEF RInv, Once
<1>3. RInv => FileGuarded
  BY Guarded
<1> QED BY <1>1, <1>2, <1>3, PTL DEF RivalSpec

-----------------------------------------------------------------------------
(* The file implements a FIFO: what relates the semaphores, the indexes    *)
(* and the content of the file.                                            *)

\* The semaphores of the last launch of the producer are those it created:
\* it is setting up, or got past it.
Latest == Orderly /\ (pmain = "setup" \/ pstep = 9)
Created(nm) == pstep > (CASE nm = "filled" -> 6 [] nm = "empty" -> 7 [] nm = "cs" -> 8)

\* They are as created until the set-up ends, under their names until the
\* partner has opened them, and not those of an earlier consumer program.
Own == Latest => \A nm \in Names : Created(nm) =>
    /\ psem[nm] # 0
    /\ cruns < pruns \/ cmain = "connect" => names[nm] = psem[nm]
    /\ cruns < pruns => csem[nm] # psem[nm]
    /\ pmain = "setup" => objs[psem[nm]] = Fresh[nm]

\* The partner opens the same ones, before it forks.
Partner ==
    /\ Orderly /\ cmain = "connect" => \A c \in Consumers : cpc[c] = "none"
    /\ SetUp /\ cmain = "connect" =>
          /\ cstep > 1 => csem["filled"] = psem["filled"]
          /\ cstep > 2 => csem["empty"] = psem["empty"]
    /\ SetUp /\ cruns = pruns /\ (\E c \in Consumers : cpc[c] # "none") => csem = psem

NewFile == Orderly /\ pmain = "setup" /\ pstep > 2 =>
    /\ file.stored = <<>> /\ file.taken = <<>>
    /\ file.read_index = 0 /\ file.write_index = 0

\* The children at some positions; consumers of an earlier launch, which a
\* crash left behind, do not count.
Taking(S) == IF cruns = pruns THEN Count(plan.consumers, cpc, S) ELSE 0
Putting(S) == Count(plan.producers, ppc, S)
Waiting == Len(file.stored) - Len(file.taken)

\* Every value in the file has a token of filled or somebody who has taken or
\* will post one, every free slot one of empty.  Kills lose some, so that
\* there may be fewer.
Balance == SetUp =>
    /\ objs[psem["filled"]].value + Taking({"wait_cs", "load", "read"})
         + Putting({"advance", "post_cs", "post_filled"}) <= Waiting
    /\ objs[psem["empty"]].value + Putting({"wait_cs", "load", "store"})
         + Taking({"advance", "post_cs", "post_empty"}) <= BUFFER_SIZE - Waiting

\* The indexes in the file and those the children have read are the slots of
\* the next value and of the oldest.
WriteAt == SetUp =>
    /\ pmain = "run" /\ (\A p \in Producers : ppc[p] # "advance") =>
          file.write_index = Len(file.stored) % BUFFER_SIZE
    /\ \A p \in Producers : ppc[p] = "advance" =>
          Following(index[p]) = Len(file.stored) % BUFFER_SIZE

ReadAt == SetUp =>
    /\ /\ cruns < pruns \/ cmain \in {"connect", "run"}
       /\ \A c \in Consumers : cpc[c] # "advance"
       => file.read_index = Len(file.taken) % BUFFER_SIZE
    /\ \A c \in Consumers : cruns = pruns =>
          /\ cpc[c] = "read" => index[c] = Len(file.taken) % BUFFER_SIZE
          /\ cpc[c] = "advance" => Following(index[c]) = Len(file.taken) % BUFFER_SIZE

Pops == \A p \in Producers : ppc[p] \notin {"none", "exit"} => pops[p] \in 1 .. NUM_OPERATIONS

QInv == Own /\ Partner /\ NewFile /\ Balance /\ WriteAt /\ ReadAt /\ Pops

-----------------------------------------------------------------------------
\* What the type invariant and the assumptions say of the parts.
LEMMA Parts ==
    ASSUME IInv
    PROVE  /\ BUFFER_SIZE \in Nat \ {0} /\ NUM_OPERATIONS \in Nat \ {0}
           /\ IsFiniteSet(plan.producers) /\ IsFiniteSet(plan.consumers)
           /\ plan.producers # {}
           /\ plan.producers \subseteq Producers /\ plan.consumers \subseteq Consumers
           /\ plan.producers \cap plan.consumers = {}
           /\ NUM_OPERATIONS % Cardinality(plan.producers) = 0
           /\ file.stored \in Seq(Cells) /\ file.taken \in Seq(Cells)
           /\ Len(file.stored) \in Nat /\ Len(file.taken) \in Nat /\ Waiting \in Int
           /\ file.cells \in [Slots -> Cells]
           /\ pruns \in Nat /\ cruns \in Nat /\ pstep \in 1 .. 9
<1>1. plan \in Plans /\ file.stored \in Seq(Cells) /\ file.taken \in Seq(Cells)
      /\ file.cells \in [Slots -> Cells] /\ pruns \in Nat /\ cruns \in Nat /\ pstep \in 1 .. 9
  BY DEF IInv, TypeOK
<1>2. Len(file.stored) \in Nat /\ Len(file.taken) \in Nat
  BY <1>1
<1>3. BUFFER_SIZE \in Nat \ {0} /\ NUM_OPERATIONS \in Nat \ {0}
  BY FileAssumption
<1>4. /\ IsFiniteSet(plan.producers) /\ IsFiniteSet(plan.consumers)
      /\ plan.producers # {} /\ plan.producers \cap plan.consumers = {}
      /\ NUM_OPERATIONS % Cardinality(plan.producers) = 0
  BY <1>1, FileAssumption
<1>5. plan.producers \subseteq Producers /\ plan.consumers \subseteq Consumers
  BY <1>1 DEF Producers, Consumers
<1> QED BY <1>1, <1>2, <1>3, <1>4, <1>5 DEF Waiting

\* The value of a semaphore in use.
LEMMA Value ==
    ASSUME IInv, NEW o \in 1 .. Len(objs)
    PROVE  objs[o].value \in Nat
<1>1. objs[o] \in [value : Nat]
  BY ElementOfSeq DEF IInv, TypeOK
<1> QED BY <1>1

\* Distinct names are handed distinct semaphores.
LEMMA Distinct ==
    ASSUME IInv, NEW x \in Names, NEW y \in Names, x # y,
           NEW o, o \in InUse(x), o # 0
    PROVE  o \notin InUse(y)
BY DEF IInv, Handles

\* The counts are natural numbers.
LEMMA CountsNat ==
    ASSUME IInv, NEW S
    PROVE  Taking(S) \in Nat /\ Putting(S) \in Nat
<1>1. IsFiniteSet(plan.producers) /\ IsFiniteSet(plan.consumers)
  BY Parts
<1>2. Count(plan.consumers, cpc, S) \in Nat /\ Count(plan.producers, ppc, S) \in Nat
  BY <1>1, CountType
<1> QED BY <1>2 DEF Taking, Putting

\* A child that holds the cs is the only one to; of the consumers, only while
\* their program runs, or one of them has crashed.
LEMMA OneReader ==
    ASSUME IInv, NEW c \in Consumers, cpc[c] \in {"load", "read", "advance", "post_cs"}
    PROVE  /\ cmain = "run"
           /\ \A d \in Consumers : cpc[d] \in {"load", "read", "advance", "post_cs", "crashed"}
                                       => d = c
<1> DEFINE o == csem["cs"]
<1>1. o \in InUse("cs") \ {0} /\ "cs" \in Names
  BY DEF IInv, ConsumersRun, InUse, Names
<1>2. Exclusive(o)
  BY <1>1 DEF IInv, Tokens
<1>3. \A d \in Consumers : cpc[d] \in {"load", "read", "advance", "post_cs", "crashed"} =>
          d \in Children /\ Holds(d, o)
  BY DEF Children, Holds
<1>4. \A d \in Consumers : cpc[d] \in {"load", "read", "advance", "post_cs", "crashed"} => d = c
  BY <1>2, <1>3 DEF Exclusive
<1>5. cmain = "run"
  BY <1>4 DEF IInv, ConsumersRun
<1> QED BY <1>4, <1>5

\* Between a launch of the producer and that of its partner nobody reads.
LEMMA NoReader ==
    ASSUME IInv, Orderly, cruns < pruns, NEW c \in Consumers
    PROVE  cpc[c] \notin {"load", "read", "advance", "post_cs"}
<1> SUFFICES ASSUME cpc[c] \in {"load", "read", "advance", "post_cs"} PROVE FALSE
  OBVIOUS
<1>1. cmain = "run"
  BY OneReader
<1> QED BY <1>1 DEF IInv, Paired, TypeOK

\* Steps that leave the children where they are, or remove them.
LEMMA PutKeep ==
    ASSUME UNCHANGED <<ppc, plan>>
    PROVE  \A S : Putting(S)' = Putting(S)
BY DEF Putting, Count

LEMMA TakeKeep ==
    ASSUME UNCHANGED <<cpc, plan, cruns, pruns>>
    PROVE  \A S : Taking(S)' = Taking(S)
BY DEF Taking, Count

LEMMA PutNone ==
    ASSUME IInv', NEW S, \A p \in Producers : ppc'[p] \notin S
    PROVE  Putting(S)' = 0
<1> DEFINE all == plan'.producers
           f == ppc'
<1>1. \A p \in all : f[p] \notin S
  BY DEF IInv, TypeOK, Producers
<1> HIDE DEF all, f
<1>2. Count(all, f, S) = 0
  BY <1>1, CountNone
<1> QED BY <1>2 DEF Putting, all, f

LEMMA TakeNone ==
    ASSUME IInv', NEW S, \A c \in Consumers : cpc'[c] \notin S
    PROVE  Taking(S)' = 0
<1> DEFINE all == plan'.consumers
           f == cpc'
<1>1. \A c \in all : f[c] \notin S
  BY DEF IInv, TypeOK, Consumers
<1> HIDE DEF all, f
<1>2. Count(all, f, S) = 0
  BY <1>1, CountNone
<1> QED BY <1>2 DEF Taking, all, f

LEMMA CountsNatNext ==
    ASSUME IInv', NEW S
    PROVE  Taking(S)' \in Nat /\ Putting(S)' \in Nat
<1> DEFINE all == plan'.producers
           f == ppc'
           every == plan'.consumers
           g == cpc'
<1>1. IsFiniteSet(all) /\ IsFiniteSet(every)
  BY FileAssumption DEF IInv, TypeOK
<1> HIDE DEF all, f, every, g
<1>2. Count(all, f, S) \in Nat /\ Count(every, g, S) \in Nat
  BY <1>1, CountType
<1> QED BY <1>2 DEF Taking, Putting, all, f, every, g

\* After the set-up the producer program has its three semaphores.
LEMMA OwnObjects ==
    ASSUME IInv, Own, SetUp, NEW nm \in Names
    PROVE  /\ psem[nm] \in 1 .. Len(objs) /\ psem[nm] \in InUse(nm)
           /\ cruns < pruns \/ cmain = "connect" => names[nm] = psem[nm]
           /\ cruns < pruns => csem[nm] # psem[nm]
<1>1. pstep = 9 /\ Orderly
  BY SetupCalls DEF SetUp, IInv, TypeOK
<1>2. Created(nm)
  BY <1>1 DEF Created, Names
<1>3. /\ psem[nm] # 0
      /\ cruns < pruns \/ cmain = "connect" => names[nm] = psem[nm]
      /\ cruns < pruns => csem[nm] # psem[nm]
  BY <1>1, <1>2 DEF Own, Latest
<1>4. psem[nm] \in InUse(nm) /\ InUse(nm) \subseteq 0 .. Len(objs)
  BY DEF InUse, IInv, Handles
<1>5. psem[nm] \in 1 .. Len(objs)
  BY <1>3, <1>4
<1> QED BY <1>3, <1>4, <1>5

\* Smaller counts keep a bound.
LEMMA LessSum ==
    ASSUME NEW v \in Nat, NEW a \in Nat, NEW b \in Nat, NEW c \in Nat, NEW d \in Nat,
           NEW w \in Int, c <= a, d <= b, v + a + b <= w
    PROVE  v + c + d <= w
OBVIOUS

\* With the same file and semaphores, fewer children can only help.
LEMMA BalanceKeep ==
    ASSUME IInv, IInv', Own, Balance, SetUp' => SetUp, UNCHANGED <<objs, psem, file>>,
           \A S : "none" \notin S => Putting(S)' <= Putting(S),
           \A S : "none" \notin S /\ "wait_filled" \notin S => Taking(S)' <= Taking(S)
    PROVE  Balance'
<1> SUFFICES ASSUME SetUp'
             PROVE  /\ (objs[psem["filled"]].value)' + Taking({"wait_cs", "load", "read"})'
                         + Putting({"advance", "post_cs", "post_filled"})' <= Waiting'
                    /\ (objs[psem["empty"]].value)' + Putting({"wait_cs", "load", "store"})'
                         + Taking({"advance", "post_cs", "post_empty"})' <= BUFFER_SIZE - Waiting'
  BY DEF Balance
<1> DEFINE tr == Taking({"wait_cs", "load", "read"})
           pw == Putting({"advance", "post_cs", "post_filled"})
           pr == Putting({"wait_cs", "load", "store"})
           tw == Taking({"advance", "post_cs", "post_empty"})
           f == objs[psem["filled"]].value
           e == objs[psem["empty"]].value
<1>1. tr' <= tr /\ pw' <= pw /\ pr' <= pr /\ tw' <= tw
  OBVIOUS
<1>2. tr' \in Nat /\ pw' \in Nat /\ pr' \in Nat /\ tw' \in Nat
  BY CountsNatNext
<1>3. tr \in Nat /\ pw \in Nat /\ pr \in Nat /\ tw \in Nat
  BY CountsNat
<1>4. Waiting' = Waiting /\ Waiting \in Int /\ BUFFER_SIZE \in Nat
  BY Parts DEF Waiting
<1>5. f \in Nat /\ e \in Nat /\ f' = f /\ e' = e
  <2>1. "filled" \in Names /\ "empty" \in Names
    BY DEF Names
  <2>2. psem["filled"] \in 1 .. Len(objs) /\ psem["empty"] \in 1 .. Len(objs)
    BY <2>1, OwnObjects
  <2> QED BY <2>2, Value
<1>6. f + tr + pw <= Waiting /\ e + pr + tw <= BUFFER_SIZE - Waiting
  BY DEF Balance
<1> HIDE DEF tr, pw, pr, tw, f, e
<1>7. f' + tr' + pw' <= Waiting' /\ e' + pr' + tw' <= BUFFER_SIZE - Waiting'
  <2>1. f + tr' + pw' <= Waiting
    BY <1>1, <1>2, <1>3, <1>4, <1>5, <1>6, LessSum
  <2>2. e + pr' + tw' <= BUFFER_SIZE - Waiting
    <3>1. BUFFER_SIZE - Waiting \in Int
      BY <1>4
    <3> QED BY <1>1, <1>2, <1>3, <1>5, <1>6, <3>1, LessSum
  <2> QED BY <1>4, <1>5, <2>1, <2>2
<1> QED BY <1>7 DEF tr, pw, pr, tw, f, e

-----------------------------------------------------------------------------
(* The programs keep what the queue rests on. *)

LEMMA LaunchProducerQ ==
    ASSUME IInv, QInv, LaunchProducer, IInv'
    PROVE  QInv'
<1>1. /\ pmain' = "setup" /\ pstep' = 1 /\ pruns' = pruns + 1
      /\ UNCHANGED <<names, objs, file, psem, ppc, pops, cvars, index, cruns, kills, plan>>
  BY DEF LaunchProducer
<1>2. ~SetUp' /\ \A nm \in Names : ~Created(nm)'
  BY <1>1, SetupCalls DEF SetUp, Created, Names
<1>3. Own' /\ Balance' /\ WriteAt' /\ ReadAt' /\ NewFile'
  BY <1>1, <1>2 DEF Own, Balance, WriteAt, ReadAt, NewFile
<1>4. Partner'
  BY <1>1, <1>2 DEF QInv, Partner, Orderly, cvars
<1>5. Pops'
  BY <1>1 DEF QInv, Pops
<1> QED BY <1>3, <1>4, <1>5 DEF QInv

\* The end of the producer program, by itself or by a kill.
LEMMA ProducerEndsQ ==
    ASSUME IInv, QInv, JoinProducers \/ KillProducer, IInv'
    PROVE  QInv'
<1>1. /\ pmain' \in {"done", "killed"}
      /\ ppc' = ppc \/ ppc' = [p \in Producers |-> "none"]
      /\ UNCHANGED <<names, objs, file, pstep, psem, pops, cvars, index, pruns, cruns, plan>>
  BY NoneCrashed DEF JoinProducers, KillProducer, counts
<1>2. Orderly' = Orderly /\ SetUp' = SetUp
  BY <1>1 DEF SetUp, Orderly
<1>3. Own'
  <2>1. \A nm \in Names : Created(nm)' = Created(nm)
    BY <1>1 DEF Created
  <2> QED BY <1>1, <1>2, <2>1 DEF QInv, Own, Latest, cvars
<1>4. Partner' /\ NewFile'
  BY <1>1, <1>2 DEF QInv, Partner, NewFile, cvars
<1>5. Balance'
  <2>1. ASSUME NEW S, "none" \notin S PROVE Putting(S)' <= Putting(S)
    <3>1. Putting(S) \in Nat
      BY CountsNat
    <3>2. CASE ppc' = ppc
      BY <1>1, <3>1, <3>2, PutKeep
    <3>3. CASE ppc' = [p \in Producers |-> "none"]
      BY <2>1, <3>1, <3>3, PutNone
    <3> QED BY <1>1, <3>2, <3>3
  <2>2. ASSUME NEW S PROVE Taking(S)' <= Taking(S)
    BY <1>1, CountsNat, TakeKeep DEF cvars
  <2> QED BY <1>1, <1>2, <2>1, <2>2, BalanceKeep DEF QInv
<1>6. WriteAt' /\ ReadAt' /\ Pops'
  BY <1>1, <1>2 DEF QInv, WriteAt, ReadAt, Pops, cvars
<1> QED BY <1>3, <1>4, <1>5, <1>6 DEF QInv

LEMMA LaunchConsumerQ ==
    ASSUME IInv, QInv, LaunchConsumer, IInv'
    PROVE  QInv'
<1>1. /\ cmain' \in {"connect", "failed"} /\ cstep' = 1 /\ cruns' = cruns + 1
      /\ cpc' = [c \in Consumers |-> "none"]
      /\ Orderly => cruns < pruns /\ pmain \notin {"idle", "setup"}
      /\ UNCHANGED <<names, objs, file, pvars, csem, cops, index, pruns, kills, plan>>
  BY DEF LaunchConsumer
<1>2. /\ Orderly' = Orderly /\ SetUp' = SetUp /\ Latest' = Latest
      /\ \A nm \in Names : Created(nm)' = Created(nm)
  BY <1>1 DEF SetUp, Orderly, Latest, Created, pvars
<1>3. Orderly => cruns' = pruns'
  BY <1>1 DEF IInv, Paired, TypeOK
<1>4. Own'
  BY <1>1, <1>2, <1>3, Parts DEF QInv, Own, Latest, pvars
<1>5. Partner' /\ NewFile'
  BY <1>1, <1>2 DEF QInv, Partner, NewFile, pvars
<1>6. Balance'
  <2>1. ASSUME NEW S PROVE Putting(S)' <= Putting(S)
    BY <1>1, CountsNat, PutKeep DEF pvars
  <2>2. ASSUME NEW S, "none" \notin S PROVE Taking(S)' <= Taking(S)
    <3>1. Taking(S) \in Nat
      BY CountsNat
    <3>2. Taking(S)' = 0
      BY <1>1, <2>2, TakeNone
    <3> QED BY <3>1, <3>2
  <2> QED BY <1>1, <1>2, <2>1, <2>2, BalanceKeep DEF QInv, pvars
<1>7. WriteAt' /\ Pops'
  BY <1>1, <1>2 DEF QInv, WriteAt, Pops, pvars
<1>8. ReadAt'
  <2>1. Orderly => \A c \in Consumers : cpc[c] # "advance"
    BY <1>1, NoReader
  <2> QED BY <1>1, <1>2, <1>3, <2>1 DEF QInv, ReadAt, SetUp
<1> QED BY <1>4, <1>5, <1>6, <1>7, <1>8 DEF QInv

\* A consumer program that leaves its main loop, is killed or fails.
LEMMA ConsumerEndsQ ==
    ASSUME IInv, QInv, JoinConsumers \/ ConsumerFails \/ KillConsumer, IInv'
    PROVE  QInv'
<1>1. /\ cmain \in {"connect", "run", "destroy"}
      /\ cmain' \in {"destroy", "failed", "killed"}
      /\ cpc' = cpc \/ cpc' = [c \in Consumers |-> "none"]
      /\ UNCHANGED <<names, objs, file, pvars, cstep, csem, cops, index, pruns, cruns, plan>>
  BY DEF JoinConsumers, ConsumerFails, KillConsumer, counts
<1>2. /\ Orderly' = Orderly /\ SetUp' = SetUp /\ Latest' = Latest
      /\ \A nm \in Names : Created(nm)' = Created(nm)
      /\ Orderly => cruns = pruns
  BY <1>1 DEF SetUp, Orderly, Latest, Created, pvars, IInv, Paired
<1>3. Own'
  BY <1>1, <1>2, Parts DEF QInv, Own, Latest, pvars
<1>4. Partner' /\ NewFile'
  BY <1>1, <1>2 DEF QInv, Partner, NewFile, pvars
<1>5. Balance'
  <2>1. ASSUME NEW S PROVE Putting(S)' <= Putting(S)
    BY <1>1, CountsNat, PutKeep DEF pvars
  <2>2. ASSUME NEW S, "none" \notin S PROVE Taking(S)' <= Taking(S)
    <3>1. Taking(S) \in Nat
      BY CountsNat
    <3>2. CASE cpc' = cpc
      BY <1>1, <3>1, <3>2, TakeKeep
    <3>3. CASE cpc' = [c \in Consumers |-> "none"]
      BY <2>2, <3>1, <3>3, TakeNone
    <3> QED BY <1>1, <3>2, <3>3
  <2> QED BY <1>1, <1>2, <2>1, <2>2, BalanceKeep DEF QInv, pvars
<1>6. WriteAt' /\ Pops'
  BY <1>1, <1>2 DEF QInv, WriteAt, Pops, pvars
<1>7. ReadAt'
  BY <1>1, <1>2, Parts DEF QInv, ReadAt, SetUp
<1> QED BY <1>3, <1>4, <1>5, <1>6, <1>7 DEF QInv

LEMMA DestroyQ ==
    ASSUME IInv, QInv, DestroyStep, IInv'
    PROVE  QInv'
<1>1. /\ cmain = "destroy" /\ cmain' \in {"done", "destroy"} /\ objs' = objs
      /\ UNCHANGED <<file, csem, cpc, cops, pvars, index, counts>>
  <2>1. Destroy[cstep][1] = "remove"
    <3>1. cstep = 1 \/ cstep = 2 \/ cstep = 3
      BY DEF IInv, TypeOK
    <3> QED BY <3>1 DEF Destroy
  <2> QED BY <2>1 DEF DestroyStep, Perform
<1>2. /\ Orderly' = Orderly /\ SetUp' = SetUp /\ Latest' = Latest
      /\ \A nm \in Names : Created(nm)' = Created(nm)
      /\ Orderly => cruns = pruns
  BY <1>1 DEF SetUp, Orderly, Latest, Created, pvars, counts, IInv, Paired
<1>3. Own'
  BY <1>1, <1>2, Parts DEF QInv, Own, Latest, pvars, counts
<1>4. Partner' /\ NewFile'
  BY <1>1, <1>2 DEF QInv, Partner, NewFile, pvars, counts
<1>5. Balance'
  <2>1. ASSUME NEW S PROVE Putting(S)' <= Putting(S) /\ Taking(S)' <= Taking(S)
    BY <1>1, CountsNat, PutKeep, TakeKeep DEF pvars, counts
  <2> QED BY <1>1, <1>2, <2>1, BalanceKeep DEF QInv, pvars
<1>6. WriteAt' /\ Pops'
  BY <1>1, <1>2 DEF QInv, WriteAt, Pops, pvars
<1>7. ReadAt'
  BY <1>1, <1>2, Parts DEF QInv, ReadAt, SetUp, counts
<1> QED BY <1>3, <1>4, <1>5, <1>6, <1>7 DEF QInv

\* The three calls of openSemaphores in their order.
LEMMA ConnectCall ==
    ASSUME IInv, ConnectStep
    PROVE  \E nm \in Names :
             /\ \/ cstep = 1 /\ nm = "filled"
                \/ cstep = 2 /\ nm = "empty"
                \/ cstep = 3 /\ nm = "cs"
             /\ cmain = "connect" /\ csem' = [csem EXCEPT ![nm] = names[nm]]
             /\ UNCHANGED <<names, objs, file, pvars, index, counts>>
             /\ \/ /\ cstep # 3 /\ cmain' = "connect" /\ cstep' = cstep + 1
                   /\ UNCHANGED <<cpc, cops>>
                \/ /\ cstep = 3 /\ cmain' = "run" /\ cstep' = 1
                   /\ cpc' = Forked(Consumers, plan.consumers, "wait_filled")
<1>1. /\ Len(Connect) = 3 /\ Connect[1] = <<"open", "filled">>
      /\ Connect[2] = <<"open", "empty">> /\ Connect[3] = <<"open", "cs">>
  BY DEF Connect
<1>2. PICK nm \in Names :
          /\ Connect[cstep] = <<"open", nm>>
          /\ \/ cstep = 1 /\ nm = "filled"
             \/ cstep = 2 /\ nm = "empty"
             \/ cstep = 3 /\ nm = "cs"
  <2>1. cstep = 1 \/ cstep = 2 \/ cstep = 3
    BY DEF IInv, TypeOK
  <2> QED BY <1>1, <2>1 DEF Names
<1>3. /\ cmain = "connect" /\ csem' = [csem EXCEPT ![nm] = names[nm]]
      /\ UNCHANGED <<names, objs, file, pvars, index, counts>>
  BY <1>2 DEF ConnectStep, Succeeds, HandleOf
<1>4. \/ /\ cstep # 3 /\ cmain' = "connect" /\ cstep' = cstep + 1 /\ UNCHANGED <<cpc, cops>>
      \/ /\ cstep = 3 /\ cmain' = "run" /\ cstep' = 1
         /\ cpc' = Forked(Consumers, plan.consumers, "wait_filled")
  BY <1>1, <1>2 DEF ConnectStep
<1> QED BY <1>2, <1>3, <1>4

LEMMA ConnectQ ==
    ASSUME IInv, QInv, ConnectStep, IInv'
    PROVE  QInv'
<1>1. PICK nm \in Names :
          /\ \/ cstep = 1 /\ nm = "filled"
             \/ cstep = 2 /\ nm = "empty"
             \/ cstep = 3 /\ nm = "cs"
          /\ cmain = "connect" /\ csem' = [csem EXCEPT ![nm] = names[nm]]
          /\ UNCHANGED <<names, objs, file, pvars, index, counts>>
          /\ \/ /\ cstep # 3 /\ cmain' = "connect" /\ cstep' = cstep + 1
                /\ UNCHANGED <<cpc, cops>>
             \/ /\ cstep = 3 /\ cmain' = "run" /\ cstep' = 1
                /\ cpc' = Forked(Consumers, plan.consumers, "wait_filled")
  BY ConnectCall
<1>2. /\ Orderly' = Orderly /\ SetUp' = SetUp /\ Latest' = Latest
      /\ \A x \in Names : Created(x)' = Created(x)
      /\ Orderly => cruns = pruns
  BY <1>1 DEF SetUp, Orderly, Latest, Created, pvars, counts, IInv, Paired
<1>3. Own'
  BY <1>1, <1>2, Parts DEF QInv, Own, Latest, pvars, counts
<1>4. NewFile'
  BY <1>1, <1>2 DEF QInv, NewFile, pvars, counts
<1>5. Partner'
  <2>1. csem \in [Names -> Nat] /\ psem \in [Names -> Nat] /\ psem' = psem
    BY <1>1 DEF IInv, TypeOK, pvars
  <2>2. SetUp => names[nm] = psem[nm]
    BY <1>1, OwnObjects DEF QInv
  <2>3. SetUp => csem'[nm] = psem[nm]
    BY <1>1, <2>1, <2>2
  <2>4. \A x \in Names : x # nm => csem'[x] = csem[x]
    BY <1>1, <2>1
  <2>5. /\ SetUp /\ cstep > 1 => csem["filled"] = psem["filled"]
        /\ SetUp /\ cstep > 2 => csem["empty"] = psem["empty"]
        /\ Orderly => \A c \in Consumers : cpc[c] = "none"
    BY <1>1 DEF QInv, Partner
  <2>6. CASE cstep = 3
    <3>1. SetUp => csem' = psem
      <4> SUFFICES ASSUME SetUp PROVE csem' = psem
        OBVIOUS
      <4>1. csem' \in [Names -> Nat]
        BY DEF IInv, TypeOK
      <4>2. csem'["filled"] = psem["filled"] /\ csem'["empty"] = psem["empty"]
        BY <1>1, <2>4, <2>5, <2>6 DEF Names
      <4>3. csem'["cs"] = psem["cs"]
        BY <1>1, <2>3, <2>6
      <4>4. \A x \in Names : csem'[x] = psem[x]
        BY <4>2, <4>3 DEF Names
      <4> QED BY <2>1, <4>1, <4>4
    <3>2. cmain' = "run"
      BY <1>1, <2>6
    <3> QED BY <1>2, <2>1, <3>1, <3>2 DEF Partner
  <2>7. CASE cstep # 3
    <3>1. cmain' = "connect" /\ cstep' = cstep + 1 /\ cpc' = cpc
      BY <1>1, <2>7
    <3>2. SetUp => csem'["filled"] = psem["filled"]
      BY <1>1, <2>3, <2>4, <2>5, <2>7 DEF Names
    <3>3. SetUp /\ cstep' > 2 => csem'["empty"] = psem["empty"]
      BY <1>1, <2>3, <2>4, <2>5, <2>7, <3>1 DEF Names
    <3>4. Orderly => \A c \in Consumers : cpc'[c] = "none"
      BY <2>5, <3>1
    <3> QED BY <1>2, <2>1, <3>2, <3>3, <3>4 DEF Partner, SetUp
  <2> QED BY <2>6, <2>7
<1>6. Balance'
  <2>1. ASSUME NEW S PROVE Putting(S)' <= Putting(S)
    BY <1>1, CountsNat, PutKeep DEF pvars, counts
  <2>2. ASSUME NEW S, "none" \notin S, "wait_filled" \notin S PROVE Taking(S)' <= Taking(S)
    <3>1. Taking(S) \in Nat
      BY CountsNat
    <3>2. CASE cpc' = cpc
      BY <1>1, <3>1, <3>2, TakeKeep DEF counts
    <3>3. CASE cpc' = Forked(Consumers, plan.consumers, "wait_filled")
      <4>1. \A c \in Consumers : cpc'[c] \notin S
        BY <2>2, <3>3 DEF Forked
      <4> QED BY <3>1, <4>1, TakeNone
    <3> QED BY <1>1, <3>2, <3>3
  <2> QED BY <1>1, <1>2, <2>1, <2>2, BalanceKeep DEF QInv, pvars
<1>7. WriteAt' /\ Pops'
  BY <1>1, <1>2 DEF QInv, WriteAt, Pops, pvars
<1>8. ReadAt'
  <2>1. \A c \in Consumers : cpc'[c] \in {"none", "wait_filled"} \/ cpc'[c] = cpc[c]
    BY <1>1 DEF Forked
  <2>2. Orderly => \A c \in Consumers : cpc[c] = "none"
    BY <1>1 DEF QInv, Partner
  <2> QED BY <1>1, <1>2, <2>1, <2>2, Parts DEF QInv, ReadAt, SetUp, counts
<1> QED BY <1>3, <1>4, <1>5, <1>6, <1>7, <1>8 DEF QInv

\* Each producer stores at least one value, and no more than there are.
LEMMA ShareOfOperations ==
    ASSUME IInv
    PROVE  OPS_PER_PRODUCER \in 1 .. NUM_OPERATIONS
<1> DEFINE n == Cardinality(plan.producers)
           q == NUM_OPERATIONS \div n
<1>1. n \in Nat \ {0} /\ NUM_OPERATIONS \in Nat \ {0} /\ NUM_OPERATIONS % n = 0
  BY Parts, FS_CardinalityType, FS_EmptySet
<1> HIDE DEF n
<1>2. q \in Int /\ NUM_OPERATIONS = q * n + 0
  BY <1>1, ModDef
<1> HIDE DEF q
<1>3. q >= 1
  <2>1. ASSUME q <= 0 PROVE q * n <= 0
    BY <1>1, <1>2, <2>1
  <2> QED BY <1>1, <1>2, <2>1
<1>4. q <= q * n
  <2>1. n - 1 \in Nat /\ q * (n - 1) >= 0
    BY <1>1, <1>2, <1>3
  <2>2. q * (n - 1) = q * n - q
    BY <1>1, <1>2
  <2> QED BY <1>1, <1>2, <2>1, <2>2
<1> QED BY <1>1, <1>2, <1>3, <1>4 DEF OPS_PER_PRODUCER, n, q

\* What a create gives.
LEMMA CreateEffect ==
    ASSUME IInv, SetupStep, pstep \in {6, 7, 8}
    PROVE  \E nm \in Names, new \in Nat :
             /\ \/ pstep = 6 /\ nm = "filled"
                \/ pstep = 7 /\ nm = "empty"
                \/ pstep = 8 /\ nm = "cs"
             /\ names' = [names EXCEPT ![nm] = new] /\ psem' = [psem EXCEPT ![nm] = new]
             /\ new = Len(objs) + 1 /\ objs'[new] = Fresh[nm] /\ file' = file
             /\ \A x \in 1 .. Len(objs) : objs'[x] = objs[x]
<1>1. PICK nm \in Names : /\ Setup[pstep] = <<"create", nm>>
                          /\ \/ pstep = 6 /\ nm = "filled"
                             \/ pstep = 7 /\ nm = "empty"
                             \/ pstep = 8 /\ nm = "cs"
  BY SetupCalls DEF Names
<1>2. InitSemaphore(Setup[pstep])
  BY <1>1 DEF SetupStep, InitFile
<1> DEFINE new == Len(objs) + 1
<1>3. /\ names' = [names EXCEPT ![nm] = new] /\ psem' = [psem EXCEPT ![nm] = new]
      /\ objs' = Append(objs, Fresh[nm]) /\ file' = file
  BY <1>1, <1>2 DEF InitSemaphore, Perform, HandleOf
<1>4. Fresh[nm] \in [value : Nat]
  BY FileAssumption DEF Fresh, Semaphore, Names
<1>5. new \in Nat /\ objs'[new] = Fresh[nm] /\ \A x \in 1 .. Len(objs) : objs'[x] = objs[x]
  BY <1>3, <1>4 DEF IInv, TypeOK
<1> QED BY <1>1, <1>3, <1>5

\* The calls before it leave the semaphores alone.
LEMMA EarlyCalls ==
    ASSUME IInv, SetupStep, pstep \in 1 .. 5
    PROVE  /\ UNCHANGED <<objs, psem>>
           /\ pstep > 2 => file' = file
           /\ pstep = 2 => /\ file'.stored = <<>> /\ file'.taken = <<>>
                           /\ file'.read_index = 0 /\ file'.write_index = 0
<1>1. pstep = 1 \/ pstep = 2 \/ pstep = 3 \/ pstep = 4 \/ pstep = 5
  OBVIOUS
<1>2. CASE pstep \in {1, 2}
  <2>1. Setup[pstep][1] \in {"truncate", "fill"} /\ (pstep = 2 => Setup[pstep][1] = "fill")
    BY <1>2, SetupCalls
  <2>2. InitFile(Setup[pstep])
    BY <2>1 DEF SetupStep, InitSemaphore
  <2>3. UNCHANGED <<objs, psem>>
    BY <2>2 DEF InitFile
  <2>4. pstep = 2 => /\ file'.stored = <<>> /\ file'.taken = <<>>
                     /\ file'.read_index = 0 /\ file'.write_index = 0
    BY <2>2 DEF InitFile
  <2> QED BY <1>2, <2>3, <2>4
<1>3. CASE pstep \in {3, 4, 5}
  <2>1. Setup[pstep][1] = "unlink"
    BY <1>3, SetupCalls
  <2>2. InitSemaphore(Setup[pstep])
    BY <2>1 DEF SetupStep, InitFile
  <2> QED BY <1>3, <2>1, <2>2 DEF InitSemaphore, Perform
<1> QED BY <1>1, <1>2, <1>3

LEMMA SetupQ ==
    ASSUME IInv, QInv, SetupStep, IInv'
    PROVE  QInv'
<1>1. /\ pmain = "setup" /\ pstep \in 1 .. 8 /\ pstep' = pstep + 1
      /\ pmain' = IF pstep = 8 THEN "run" ELSE "setup"
      /\ ppc' = IF pstep = 8 THEN Forked(Producers, plan.producers, "wait_empty") ELSE ppc
      /\ UNCHANGED <<cvars, index, counts>>
  BY SetupFrame
<1>2. /\ Orderly' = Orderly /\ (SetUp' <=> Orderly /\ pstep = 8)
      /\ Latest' => Latest
      /\ Orderly => /\ cruns < pruns /\ cruns' < pruns'
                    /\ cmain \notin {"connect", "run", "destroy"}
  BY <1>1, SetupCalls, Parts DEF SetUp, Orderly, Latest, cvars, counts, IInv, Paired
<1>3. ASSUME pstep \in {6, 7, 8} PROVE Own'
  <2>1. PICK nm \in Names, new \in Nat :
             /\ \/ pstep = 6 /\ nm = "filled"
                \/ pstep = 7 /\ nm = "empty"
                \/ pstep = 8 /\ nm = "cs"
             /\ names' = [names EXCEPT ![nm] = new] /\ psem' = [psem EXCEPT ![nm] = new]
             /\ new = Len(objs) + 1 /\ objs'[new] = Fresh[nm]
             /\ \A x \in 1 .. Len(objs) : objs'[x] = objs[x]
    BY <1>3, CreateEffect
  <2>2. names \in [Names -> Nat] /\ psem \in [Names -> Nat] /\ Len(objs) \in Nat
    BY DEF IInv, TypeOK
  <2> SUFFICES ASSUME Latest', NEW x \in Names, Created(x)'
               PROVE  /\ psem'[x] # 0 /\ names'[x] = psem'[x] /\ csem[x] # psem'[x]
                      /\ pmain' = "setup" => objs'[psem'[x]] = Fresh[x]
    BY <1>1 DEF Own, cvars
  <2>3. csem[x] \in 0 .. Len(objs) /\ psem[x] \in 0 .. Len(objs)
    BY DEF InUse, IInv, Handles
  <2>4. CASE x = nm
    BY <2>1, <2>2, <2>3, <2>4
  <2>5. CASE x # nm
    <3>1. Created(x)
      BY <1>1, <2>1, <2>5 DEF Created, Names
    <3>2. /\ psem[x] # 0 /\ names[x] = psem[x] /\ csem[x] # psem[x]
          /\ objs[psem[x]] = Fresh[x]
      BY <1>1, <1>2, <3>1 DEF QInv, Own, Latest
    <3>3. psem[x] \in 1 .. Len(objs)
      BY <2>3, <3>2
    <3>4. psem'[x] = psem[x] /\ names'[x] = names[x]
      BY <2>1, <2>2, <2>5
    <3> QED BY <2>1, <3>2, <3>3, <3>4
  <2> QED BY <2>4, <2>5
<1>4. Own'
  <2>1. CASE pstep \in 1 .. 5
    <3>1. \A x \in Names : ~Created(x)'
      BY <1>1, <2>1 DEF Created, Names
    <3> QED BY <3>1 DEF Own
  <2> QED BY <1>1, <1>3, <2>1
<1>5. Partner'
  <2>1. Orderly' => cmain' # "connect" /\ cruns' # pruns'
    BY <1>1, <1>2, Parts DEF cvars, counts
  <2>2. SetUp' => Orderly'
    BY DEF SetUp
  <2> QED BY <2>1, <2>2 DEF Partner
<1>6. file' = file \/ pstep <= 2
  BY <1>1, CreateEffect, EarlyCalls
<1>7. NewFile'
  <2>1. CASE pstep = 1
    BY <1>1, <2>1 DEF NewFile
  <2>2. CASE pstep = 2
    BY <2>2, EarlyCalls DEF NewFile
  <2>3. CASE pstep > 2
    BY <1>1, <1>2, <1>6, <2>3 DEF QInv, NewFile
  <2> QED BY <1>1, <2>1, <2>2, <2>3
<1>8. Pops'
  <2>1. CASE pstep = 8
    <3>1. pops' = [p \in Producers |-> OPS_PER_PRODUCER]
      BY <2>1, SetupCalls DEF SetupStep
    <3> QED BY <3>1, ShareOfOperations DEF Pops
  <2>2. CASE pstep # 8
    <3>1. \A p \in Producers : ppc[p] \in {"none", "exit"}
      BY <1>1, NoProducer
    <3> QED BY <1>1, <2>2, <3>1 DEF Pops
  <2> QED BY <2>1, <2>2
<1>9. ASSUME SetUp'
      PROVE  /\ pstep = 8 /\ cruns' < pruns' /\ Orderly
             /\ file'.stored = <<>> /\ file'.taken = <<>>
             /\ file'.read_index = 0 /\ file'.write_index = 0
             /\ \A p \in Producers : ppc'[p] \in {"none", "wait_empty"}
  <2>1. pstep = 8 /\ Orderly /\ cruns' < pruns'
    BY <1>2, <1>9
  <2>2. file' = file
    BY <1>6, <2>1
  <2>3. \A p \in Producers : ppc'[p] \in {"none", "wait_empty"}
    BY <1>1, <2>1 DEF Forked
  <2> QED BY <1>1, <2>1, <2>2, <2>3 DEF QInv, NewFile
<1>10. WriteAt' /\ ReadAt'
  <2>1. 0 % BUFFER_SIZE = 0
    BY Parts, ModSmall
  <2>2. BUFFER_SIZE' = BUFFER_SIZE /\ Len(<<>>) = 0
    OBVIOUS
  <2>3. WriteAt'
    BY <1>9, <2>1, <2>2 DEF WriteAt
  <2>4. SetUp' => cruns' # pruns'
    BY <1>1, <1>9, Parts DEF counts
  <2>5. ReadAt'
    BY <1>9, <2>1, <2>2, <2>4 DEF ReadAt
  <2> QED BY <2>3, <2>5
<1>11. Balance'
  <2> SUFFICES ASSUME SetUp'
               PROVE  /\ (objs[psem["filled"]].value)' + Taking({"wait_cs", "load", "read"})'
                         + Putting({"advance", "post_cs", "post_filled"})' <= Waiting'
                      /\ (objs[psem["empty"]].value)' + Putting({"wait_cs", "load", "store"})'
                         + Taking({"advance", "post_cs", "post_empty"})' <= BUFFER_SIZE - Waiting'
    BY DEF Balance
  <2>1. Waiting' = 0
    BY <1>9 DEF Waiting
  <2>2. \A S : Taking(S)' = 0
    <3>1. cruns' # pruns'
      BY <1>1, <1>9, Parts DEF counts
    <3> QED BY <3>1 DEF Taking
  <2>3. /\ Putting({"advance", "post_cs", "post_filled"})' = 0
        /\ Putting({"wait_cs", "load", "store"})' = 0
    BY <1>9, PutNone
  <2>4. PICK new \in Nat :
             /\ psem' = [psem EXCEPT !["cs"] = new]
             /\ \A x \in 1 .. Len(objs) : objs'[x] = objs[x]
    BY <1>9, CreateEffect
  <2>5. psem'["filled"] = psem["filled"] /\ psem'["empty"] = psem["empty"]
    BY <2>4 DEF IInv, TypeOK, Names
  <2>6. /\ objs[psem["filled"]] = Fresh["filled"] /\ objs[psem["empty"]] = Fresh["empty"]
        /\ psem["filled"] # 0 /\ psem["empty"] # 0
    <3>1. Created("filled") /\ Created("empty") /\ Latest /\ "filled" \in Names /\ "empty" \in Names
      BY <1>1, <1>9 DEF Created, Latest, Names
    <3> QED BY <1>1, <3>1 DEF QInv, Own
  <2>7. psem["filled"] \in 1 .. Len(objs) /\ psem["empty"] \in 1 .. Len(objs)
    <3>1. psem["filled"] \in 0 .. Len(objs) /\ psem["empty"] \in 0 .. Len(objs)
      BY DEF InUse, IInv, Handles, Names
    <3> QED BY <2>6, <3>1
  <2>8. objs'[psem'["filled"]] = Fresh["filled"] /\ objs'[psem'["empty"]] = Fresh["empty"]
    BY <2>4, <2>5, <2>6, <2>7
  <2>9. (objs[psem["filled"]].value)' = 0 /\ (objs[psem["empty"]].value)' = BUFFER_SIZE
    BY <2>8 DEF Fresh, Semaphore
  <2> QED BY <2>1, <2>2, <2>3, <2>9, Parts
<1> QED BY <1>4, <1>5, <1>7, <1>8, <1>10, <1>11 DEF QInv

-----------------------------------------------------------------------------
(* The children keep what the queue rests on. *)

\* new is old and d more.
Shift(new, old, d) == d \in Int /\ new = old + d

\* How a move from a position to another changes the count of those in S.
Change(from, to, S) == (IF to \in S THEN 1 ELSE 0) - (IF from \in S THEN 1 ELSE 0)

LEMMA PutMove ==
    ASSUME IInv, NEW p \in plan.producers, NEW from, NEW to, ppc[p] = from,
           ppc' = [ppc EXCEPT ![p] = to], plan' = plan, NEW S
    PROVE  Shift(Putting(S)', Putting(S), Change(from, to, S))
<1> DEFINE all == plan.producers
           f == ppc
           g == ppc'
<1>1. IsFiniteSet(all) /\ all \subseteq Producers /\ f[p] = from
  BY Parts
<1>2. g[p] = to /\ \A x \in all \ {p} : g[x] = f[x]
  BY <1>1 DEF IInv, TypeOK
<1>3. Putting(S) = Count(all, f, S) /\ Putting(S)' = Count(all, g, S)
  BY DEF Putting
<1>4. p \in all
  OBVIOUS
<1>5. Count(all, f, S) \in Nat
  BY <1>1, CountType
<1> HIDE DEF all, f, g
<1>6. /\ g[p] \in S /\ f[p] \notin S => Count(all, g, S) = Count(all, f, S) + 1
      /\ g[p] \notin S /\ f[p] \in S => Count(all, g, S) = Count(all, f, S) - 1
      /\ (g[p] \in S <=> f[p] \in S) => Count(all, g, S) = Count(all, f, S)
  <2>1. IsFiniteSet(all)
    BY <1>1
  <2>2. \A x \in all \ {p} : g[x] = f[x]
    BY <1>2
  <2> QED BY <1>4, <2>1, <2>2, CountMove
<1>7. Count(all, g, S) = Count(all, f, S) + Change(from, to, S)
  BY <1>1, <1>2, <1>5, <1>6 DEF Change
<1>8. Change(from, to, S) \in Int
  BY DEF Change
<1> QED BY <1>3, <1>7, <1>8 DEF Shift

\* A consumer counts when its program is the partner of the last producer's.
LEMMA TakeMove ==
    ASSUME IInv, NEW c \in plan.consumers, NEW from, NEW to, cpc[c] = from,
           cpc' = [cpc EXCEPT ![c] = to], UNCHANGED counts, NEW S
    PROVE  Shift(Taking(S)', Taking(S), IF cruns = pruns THEN Change(from, to, S) ELSE 0)
<1> DEFINE all == plan.consumers
           f == cpc
           g == cpc'
<1>1. IsFiniteSet(all) /\ all \subseteq Consumers /\ f[c] = from
  BY Parts
<1>2. g[c] = to /\ \A x \in all \ {c} : g[x] = f[x]
  BY <1>1 DEF IInv, TypeOK
<1>3. /\ Taking(S) = IF cruns = pruns THEN Count(all, f, S) ELSE 0
      /\ Taking(S)' = IF cruns = pruns THEN Count(all, g, S) ELSE 0
  BY DEF Taking, counts
<1>4. c \in all
  OBVIOUS
<1>5. Count(all, f, S) \in Nat
  BY <1>1, CountType
<1> HIDE DEF all, f, g
<1>6. /\ g[c] \in S /\ f[c] \notin S => Count(all, g, S) = Count(all, f, S) + 1
      /\ g[c] \notin S /\ f[c] \in S => Count(all, g, S) = Count(all, f, S) - 1
      /\ (g[c] \in S <=> f[c] \in S) => Count(all, g, S) = Count(all, f, S)
  <2>1. IsFiniteSet(all)
    BY <1>1
  <2>2. \A x \in all \ {c} : g[x] = f[x]
    BY <1>2
  <2> QED BY <1>4, <2>1, <2>2, CountMove
<1>7. Count(all, g, S) = Count(all, f, S) + Change(from, to, S)
  BY <1>1, <1>2, <1>5, <1>6 DEF Change
<1>8. Change(from, to, S) \in Int
  BY DEF Change
<1> QED BY <1>3, <1>7, <1>8 DEF Shift

LEMMA ValueShift ==
    ASSUME IInv, NEW o, NEW d \in Int, Changes(o, d), NEW x \in 1 .. Len(objs)
    PROVE  Shift(objs'[x].value, objs[x].value, IF x = o THEN d ELSE 0)
<1>1. objs[x].value \in Nat
  BY Value
<1>2. CASE x = o
  BY <1>1, <1>2 DEF Changes, Shift
<1>3. CASE x # o
  BY <1>1, <1>3 DEF Changes, Shift
<1> QED BY <1>2, <1>3

\* The bounds move with what moves them.
LEMMA Bounded ==
    ASSUME NEW v \in Int, NEW a \in Int, NEW b \in Int, NEW w \in Int,
           NEW v2, NEW a2, NEW b2, NEW w2, NEW dv, NEW da, NEW db, NEW dw,
           Shift(v2, v, dv), Shift(a2, a, da), Shift(b2, b, db), Shift(w2, w, dw),
           v + a + b <= w, dv + da + db <= dw
    PROVE  v2 + a2 + b2 <= w2
BY DEF Shift

LEMMA BalanceMove ==
    ASSUME IInv, QInv, SetUp, psem' = psem,
           NEW df, NEW tr, NEW pw, NEW de, NEW pr, NEW tw, NEW dw, NEW dr,
           Shift(objs'[psem["filled"]].value, objs[psem["filled"]].value, df),
           Shift(objs'[psem["empty"]].value, objs[psem["empty"]].value, de),
           Shift(Taking({"wait_cs", "load", "read"})', Taking({"wait_cs", "load", "read"}), tr),
           Shift(Putting({"advance", "post_cs", "post_filled"})',
                 Putting({"advance", "post_cs", "post_filled"}), pw),
           Shift(Putting({"wait_cs", "load", "store"})',
                 Putting({"wait_cs", "load", "store"}), pr),
           Shift(Taking({"advance", "post_cs", "post_empty"})',
                 Taking({"advance", "post_cs", "post_empty"}), tw),
           Shift(Waiting', Waiting, dw),
           df + tr + pw <= dw, de + pr + tw <= -dw
    PROVE  Balance'
<1> DEFINE TR == Taking({"wait_cs", "load", "read"})
           PW == Putting({"advance", "post_cs", "post_filled"})
           PR == Putting({"wait_cs", "load", "store"})
           TW == Taking({"advance", "post_cs", "post_empty"})
           f == objs[psem["filled"]].value
           e == objs[psem["empty"]].value
           room == BUFFER_SIZE - Waiting
<1>1. "filled" \in Names /\ "empty" \in Names
  BY DEF Names
<1>2. f \in Int /\ e \in Int
  BY <1>1, OwnObjects, Value DEF QInv
<1>3. TR \in Int /\ PW \in Int /\ PR \in Int /\ TW \in Int
  BY CountsNat
<1>4. Waiting \in Int /\ room \in Int /\ BUFFER_SIZE \in Nat
  BY Parts
<1>5. f + TR + PW <= Waiting /\ e + PR + TW <= room
  BY DEF QInv, Balance
<1>6. Shift(room', room, -dw)
  BY <1>4 DEF Shift
<1>7. /\ Shift(f', f, df) /\ Shift(e', e, de) /\ Shift(TR', TR, tr) /\ Shift(PW', PW, pw)
      /\ Shift(PR', PR, pr) /\ Shift(TW', TW, tw)
  OBVIOUS
<1> HIDE DEF TR, PW, PR, TW, f, e, room
<1>8. f' + TR' + PW' <= Waiting'
  BY <1>2, <1>3, <1>4, <1>5, <1>7, Bounded
<1>9. e' + PR' + TW' <= room'
  BY <1>2, <1>3, <1>4, <1>5, <1>6, <1>7, Bounded
<1> QED BY <1>8, <1>9 DEF Balance, TR, PW, PR, TW, f, e, room

\* What no move of a producer touches.
LEMMA ProducerFrameQ ==
    ASSUME IInv, QInv, NEW p \in Producers, NEW from, NEW to, PMove(p, from, to),
           from \notin {"none", "exit"}
    PROVE  /\ pmain = "run" /\ p \in plan.producers /\ p \notin plan.consumers
           /\ ppc[p] = from /\ ppc' = [ppc EXCEPT ![p] = to] /\ ppc'[p] = to
           /\ UNCHANGED <<names, pmain, pstep, psem, cvars, counts>>
           /\ SetUp' = SetUp /\ Own' /\ Partner' /\ NewFile'
           /\ \A S : /\ Shift(Putting(S)', Putting(S), Change(from, to, S))
                     /\ Shift(Taking(S)', Taking(S), 0)
<1>1. /\ ppc[p] = from /\ ppc' = [ppc EXCEPT ![p] = to]
      /\ UNCHANGED <<names, pmain, pstep, psem, cvars, counts>>
  BY DEF PMove
<1>2. pmain = "run" /\ p \in plan.producers /\ p \notin plan.consumers
  BY <1>1, Parts DEF IInv, ProducersRun
<1>3. /\ Orderly' = Orderly /\ SetUp' = SetUp /\ Latest' = Latest
      /\ \A nm \in Names : Created(nm)' = Created(nm)
  BY <1>1 DEF SetUp, Orderly, Latest, Created, counts
<1>4. Own' /\ Partner' /\ NewFile'
  BY <1>1, <1>2, <1>3 DEF QInv, Own, Partner, NewFile, cvars, counts
<1>5. \A S : Shift(Putting(S)', Putting(S), Change(from, to, S))
  <2>1. plan' = plan
    BY <1>1 DEF counts
  <2> QED BY <1>1, <1>2, <2>1, PutMove
<1>6. \A S : Shift(Taking(S)', Taking(S), 0)
  BY <1>1, TakeKeep, CountsNat DEF Shift, cvars, counts
<1>7. ppc'[p] = to
  BY <1>1 DEF IInv, TypeOK
<1> QED BY <1>1, <1>2, <1>3, <1>4, <1>5, <1>6, <1>7

\* A call on a semaphore of the producers, and what it changes of the others.
LEMMA ProducerCall ==
    ASSUME IInv, QInv, SetUp, NEW nm \in Names, NEW d \in Int, Changes(psem[nm], d)
    PROVE  /\ Shift(objs'[psem["filled"]].value, objs[psem["filled"]].value,
                    IF nm = "filled" THEN d ELSE 0)
           /\ Shift(objs'[psem["empty"]].value, objs[psem["empty"]].value,
                    IF nm = "empty" THEN d ELSE 0)
<1> SUFFICES ASSUME NEW x \in Names
             PROVE  Shift(objs'[psem[x]].value, objs[psem[x]].value, IF nm = x THEN d ELSE 0)
  BY DEF Names
<1>1. /\ psem[x] \in 1 .. Len(objs) /\ psem[x] \in InUse(x)
      /\ psem[nm] \in 1 .. Len(objs) /\ psem[nm] \in InUse(nm)
  BY OwnObjects DEF QInv
<1>2. psem[x] = psem[nm] <=> x = nm
  BY <1>1, Distinct
<1> QED BY <1>1, <1>2, ValueShift

\* A producer that goes on has values left.
LastPop(p, to) ==
    /\ \A q \in Producers : q # p => pops'[q] = pops[q]
    /\ pops'[p] = pops[p] \/ (pops'[p] = pops[p] - 1 /\ (to = "exit" \/ pops[p] > 1))

LEMMA PCallQ ==
    ASSUME IInv, QInv, NEW p \in Producers, UNCHANGED <<file, index>>, IInv',
           NEW from, NEW to, NEW nm \in Names, NEW d \in Int,
           PMove(p, from, to), Changes(psem[nm], d),
           \/ from = "wait_empty" /\ to = "wait_cs" /\ nm = "empty" /\ d = -1
           \/ from = "wait_cs" /\ to = "load" /\ nm = "cs" /\ d = -1
           \/ from = "post_cs" /\ to = "post_filled" /\ nm = "cs" /\ d = 1
           \/ from = "post_filled" /\ (to = "wait_empty" \/ to = "exit") /\ nm = "filled" /\ d = 1,
           LastPop(p, to)
    PROVE  QInv'
<1>1. pops \in [Producers -> Int]
  BY DEF IInv, TypeOK
<1>2. from \notin {"none", "exit"} /\ "advance" \notin {from, to}
  OBVIOUS
<1>3. /\ pmain = "run" /\ p \in plan.producers /\ p \notin plan.consumers
      /\ ppc[p] = from /\ ppc' = [ppc EXCEPT ![p] = to] /\ ppc'[p] = to
      /\ UNCHANGED <<names, pmain, pstep, psem, cvars, counts>>
      /\ SetUp' = SetUp /\ Own' /\ Partner' /\ NewFile'
      /\ \A S : /\ Shift(Putting(S)', Putting(S), Change(from, to, S))
                /\ Shift(Taking(S)', Taking(S), 0)
  BY <1>2, ProducerFrameQ
<1>5. Pops'
  <2> SUFFICES ASSUME NEW q \in Producers, ppc'[q] \notin {"none", "exit"}
               PROVE  pops'[q] \in 1 .. NUM_OPERATIONS
    BY DEF Pops
  <2>1. CASE q = p
    <3>1. pops[p] \in 1 .. NUM_OPERATIONS
      BY <1>2, <1>3 DEF QInv, Pops
    <3>2. pops'[p] = pops[p] \/ (pops'[p] = pops[p] - 1 /\ pops[p] > 1)
      BY <1>3, <2>1 DEF LastPop
    <3> QED BY <2>1, <3>1, <3>2, Parts
  <2>2. CASE q # p
    BY <1>1, <1>2, <1>3, <2>2 DEF QInv, Pops, IInv, TypeOK, LastPop
  <2> QED BY <2>1, <2>2
<1>6. WriteAt'
  <2>1. \A q \in Producers : ppc'[q] = "advance" <=> ppc[q] = "advance"
    BY <1>2, <1>3 DEF IInv, TypeOK
  <2> QED BY <1>3, <2>1 DEF QInv, WriteAt
<1>7. ReadAt'
  BY <1>3 DEF QInv, ReadAt, cvars, counts
<1>8. Balance'
  <2>1. CASE ~SetUp
    BY <1>3, <2>1 DEF Balance
  <2>2. CASE SetUp
    <3>1. /\ Shift(objs'[psem["filled"]].value, objs[psem["filled"]].value,
                   IF nm = "filled" THEN d ELSE 0)
          /\ Shift(objs'[psem["empty"]].value, objs[psem["empty"]].value,
                   IF nm = "empty" THEN d ELSE 0)
      BY <2>2, ProducerCall
    <3>2. Shift(Waiting', Waiting, 0)
      BY Parts DEF Shift, Waiting
    <3> DEFINE dw == Change(from, to, {"advance", "post_cs", "post_filled"})
               dr == Change(from, to, {"wait_cs", "load", "store"})
               df == IF nm = "filled" THEN d ELSE 0
               de == IF nm = "empty" THEN d ELSE 0
    <3>3. df + 0 + dw <= 0 /\ de + dr + 0 <= -0
      BY DEF Change
    <3>4. /\ Shift(Putting({"advance", "post_cs", "post_filled"})',
                   Putting({"advance", "post_cs", "post_filled"}), dw)
          /\ Shift(Putting({"wait_cs", "load", "store"})',
                   Putting({"wait_cs", "load", "store"}), dr)
          /\ \A S : Shift(Taking(S)', Taking(S), 0)
      BY <1>3
    <3> HIDE DEF dw, dr, df, de
    <3> QED BY <1>3, <2>2, <3>1, <3>2, <3>3, <3>4, BalanceMove DEF df, de
  <2> QED BY <2>1, <2>2
<1> QED BY <1>3, <1>5, <1>6, <1>7, <1>8 DEF QInv

LEMMA PSemQ ==
    ASSUME IInv, QInv, NEW p \in Producers, PSem(p), UNCHANGED <<file, index>>, IInv'
    PROVE  QInv'
<1>1. objs \in Seq([value : Nat]) /\ {"filled", "empty", "cs"} = Names /\ -1 \in Int
  BY DEF IInv, TypeOK, Names
<1>2. pmain = "run"
  BY DEF PSem, PMove, IInv, ProducersRun
<1>3. \A nm \in Names : psem[nm] \in 1 .. Len(objs)
  <2> SUFFICES ASSUME NEW nm \in Names PROVE psem[nm] \in 1 .. Len(objs)
    OBVIOUS
  <2>1. psem[nm] # 0 /\ psem[nm] \in 0 .. Len(objs)
    BY <1>2 DEF IInv, ProducersRun, Handles, InUse, Names
  <2> QED BY <2>1
<1>4. CASE PMove(p, "wait_empty", "wait_cs") /\ SemWait(psem["empty"]) /\ UNCHANGED pops
  <2>1. Changes(psem["empty"], -1)
    BY <1>1, <1>3, <1>4, SemWaitEffect
  <2> QED BY <1>1, <1>4, <2>1, PCallQ DEF LastPop
<1>5. CASE PMove(p, "wait_cs", "load") /\ SemWait(psem["cs"]) /\ UNCHANGED pops
  <2>1. Changes(psem["cs"], -1)
    BY <1>1, <1>3, <1>5, SemWaitEffect
  <2> QED BY <1>1, <1>5, <2>1, PCallQ DEF LastPop
<1>6. CASE PMove(p, "post_cs", "post_filled") /\ SemPost(psem["cs"]) /\ UNCHANGED pops
  <2>1. Changes(psem["cs"], 1)
    BY <1>1, <1>3, <1>6, SemPostEffect
  <2> QED BY <1>1, <1>6, <2>1, PCallQ DEF LastPop
<1>7. CASE /\ PMove(p, "post_filled", IF pops[p] > 1 THEN "wait_empty" ELSE "exit")
           /\ SemPost(psem["filled"]) /\ pops' = [pops EXCEPT ![p] = @ - 1]
  <2>1. Changes(psem["filled"], 1)
    BY <1>1, <1>3, <1>7, SemPostEffect
  <2> DEFINE to == IF pops[p] > 1 THEN "wait_empty" ELSE "exit"
  <2>2. LastPop(p, to)
    BY <1>7 DEF LastPop, IInv, TypeOK
  <2>3. PMove(p, "post_filled", to) /\ (to = "wait_empty" \/ to = "exit")
    BY <1>7
  <2>4. "filled" \in Names /\ 1 \in Int
    BY <1>1
  <2> HIDE DEF to
  <2> QED BY <2>1, <2>2, <2>3, <2>4, PCallQ
<1> QED BY <1>4, <1>5, <1>6, <1>7 DEF PSem

\* A step of writeToBufferFile that stores dw values.
LEMMA WriteMoveQ ==
    ASSUME IInv, QInv, NEW p \in Producers, UNCHANGED <<objs, pops>>, IInv',
           NEW from, NEW to, NEW dw, PMove(p, from, to), Shift(Waiting', Waiting, dw),
           from \in {"load", "store", "advance"}, to \in {"store", "advance", "post_cs"},
           Change(from, to, {"advance", "post_cs", "post_filled"}) <= dw,
           Change(from, to, {"wait_cs", "load", "store"}) <= -dw,
           file'.taken = file.taken, file'.read_index = file.read_index,
           \A t \in Children : t # p => index'[t] = index[t]
    PROVE  /\ WriteAt' => QInv'
           /\ pmain = "run" /\ ppc[p] = from /\ SetUp' = SetUp
           /\ \A q \in Producers : ppc'[q] = IF q = p THEN to ELSE ppc[q]
<1>1. /\ pmain = "run" /\ p \in plan.producers /\ p \notin plan.consumers
      /\ ppc[p] = from /\ ppc' = [ppc EXCEPT ![p] = to] /\ ppc'[p] = to
      /\ UNCHANGED <<names, pmain, pstep, psem, cvars, counts>>
      /\ SetUp' = SetUp /\ Own' /\ Partner' /\ NewFile'
      /\ \A S : /\ Shift(Putting(S)', Putting(S), Change(from, to, S))
                /\ Shift(Taking(S)', Taking(S), 0)
  <2>1. from \notin {"none", "exit"}
    OBVIOUS
  <2> QED BY <2>1, ProducerFrameQ
<1>2. \A q \in Producers : ppc'[q] = IF q = p THEN to ELSE ppc[q]
  BY <1>1 DEF IInv, TypeOK
<1>3. Pops'
  <2>1. \A q \in Producers : ppc'[q] \notin {"none", "exit"} => ppc[q] \notin {"none", "exit"}
    BY <1>1, <1>2
  <2> QED BY <2>1 DEF QInv, Pops
<1>4. ReadAt'
  <2>1. \A c \in Consumers : cpc[c] # "none" => index'[c] = index[c]
    <3>1. \A c \in Consumers : cpc[c] # "none" => c # p /\ c \in Children
      BY <1>1 DEF IInv, ConsumersRun, Children
    <3> QED BY <3>1
  <2>2. BUFFER_SIZE' = BUFFER_SIZE /\ UNCHANGED <<cpc, cmain, cruns, pruns>>
    BY <1>1 DEF cvars, counts
  <2>3. \A c \in Consumers : cpc[c] \in {"read", "advance"} =>
            index'[c] = index[c] /\ Following(index[c])' = Following(index[c])
    BY <2>1, <2>2 DEF Following
  <2> QED BY <1>1, <2>2, <2>3 DEF QInv, ReadAt
<1>5. Balance'
  <2>1. CASE ~SetUp
    BY <1>1, <2>1 DEF Balance
  <2>2. CASE SetUp
    <3> DEFINE dp == Change(from, to, {"advance", "post_cs", "post_filled"})
               dr == Change(from, to, {"wait_cs", "load", "store"})
    <3>1. /\ dp \in Int /\ dr \in Int /\ dw \in Int /\ dp <= dw /\ dr <= -dw
      BY DEF Change, Shift
    <3>2. 0 + 0 + dp <= dw /\ 0 + dr + 0 <= -dw
      <4> HIDE DEF dp, dr
      <4> QED BY <3>1
    <3>3. /\ Shift(Putting({"advance", "post_cs", "post_filled"})',
                   Putting({"advance", "post_cs", "post_filled"}), dp)
          /\ Shift(Putting({"wait_cs", "load", "store"})',
                   Putting({"wait_cs", "load", "store"}), dr)
          /\ \A S : Shift(Taking(S)', Taking(S), 0)
      BY <1>1
    <3>4. /\ Shift(objs'[psem["filled"]].value, objs[psem["filled"]].value, 0)
          /\ Shift(objs'[psem["empty"]].value, objs[psem["empty"]].value, 0)
      <4>1. "filled" \in Names /\ "empty" \in Names
        BY DEF Names
      <4>2. objs[psem["filled"]].value \in Nat /\ objs[psem["empty"]].value \in Nat
        BY <2>2, <4>1, OwnObjects, Value DEF QInv
      <4> QED BY <4>2 DEF Shift
    <3> HIDE DEF dp, dr
    <3> QED BY <1>1, <2>2, <3>2, <3>3, <3>4, BalanceMove
  <2> QED BY <2>1, <2>2
<1> QED BY <1>1, <1>2, <1>3, <1>4, <1>5 DEF QInv

LEMMA WriteQ ==
    ASSUME IInv, QInv, NEW p \in Producers, Writes(p), UNCHANGED <<objs, pops>>, IInv'
    PROVE  QInv'
<1>1. /\ file \in [exists : BOOLEAN, length : 0 .. 2, read_index : Slots, write_index : Slots,
                   cells : [Slots -> Cells], stored : Seq(Cells), taken : Seq(Cells)]
      /\ index \in [Children -> Slots] /\ p \in Children /\ pops \in [Producers -> Int]
  BY DEF IInv, TypeOK, Children
<1>2. /\ Len(file.stored) \in Nat /\ Len(file.taken) \in Nat /\ BUFFER_SIZE \in Nat \ {0}
  BY Parts
<1>3. ppc[p] \in {"load", "store", "advance", "post_cs"} =>
          \A q \in Producers : q # p => ppc[q] # "advance"
  BY OneWriter
<1>4. CASE /\ PMove(p, "load", "store")
           /\ index' = [index EXCEPT ![p] = file.write_index] /\ UNCHANGED file
  <2>1. /\ Shift(Waiting', Waiting, 0)
        /\ Change("load", "store", {"advance", "post_cs", "post_filled"}) <= 0
        /\ Change("load", "store", {"wait_cs", "load", "store"}) <= -0
        /\ \A t \in Children : t # p => index'[t] = index[t]
    BY <1>1, <1>2, <1>4 DEF Shift, Change, Waiting
  <2>2. /\ WriteAt' => QInv'
        /\ pmain = "run" /\ ppc[p] = "load" /\ SetUp' = SetUp
        /\ \A q \in Producers : ppc'[q] = IF q = p THEN "store" ELSE ppc[q]
    BY <1>4, <2>1, WriteMoveQ
  <2>3. WriteAt'
    BY <1>3, <1>4, <2>2 DEF QInv, WriteAt
  <2> QED BY <2>2, <2>3
<1>5. CASE /\ PMove(p, "store", "advance") /\ UNCHANGED index
           /\ file' = [file EXCEPT !.cells[index[p]] = <<p, pops[p]>>,
                               !.stored = Append(@, <<p, pops[p]>>)]
  <2>1. <<p, pops[p]>> \in Cells
    BY <1>1 DEF Cells
  <2>2. /\ file'.stored = Append(file.stored, <<p, pops[p]>>) /\ file'.taken = file.taken
        /\ file'.read_index = file.read_index /\ file'.write_index = file.write_index
    BY <1>1, <1>5
  <2>3. Len(file'.stored) = Len(file.stored) + 1
    BY <1>1, <2>1, <2>2
  <2>4. /\ Shift(Waiting', Waiting, 1)
        /\ Change("store", "advance", {"advance", "post_cs", "post_filled"}) <= 1
        /\ Change("store", "advance", {"wait_cs", "load", "store"}) <= -1
        /\ \A t \in Children : t # p => index'[t] = index[t]
    BY <1>2, <1>5, <2>2, <2>3 DEF Shift, Change, Waiting
  <2>5. /\ WriteAt' => QInv'
        /\ pmain = "run" /\ ppc[p] = "store" /\ SetUp' = SetUp
        /\ \A q \in Producers : ppc'[q] = IF q = p THEN "advance" ELSE ppc[q]
    BY <1>5, <2>2, <2>4, WriteMoveQ
  <2>6. SetUp => Following(index[p]) = (Len(file.stored) + 1) % BUFFER_SIZE
    <3>1. index[p] = file.write_index
      BY <2>5 DEF IInv, WriteIndexStable
    <3>2. SetUp => file.write_index = Len(file.stored) % BUFFER_SIZE
      BY <1>3, <2>5 DEF QInv, WriteAt
    <3> DEFINE n == Len(file.stored)
    <3>3. ((n % BUFFER_SIZE) + 1) % BUFFER_SIZE = (n + 1) % BUFFER_SIZE
      <4>1. n \in Int
        BY <1>2
      <4> HIDE DEF n
      <4> QED BY <1>2, <4>1, ModAdvance
    <3> QED BY <3>1, <3>2, <3>3 DEF Following
  <2>7. \A q \in Producers : ppc'[q] = "advance" <=> q = p
    BY <1>3, <2>5
  <2>8. Following(index[p])' = Following(index[p]) /\ BUFFER_SIZE' = BUFFER_SIZE
    BY <1>5 DEF Following
  <2>9. WriteAt'
    BY <2>3, <2>5, <2>6, <2>7, <2>8 DEF WriteAt
  <2> QED BY <2>5, <2>9
<1>6. CASE /\ PMove(p, "advance", "post_cs") /\ UNCHANGED index
           /\ file' = [file EXCEPT !.write_index = Following(index[p])]
  <2>1. /\ file'.stored = file.stored /\ file'.taken = file.taken
        /\ file'.read_index = file.read_index /\ file'.write_index = Following(index[p])
    BY <1>1, <1>6
  <2>2. /\ Shift(Waiting', Waiting, 0)
        /\ Change("advance", "post_cs", {"advance", "post_cs", "post_filled"}) <= 0
        /\ Change("advance", "post_cs", {"wait_cs", "load", "store"}) <= -0
        /\ \A t \in Children : t # p => index'[t] = index[t]
    BY <1>2, <1>6, <2>1 DEF Shift, Change, Waiting
  <2>3. /\ WriteAt' => QInv'
        /\ pmain = "run" /\ ppc[p] = "advance" /\ SetUp' = SetUp
        /\ \A q \in Producers : ppc'[q] = IF q = p THEN "post_cs" ELSE ppc[q]
    BY <1>6, <2>1, <2>2, WriteMoveQ
  <2>4. SetUp => Following(index[p]) = Len(file.stored) % BUFFER_SIZE
    BY <2>3 DEF QInv, WriteAt
  <2>5. \A q \in Producers : ppc'[q] # "advance"
    BY <1>3, <2>3
  <2>6. WriteAt'
    BY <2>1, <2>3, <2>4, <2>5 DEF WriteAt
  <2> QED BY <2>3, <2>6
<1> QED BY <1>4, <1>5, <1>6 DEF Writes

\* What no move of a consumer touches.
LEMMA ConsumerFrameQ ==
    ASSUME IInv, QInv, NEW c \in Consumers, NEW from, NEW to, CMove(c, from, to),
           from # "none", to # "none"
    PROVE  /\ c \in plan.consumers /\ cpc[c] = from
           /\ \A d \in Consumers : cpc'[d] = IF d = c THEN to ELSE cpc[d]
           /\ UNCHANGED <<names, cmain, cstep, csem, pvars, counts>>
           /\ SetUp' = SetUp /\ Orderly' = Orderly /\ Partner' /\ Pops'
           /\ \A p \in Producers : ppc[p] = "advance" => p # c /\ p \in Children
           /\ \A nm \in Names : csem[nm] \in InUse(nm) /\ csem[nm] \in 1 .. Len(objs)
           /\ Orderly => cruns = pruns \/ cruns < pruns
           /\ SetUp /\ cruns = pruns => csem = psem
           /\ \A S : /\ Shift(Taking(S)', Taking(S),
                              IF cruns = pruns THEN Change(from, to, S) ELSE 0)
                     /\ Shift(Putting(S)', Putting(S), 0)
<1>1. /\ cpc[c] = from /\ cpc' = [cpc EXCEPT ![c] = to]
      /\ UNCHANGED <<names, cmain, cstep, csem, pvars, counts>>
  BY DEF CMove
<1>2. c \in plan.consumers /\ c \notin plan.producers /\ \A nm \in Names : csem[nm] # 0
  BY <1>1, Parts DEF IInv, ConsumersRun
<1>3. Orderly' = Orderly /\ SetUp' = SetUp
  BY <1>1 DEF SetUp, Orderly, pvars, counts
<1>4. \A d \in Consumers : cpc'[d] = IF d = c THEN to ELSE cpc[d]
  BY <1>1 DEF IInv, TypeOK
<1>5. Partner'
  BY <1>1, <1>3 DEF QInv, Partner, pvars, counts
<1>6. Pops'
  BY <1>1 DEF QInv, Pops, pvars
<1>7. \A p \in Producers : ppc[p] = "advance" => p # c /\ p \in Children
  BY <1>2 DEF IInv, ProducersRun, Children
<1>8. \A nm \in Names : csem[nm] \in InUse(nm) /\ csem[nm] \in 1 .. Len(objs)
  <2> SUFFICES ASSUME NEW nm \in Names
               PROVE  csem[nm] \in InUse(nm) /\ csem[nm] \in 1 .. Len(objs)
    OBVIOUS
  <2>1. csem[nm] \in InUse(nm) /\ csem[nm] \in 0 .. Len(objs)
    BY DEF InUse, IInv, Handles
  <2> QED BY <1>2, <2>1
<1>9. Orderly => cruns = pruns \/ cruns < pruns
  BY Parts DEF IInv, Paired
<1>10. SetUp /\ cruns = pruns => csem = psem
  BY <1>1 DEF QInv, Partner
<1>11. \A S : Shift(Taking(S)', Taking(S), IF cruns = pruns THEN Change(from, to, S) ELSE 0)
  <2>1. UNCHANGED counts
    BY <1>1
  <2> QED BY <1>1, <1>2, <2>1, TakeMove
<1>12. \A S : Shift(Putting(S)', Putting(S), 0)
  BY <1>1, PutKeep, CountsNat DEF Shift, pvars, counts
<1> QED BY <1>1, <1>2, <1>3, <1>4, <1>5, <1>6, <1>7, <1>8, <1>9, <1>10, <1>11, <1>12

\* Two names' semaphores differ, whoever has them open, and so do those of
\* consumers of an earlier launch from those the last producer created.
LEMMA OtherThan ==
    ASSUME IInv, NEW x \in Names, NEW y \in Names, x # y, csem[y] # 0
    PROVE  psem[x] # csem[y]
<1>1. csem[y] \in InUse(y) /\ psem[x] \in InUse(x)
  BY DEF InUse
<1> QED BY <1>1, Distinct

LEMMA ConsumerCall ==
    ASSUME IInv, QInv, SetUp, NEW nm \in Names, csem[nm] # 0, NEW d \in Int,
           Changes(csem[nm], d), cruns = pruns => csem = psem, cruns = pruns \/ cruns < pruns
    PROVE  /\ Shift(objs'[psem["filled"]].value, objs[psem["filled"]].value,
                    IF cruns = pruns /\ nm = "filled" THEN d ELSE 0)
           /\ Shift(objs'[psem["empty"]].value, objs[psem["empty"]].value,
                    IF cruns = pruns /\ nm = "empty" THEN d ELSE 0)
<1> SUFFICES ASSUME NEW x \in Names
             PROVE  Shift(objs'[psem[x]].value, objs[psem[x]].value,
                          IF cruns = pruns /\ nm = x THEN d ELSE 0)
  BY DEF Names
<1>1. psem[x] \in 1 .. Len(objs) /\ (cruns < pruns => csem[x] # psem[x])
  BY OwnObjects DEF QInv
<1>2. psem[x] = csem[nm] <=> cruns = pruns /\ x = nm
  <2>1. x # nm => psem[x] # csem[nm]
    BY OtherThan
  <2>2. x = nm /\ cruns < pruns => psem[x] # csem[nm]
    BY <1>1
  <2>3. x = nm /\ cruns = pruns => psem[x] = csem[nm]
    OBVIOUS
  <2>4. cruns < pruns => cruns # pruns
    BY Parts
  <2> QED BY <2>1, <2>2, <2>3, <2>4
<1> QED BY <1>1, <1>2, ValueShift

\* A call of theirs keeps what the producer created until its partner came.
LEMMA ConsumerCallOwn ==
    ASSUME IInv, QInv, NEW nm \in Names, csem[nm] # 0, NEW d, Changes(csem[nm], d),
           UNCHANGED <<names, cmain, cstep, csem, pvars, counts>>
    PROVE  Own'
<1>1. /\ Orderly' = Orderly /\ Latest' = Latest
      /\ \A x \in Names : Created(x)' = Created(x)
  BY DEF Orderly, Latest, Created, pvars, counts
<1>2. ASSUME Latest, NEW x \in Names, Created(x), pmain = "setup"
      PROVE  objs'[psem[x]] = Fresh[x]
  <2>1. cruns < pruns
    BY <1>2, Parts DEF Latest, IInv, Paired
  <2>2. psem[x] # 0 /\ csem[x] # psem[x] /\ objs[psem[x]] = Fresh[x]
    BY <1>2, <2>1 DEF QInv, Own
  <2>3. psem[x] \in 0 .. Len(objs)
    BY DEF InUse, IInv, Handles
  <2>4. psem[x] \in 1 .. Len(objs)
    BY <2>2, <2>3
  <2>5. psem[x] # csem[nm]
    BY <2>2, OtherThan
  <2> QED BY <2>2, <2>4, <2>5 DEF Changes
<1> QED BY <1>1, <1>2 DEF QInv, Own, pvars, counts

LEMMA CCallQ ==
    ASSUME IInv, QInv, NEW c \in Consumers, UNCHANGED <<file, index>>, IInv',
           NEW from, NEW to, NEW nm \in Names, NEW d \in Int,
           CMove(c, from, to), Changes(csem[nm], d),
           \/ from = "wait_filled" /\ to = "wait_cs" /\ nm = "filled" /\ d = -1
           \/ from = "wait_cs" /\ to = "load" /\ nm = "cs" /\ d = -1
           \/ from = "post_cs" /\ to = "post_empty" /\ nm = "cs" /\ d = 1
           \/ from = "post_empty" /\ (to = "wait_filled" \/ to = "exit") /\ nm = "empty" /\ d = 1
    PROVE  QInv'
<1>1. from # "none" /\ to # "none" /\ from \notin {"read", "advance"} /\ to \notin {"read", "advance"}
  OBVIOUS
<1>2. /\ c \in plan.consumers /\ cpc[c] = from
      /\ \A t \in Consumers : cpc'[t] = IF t = c THEN to ELSE cpc[t]
      /\ UNCHANGED <<names, cmain, cstep, csem, pvars, counts>>
      /\ SetUp' = SetUp /\ Orderly' = Orderly /\ Partner' /\ Pops'
      /\ \A x \in Names : csem[x] \in InUse(x) /\ csem[x] \in 1 .. Len(objs)
      /\ Orderly => cruns = pruns \/ cruns < pruns
      /\ SetUp /\ cruns = pruns => csem = psem
      /\ \A S : /\ Shift(Taking(S)', Taking(S),
                         IF cruns = pruns THEN Change(from, to, S) ELSE 0)
                /\ Shift(Putting(S)', Putting(S), 0)
  BY <1>1, ConsumerFrameQ
<1>3. csem[nm] # 0
  BY <1>2
<1>4. Own'
  BY <1>2, <1>3, ConsumerCallOwn
<1>5. NewFile' /\ WriteAt'
  BY <1>2 DEF QInv, NewFile, WriteAt, pvars
<1>6. ReadAt'
  <2>1. \A t \in Consumers : /\ cpc'[t] = "read" <=> cpc[t] = "read"
                             /\ cpc'[t] = "advance" <=> cpc[t] = "advance"
    BY <1>1, <1>2
  <2> QED BY <1>2, <2>1 DEF QInv, ReadAt, counts
<1>7. Balance'
  <2>1. CASE ~SetUp
    BY <1>2, <2>1 DEF Balance
  <2>2. CASE SetUp
    <3> DEFINE df == IF cruns = pruns /\ nm = "filled" THEN d ELSE 0
               de == IF cruns = pruns /\ nm = "empty" THEN d ELSE 0
               dr == IF cruns = pruns THEN Change(from, to, {"wait_cs", "load", "read"}) ELSE 0
               dt == IF cruns = pruns THEN Change(from, to, {"advance", "post_cs", "post_empty"})
                     ELSE 0
    <3>1. /\ Shift(objs'[psem["filled"]].value, objs[psem["filled"]].value, df)
          /\ Shift(objs'[psem["empty"]].value, objs[psem["empty"]].value, de)
      BY <1>2, <1>3, <2>2, ConsumerCall DEF SetUp
    <3>2. Shift(Waiting', Waiting, 0)
      BY Parts DEF Shift, Waiting
    <3>3. df + dr + 0 <= 0 /\ de + 0 + dt <= -0
      BY DEF Change
    <3>4. /\ Shift(Taking({"wait_cs", "load", "read"})', Taking({"wait_cs", "load", "read"}), dr)
          /\ Shift(Taking({"advance", "post_cs", "post_empty"})',
                   Taking({"advance", "post_cs", "post_empty"}), dt)
          /\ \A S : Shift(Putting(S)', Putting(S), 0)
      BY <1>2
    <3>5. psem' = psem
      BY <1>2 DEF pvars
    <3> HIDE DEF df, de, dr, dt
    <3> QED BY <2>2, <3>1, <3>2, <3>3, <3>4, <3>5, BalanceMove
  <2> QED BY <2>1, <2>2
<1> QED BY <1>2, <1>4, <1>5, <1>6, <1>7 DEF QInv

LEMMA CSemQ ==
    ASSUME IInv, QInv, NEW c \in Consumers, CSem(c), UNCHANGED <<file, index>>, IInv'
    PROVE  QInv'
<1>1. objs \in Seq([value : Nat]) /\ {"filled", "empty", "cs"} = Names /\ -1 \in Int
  BY DEF IInv, TypeOK, Names
<1>2. cpc[c] # "none"
  BY DEF CSem, CMove
<1>3. \A nm \in Names : csem[nm] \in 1 .. Len(objs)
  <2> SUFFICES ASSUME NEW nm \in Names PROVE csem[nm] \in 1 .. Len(objs)
    OBVIOUS
  <2>1. csem[nm] # 0 /\ csem[nm] \in 0 .. Len(objs)
    BY <1>2 DEF IInv, ConsumersRun, Handles, InUse
  <2> QED BY <2>1
<1>4. CASE CMove(c, "wait_filled", "wait_cs") /\ SemWait(csem["filled"])
  <2>1. Changes(csem["filled"], -1)
    BY <1>1, <1>3, <1>4, SemWaitEffect
  <2> QED BY <1>1, <1>4, <2>1, CCallQ
<1>5. CASE CMove(c, "wait_cs", "load") /\ SemWait(csem["cs"])
  <2>1. Changes(csem["cs"], -1)
    BY <1>1, <1>3, <1>5, SemWaitEffect
  <2> QED BY <1>1, <1>5, <2>1, CCallQ
<1>6. CASE CMove(c, "post_cs", "post_empty") /\ SemPost(csem["cs"])
  <2>1. Changes(csem["cs"], 1)
    BY <1>1, <1>3, <1>6, SemPostEffect
  <2> QED BY <1>1, <1>6, <2>1, CCallQ
<1>7. CASE /\ CMove(c, "post_empty", IF cops[c] > 1 THEN "wait_filled" ELSE "exit")
           /\ SemPost(csem["empty"])
  <2>1. Changes(csem["empty"], 1)
    BY <1>1, <1>3, <1>7, SemPostEffect
  <2> DEFINE to == IF cops[c] > 1 THEN "wait_filled" ELSE "exit"
  <2>2. CMove(c, "post_empty", to) /\ (to = "wait_filled" \/ to = "exit")
    BY <1>7
  <2>3. "empty" \in Names /\ 1 \in Int
    BY <1>1
  <2> HIDE DEF to
  <2> QED BY <2>1, <2>2, <2>3, CCallQ
<1> QED BY <1>4, <1>5, <1>6, <1>7 DEF CSem

\* A step of readFromBufferFile that takes -dw values.
LEMMA ReadMoveQ ==
    ASSUME IInv, QInv, NEW c \in Consumers, UNCHANGED <<objs, cops>>, IInv',
           NEW from, NEW to, NEW dw, CMove(c, from, to), Shift(Waiting', Waiting, dw),
           from \in {"load", "read", "advance"},
           to \in {"read", "advance", "post_cs", "crashed"},
           Change(from, to, {"wait_cs", "load", "read"}) <= dw,
           Change(from, to, {"advance", "post_cs", "post_empty"}) <= -dw,
           file'.stored = file.stored, file'.write_index = file.write_index,
           \A t \in Children : t # c => index'[t] = index[t]
    PROVE  /\ ReadAt' => QInv'
           /\ cpc[c] = from /\ SetUp' = SetUp /\ cmain = "run"
           /\ SetUp => cruns = pruns
           /\ \A d \in Consumers : /\ cpc'[d] = IF d = c THEN to ELSE cpc[d]
                                   /\ d # c => cpc[d] \notin {"load", "read", "advance"}
<1>1. from # "none" /\ to # "none"
  OBVIOUS
<1>2. /\ c \in plan.consumers /\ cpc[c] = from
      /\ \A t \in Consumers : cpc'[t] = IF t = c THEN to ELSE cpc[t]
      /\ UNCHANGED <<names, cmain, cstep, csem, pvars, counts>>
      /\ SetUp' = SetUp /\ Orderly' = Orderly /\ Partner' /\ Pops'
      /\ \A p \in Producers : ppc[p] = "advance" => p # c /\ p \in Children
      /\ \A S : /\ Shift(Taking(S)', Taking(S),
                         IF cruns = pruns THEN Change(from, to, S) ELSE 0)
                /\ Shift(Putting(S)', Putting(S), 0)
  BY <1>1, ConsumerFrameQ
<1>3. /\ cmain = "run"
      /\ \A d \in Consumers : d # c => cpc[d] \notin {"load", "read", "advance"}
  BY <1>2, OneReader
<1>4. Orderly => cruns = pruns /\ pmain # "setup"
  BY <1>3 DEF IInv, Paired
<1>5. SetUp => cruns = pruns
  BY <1>4 DEF SetUp
<1>6. Own'
  <2>1. /\ Latest' = Latest /\ \A x \in Names : Created(x)' = Created(x)
    BY <1>2 DEF Latest, Created, pvars
  <2> QED BY <1>2, <2>1 DEF QInv, Own, pvars, counts
<1>7. NewFile'
  BY <1>2, <1>4 DEF NewFile, pvars
<1>8. WriteAt'
  <2>1. BUFFER_SIZE' = BUFFER_SIZE /\ UNCHANGED <<pmain, ppc>>
    BY <1>2 DEF pvars
  <2>2. \A p \in Producers : ppc[p] = "advance" => Following(index[p])' = Following(index[p])
    BY <1>2, <2>1 DEF Following
  <2> QED BY <1>2, <2>1, <2>2 DEF QInv, WriteAt
<1>9. Balance'
  <2>1. CASE ~SetUp
    BY <1>2, <2>1 DEF Balance
  <2>2. CASE SetUp
    <3> DEFINE dr == Change(from, to, {"wait_cs", "load", "read"})
               dt == Change(from, to, {"advance", "post_cs", "post_empty"})
    <3>1. dr \in Int /\ dt \in Int /\ dw \in Int /\ dr <= dw /\ dt <= -dw
      BY DEF Change, Shift
    <3>2. 0 + dr + 0 <= dw /\ 0 + 0 + dt <= -dw
      <4> HIDE DEF dr, dt
      <4> QED BY <3>1
    <3>3. /\ Shift(Taking({"wait_cs", "load", "read"})', Taking({"wait_cs", "load", "read"}), dr)
          /\ Shift(Taking({"advance", "post_cs", "post_empty"})',
                   Taking({"advance", "post_cs", "post_empty"}), dt)
          /\ \A S : Shift(Putting(S)', Putting(S), 0)
      BY <1>2, <1>5, <2>2
    <3>4. /\ Shift(objs'[psem["filled"]].value, objs[psem["filled"]].value, 0)
          /\ Shift(objs'[psem["empty"]].value, objs[psem["empty"]].value, 0)
      <4>1. "filled" \in Names /\ "empty" \in Names
        BY DEF Names
      <4>2. objs[psem["filled"]].value \in Nat /\ objs[psem["empty"]].value \in Nat
        BY <2>2, <4>1, OwnObjects, Value DEF QInv
      <4> QED BY <4>2 DEF Shift
    <3>5. psem' = psem
      BY <1>2 DEF pvars
    <3> HIDE DEF dr, dt
    <3> QED BY <2>2, <3>2, <3>3, <3>4, <3>5, BalanceMove
  <2> QED BY <2>1, <2>2
<1> QED BY <1>2, <1>3, <1>5, <1>6, <1>7, <1>8, <1>9 DEF QInv

LEMMA ReadQ ==
    ASSUME IInv, QInv, NEW c \in Consumers, ReadFromBufferFile(c), UNCHANGED <<objs, cops>>,
           IInv'
    PROVE  QInv'
<1>1. /\ file \in [exists : BOOLEAN, length : 0 .. 2, read_index : Slots, write_index : Slots,
                   cells : [Slots -> Cells], stored : Seq(Cells), taken : Seq(Cells)]
      /\ index \in [Children -> Slots] /\ c \in Children
  BY DEF IInv, TypeOK, Children
<1>2. /\ Len(file.stored) \in Nat /\ Len(file.taken) \in Nat /\ BUFFER_SIZE \in Nat \ {0}
  BY Parts
<1>3. CASE /\ CMove(c, "load", "read")
           /\ index' = [index EXCEPT ![c] = file.read_index] /\ UNCHANGED file
  <2>1. /\ Shift(Waiting', Waiting, 0)
        /\ Change("load", "read", {"wait_cs", "load", "read"}) <= 0
        /\ Change("load", "read", {"advance", "post_cs", "post_empty"}) <= -0
        /\ \A t \in Children : t # c => index'[t] = index[t]
    BY <1>1, <1>2, <1>3 DEF Shift, Change, Waiting
  <2>2. /\ ReadAt' => QInv'
        /\ cpc[c] = "load" /\ SetUp' = SetUp /\ cmain = "run"
        /\ SetUp => cruns = pruns
        /\ \A d \in Consumers : /\ cpc'[d] = IF d = c THEN "read" ELSE cpc[d]
                                /\ d # c => cpc[d] \notin {"load", "read", "advance"}
    BY <1>3, <2>1, ReadMoveQ
  <2>3. SetUp => file.read_index = Len(file.taken) % BUFFER_SIZE
    BY <2>2 DEF QInv, ReadAt
  <2>4. index'[c] = file.read_index
    BY <1>1, <1>3
  <2>5. ReadAt'
    BY <1>3, <2>2, <2>3, <2>4 DEF ReadAt
  <2> QED BY <2>2, <2>5
<1>4. CASE CMove(c, "load", "crashed") /\ UNCHANGED <<index, file>>
  <2>1. /\ Shift(Waiting', Waiting, 0)
        /\ Change("load", "crashed", {"wait_cs", "load", "read"}) <= 0
        /\ Change("load", "crashed", {"advance", "post_cs", "post_empty"}) <= -0
        /\ \A t \in Children : t # c => index'[t] = index[t]
    BY <1>2, <1>4 DEF Shift, Change, Waiting
  <2>2. /\ ReadAt' => QInv'
        /\ cpc[c] = "load" /\ SetUp' = SetUp /\ cmain = "run"
        /\ SetUp => cruns = pruns
        /\ \A d \in Consumers : /\ cpc'[d] = IF d = c THEN "crashed" ELSE cpc[d]
                                /\ d # c => cpc[d] \notin {"load", "read", "advance"}
    BY <1>4, <2>1, ReadMoveQ
  <2>3. SetUp => file.read_index = Len(file.taken) % BUFFER_SIZE
    BY <2>2 DEF QInv, ReadAt
  <2>4. ReadAt'
    BY <1>4, <2>2, <2>3 DEF ReadAt
  <2> QED BY <2>2, <2>4
<1>5. CASE /\ CMove(c, "read", "advance") /\ UNCHANGED index
           /\ file' = [file EXCEPT !.taken = Append(@, file.cells[index[c]])]
  <2> DEFINE n == Len(file.taken)
  <2>1. /\ file'.taken = Append(file.taken, file.cells[index[c]])
        /\ file'.stored = file.stored /\ file.cells[index[c]] \in Cells
        /\ file'.read_index = file.read_index /\ file'.write_index = file.write_index
    BY <1>1, <1>5
  <2>2. Len(file'.taken) = n + 1
    BY <1>1, <2>1
  <2>3. /\ Shift(Waiting', Waiting, -1)
        /\ Change("read", "advance", {"wait_cs", "load", "read"}) <= -1
        /\ Change("read", "advance", {"advance", "post_cs", "post_empty"}) <= -(-1)
        /\ \A t \in Children : t # c => index'[t] = index[t]
    <3>1. Waiting' = Waiting + (-1) /\ -1 \in Int
      BY <1>2, <2>1, <2>2 DEF Waiting
    <3>2. /\ Change("read", "advance", {"wait_cs", "load", "read"}) = -1
          /\ Change("read", "advance", {"advance", "post_cs", "post_empty"}) = 1
      BY DEF Change
    <3>3. \A t \in Children : t # c => index'[t] = index[t]
      BY <1>5
    <3> QED BY <3>1, <3>2, <3>3 DEF Shift
  <2>4. /\ ReadAt' => QInv'
        /\ cpc[c] = "read" /\ SetUp' = SetUp /\ cmain = "run"
        /\ SetUp => cruns = pruns
        /\ \A d \in Consumers : /\ cpc'[d] = IF d = c THEN "advance" ELSE cpc[d]
                                /\ d # c => cpc[d] \notin {"load", "read", "advance"}
    BY <1>5, <2>1, <2>3, ReadMoveQ
  <2>5. SetUp => Following(index[c]) = (n + 1) % BUFFER_SIZE
    <3>1. SetUp => index[c] = n % BUFFER_SIZE
      BY <2>4 DEF QInv, ReadAt
    <3>2. ((n % BUFFER_SIZE) + 1) % BUFFER_SIZE = (n + 1) % BUFFER_SIZE
      <4>1. n \in Int
        BY <1>2
      <4> HIDE DEF n
      <4> QED BY <1>2, <4>1, ModAdvance
    <3> QED BY <3>1, <3>2 DEF Following
  <2>6. Following(index[c])' = Following(index[c]) /\ BUFFER_SIZE' = BUFFER_SIZE
    BY <1>5 DEF Following
  <2>7. \A d \in Consumers : /\ cpc'[d] = "advance" <=> d = c
                             /\ cpc'[d] # "read"
    BY <2>4
  <2>8. ReadAt'
    BY <2>2, <2>4, <2>5, <2>6, <2>7 DEF ReadAt
  <2> QED BY <2>4, <2>8
<1>6. CASE /\ CMove(c, "advance", "post_cs") /\ UNCHANGED index
           /\ file' = [file EXCEPT !.read_index = Following(index[c]),
                                   !.length = IF @ = 0 THEN 1 ELSE @]
  <2>1. /\ file'.stored = file.stored /\ file'.taken = file.taken
        /\ file'.write_index = file.write_index /\ file'.read_index = Following(index[c])
    BY <1>1, <1>6
  <2>2. /\ Shift(Waiting', Waiting, 0)
        /\ Change("advance", "post_cs", {"wait_cs", "load", "read"}) <= 0
        /\ Change("advance", "post_cs", {"advance", "post_cs", "post_empty"}) <= -0
        /\ \A t \in Children : t # c => index'[t] = index[t]
    BY <1>2, <1>6, <2>1 DEF Shift, Change, Waiting
  <2>3. /\ ReadAt' => QInv'
        /\ cpc[c] = "advance" /\ SetUp' = SetUp /\ cmain = "run"
        /\ SetUp => cruns = pruns
        /\ \A d \in Consumers : /\ cpc'[d] = IF d = c THEN "post_cs" ELSE cpc[d]
                                /\ d # c => cpc[d] \notin {"load", "read", "advance"}
    BY <1>6, <2>1, <2>2, ReadMoveQ
  <2>4. SetUp => Following(index[c]) = Len(file.taken) % BUFFER_SIZE
    BY <2>3 DEF QInv, ReadAt
  <2>5. \A d \in Consumers : cpc'[d] \notin {"read", "advance"}
    BY <2>3
  <2>6. ReadAt'
    BY <2>1, <2>3, <2>4, <2>5 DEF ReadAt
  <2> QED BY <2>3, <2>6
<1> QED BY <1>3, <1>4, <1>5, <1>6 DEF ReadFromBufferFile

-----------------------------------------------------------------------------
LEMMA InitiallyQ ==
    ASSUME Init
    PROVE  QInv
<1>1. ~SetUp /\ pstep = 1 /\ pmain = "idle" /\ cmain = "idle"
  BY SetupCalls DEF Init, SetUp
<1>2. \A p \in Producers : ppc[p] = "none"
  BY DEF Init
<1> QED BY <1>1, <1>2 DEF QInv, Own, Latest, Partner, NewFile, Balance, WriteAt, ReadAt, Pops

LEMMA InductiveQ ==
    ASSUME IInv, QInv, IInv', [Next]_vars
    PROVE  QInv'
<1>1. CASE UNCHANGED vars
  <2>1. /\ UNCHANGED <<names, objs, file, index, plan, pruns, cruns, kills>>
        /\ UNCHANGED <<pmain, pstep, psem, ppc, pops>>
        /\ UNCHANGED <<cmain, cstep, csem, cpc, cops>>
    BY <1>1 DEF vars, counts, pvars, cvars
  <2>2. /\ SetUp' = SetUp /\ Orderly' = Orderly /\ Latest' = Latest
        /\ \A nm \in Names : Created(nm)' = Created(nm)
    BY <2>1 DEF SetUp, Orderly, Latest, Created
  <2>3. Own' /\ Partner' /\ NewFile' /\ WriteAt' /\ ReadAt' /\ Pops'
    BY <2>1, <2>2 DEF QInv, Own, Partner, NewFile, WriteAt, ReadAt, Pops
  <2>4. Balance'
    <3>1. \A S : Putting(S)' <= Putting(S) /\ Taking(S)' <= Taking(S)
      BY <2>1, CountsNat, PutKeep, TakeKeep
    <3> QED BY <2>1, <2>2, <3>1, BalanceKeep DEF QInv
  <2> QED BY <2>3, <2>4 DEF QInv
<1>2. CASE Programs
  BY <1>2, LaunchProducerQ, SetupQ, ProducerEndsQ, LaunchConsumerQ, ConnectQ,
     ConsumerEndsQ, DestroyQ DEF Programs
<1>3. CASE KillProducer \/ KillConsumer
  BY <1>3, ProducerEndsQ, ConsumerEndsQ
<1>4. CASE Terminated
  BY <1>1, <1>4 DEF Terminated
<1>5. CASE \E p \in Producers : Producer(p)
  BY <1>5, PSemQ, WritesOnly, WriteQ DEF Producer
<1>6. CASE \E c \in Consumers : Consumer(c)
  BY <1>6, CSemQ, ReadQ DEF Consumer
<1> QED BY <1>1, <1>2, <1>3, <1>4, <1>5, <1>6 DEF Next

-----------------------------------------------------------------------------
(* The file implements the queue. *)

\* The queue and what was delivered, as the refinement mapping reads them.
Content == IF ~SetUp THEN <<>>
           ELSE Window(file.cells, BUFFER_SIZE, Len(file.taken),
                       Len(file.stored) - Len(file.taken))
Delivered == IF SetUp THEN file.taken ELSE <<>>

\* How the two change, and which step of the queue that is.
LEMMA AsStutter ==
    ASSUME Content' = Content, Delivered' = Delivered
    PROVE  UNCHANGED Queue!queueVars
BY DEF Queue!queueVars, Content, Delivered

LEMMA AsRenew ==
    ASSUME ~SetUp'
    PROVE  \E b \in {"file"} : Queue!Renew(b)
BY DEF Queue!Renew

LEMMA AsPut ==
    ASSUME NEW v \in Producers \X (1 .. NUM_OPERATIONS), Len(Content) < BUFFER_SIZE,
           Content' = Append(Content, v), Delivered' = Delivered
    PROVE  Queue!QueueNext
<1>1. Queue!Put("file", v)
  BY DEF Queue!Put, Content, Delivered
<1> QED BY <1>1 DEF Queue!QueueNext

LEMMA AsTake ==
    ASSUME Content # <<>>, Content' = Tail(Content),
           Delivered' = Append(Delivered, Head(Content))
    PROVE  Queue!QueueNext
<1>1. Queue!Take("file")
  BY DEF Queue!Take, Content, Delivered
<1> QED BY <1>1 DEF Queue!QueueNext

\* The store into the array puts the value, and there is room for it.
LEMMA StorePuts ==
    ASSUME IInv, QInv, SetUp, SetUp', NEW p \in Producers, PMove(p, "store", "advance"),
           UNCHANGED index,
           file' = [file EXCEPT !.cells[index[p]] = <<p, pops[p]>>,
                                !.stored = Append(@, <<p, pops[p]>>)]
    PROVE  Queue!QueueNext
<1> DEFINE v == <<p, pops[p]>>
           slot == index[p]
           first == Len(file.taken)
           array == file.cells
           new == file'.cells
<1>1. /\ file \in [exists : BOOLEAN, length : 0 .. 2, read_index : Slots, write_index : Slots,
                   cells : [Slots -> Cells], stored : Seq(Cells), taken : Seq(Cells)]
      /\ pops \in [Producers -> Int] /\ slot \in Slots
  BY DEF IInv, TypeOK, Children
<1>2. /\ first \in Nat /\ Len(file.stored) \in Nat /\ BUFFER_SIZE \in Nat \ {0}
      /\ Waiting \in Int
  BY Parts
<1>3. ppc[p] = "store" /\ p \in plan.producers /\ pmain = "run"
  BY DEF PMove, IInv, ProducersRun
<1>4. v \in Producers \X (1 .. NUM_OPERATIONS) /\ v \in Cells
  BY <1>1, <1>3 DEF QInv, Pops, Cells
<1>5. slot = Len(file.stored) % BUFFER_SIZE
  <2>1. \A q \in Producers : ppc[q] # "advance"
    BY <1>3, OneWriter
  <2>2. slot = file.write_index
    BY <1>3 DEF IInv, WriteIndexStable
  <2> QED BY <1>3, <2>1, <2>2 DEF QInv, WriteAt
<1>6. Waiting \in Nat /\ Waiting < BUFFER_SIZE
  <2> DEFINE TR == Taking({"wait_cs", "load", "read"})
             PW == Putting({"advance", "post_cs", "post_filled"})
             PR == Putting({"wait_cs", "load", "store"})
             TW == Taking({"advance", "post_cs", "post_empty"})
             f == objs[psem["filled"]].value
             e == objs[psem["empty"]].value
  <2>1. f + TR + PW <= Waiting /\ e + PR + TW <= BUFFER_SIZE - Waiting
    BY DEF QInv, Balance
  <2>2. TR \in Nat /\ PW \in Nat /\ PR \in Nat /\ TW \in Nat
    BY CountsNat
  <2>3. f \in Nat /\ e \in Nat
    <3>1. "filled" \in Names /\ "empty" \in Names
      BY DEF Names
    <3> QED BY <3>1, OwnObjects, Value DEF QInv
  <2>4. PR >= 1
    <3> DEFINE all == plan.producers
               pos == ppc
               S == {"wait_cs", "load", "store"}
    <3>1. IsFiniteSet(all) /\ p \in all /\ pos[p] \in S
      BY <1>3, Parts
    <3> HIDE DEF all, pos, S
    <3>2. Count(all, pos, S) >= 1
      BY <3>1, CountOne
    <3> QED BY <3>2 DEF Putting, all, pos, S
  <2> HIDE DEF TR, PW, PR, TW, f, e
  <2> QED BY <1>2, <2>1, <2>2, <2>3, <2>4
<1>7. /\ new = [array EXCEPT ![slot] = v] /\ file'.taken = file.taken
      /\ file'.stored = Append(file.stored, v)
  BY <1>1
<1>8. Len(file'.stored) - Len(file'.taken) = Waiting + 1
  BY <1>1, <1>2, <1>4, <1>7 DEF Waiting
<1>9. Content = Window(array, BUFFER_SIZE, first, Waiting)
  BY DEF Content, Waiting
<1>10. Content' = Window(new, BUFFER_SIZE, first, Waiting + 1)
  BY <1>7, <1>8 DEF Content
<1>11. Len(Content) < BUFFER_SIZE
  <2>1. Len(Content) = Waiting
    BY <1>6, <1>9, WindowLen
  <2> QED BY <1>6, <2>1
<1>12. Content' = Append(Content, v)
  <2>1. StoredIn(Cells, array, new, BUFFER_SIZE, slot, v)
    BY <1>1, <1>4, <1>7 DEF StoredIn, Slots
  <2>2. slot = (first + Waiting) % BUFFER_SIZE
    <3>1. first + Waiting = Len(file.stored)
      BY <1>2 DEF Waiting
    <3> QED BY <1>5, <3>1
  <2> DEFINE count == Waiting
  <2>3. v \in Cells /\ first \in Nat /\ count \in Nat /\ count < BUFFER_SIZE
    BY <1>2, <1>4, <1>6
  <2>4. slot = (first + count) % BUFFER_SIZE /\ BUFFER_SIZE \in Nat \ {0}
    BY <1>2, <2>2
  <2> HIDE DEF v, slot, first, array, new, count
  <2>5. Grows(array, new, BUFFER_SIZE, first, count, v)
    BY <2>1, <2>3, <2>4, WindowAppend
  <2> QED BY <1>9, <1>10, <2>5 DEF Grows, count
<1>13. Delivered' = Delivered
  BY <1>7 DEF Delivered
<1> HIDE DEF v
<1> QED BY <1>4, <1>11, <1>12, <1>13, AsPut

\* The read of the array takes the oldest value.
LEMMA ReadTakes ==
    ASSUME IInv, QInv, SetUp, SetUp', NEW c \in Consumers, CMove(c, "read", "advance"),
           UNCHANGED index,
           file' = [file EXCEPT !.taken = Append(@, file.cells[index[c]])]
    PROVE  Queue!QueueNext
<1> DEFINE first == Len(file.taken)
           array == file.cells
<1>1. /\ file \in [exists : BOOLEAN, length : 0 .. 2, read_index : Slots, write_index : Slots,
                   cells : [Slots -> Cells], stored : Seq(Cells), taken : Seq(Cells)]
      /\ index[c] \in Slots
  BY DEF IInv, TypeOK, Children
<1>2. /\ first \in Nat /\ Len(file.stored) \in Nat /\ BUFFER_SIZE \in Nat \ {0}
      /\ Waiting \in Int
  BY Parts
<1>3. cpc[c] = "read" /\ c \in plan.consumers /\ cruns = pruns
  <2>1. cpc[c] = "read" /\ c \in plan.consumers
    BY DEF CMove, IInv, ConsumersRun
  <2>2. cmain = "run"
    BY <2>1, OneReader
  <2> QED BY <2>1, <2>2 DEF SetUp, IInv, Paired
<1>4. index[c] = first % BUFFER_SIZE
  BY <1>3 DEF QInv, ReadAt
<1>5. Waiting \in Nat /\ Waiting > 0
  <2> DEFINE TR == Taking({"wait_cs", "load", "read"})
             PW == Putting({"advance", "post_cs", "post_filled"})
             f == objs[psem["filled"]].value
  <2>1. f + TR + PW <= Waiting
    BY DEF QInv, Balance
  <2>2. TR \in Nat /\ PW \in Nat
    BY CountsNat
  <2>3. f \in Nat
    <3>1. "filled" \in Names
      BY DEF Names
    <3> QED BY <3>1, OwnObjects, Value DEF QInv
  <2>4. TR >= 1
    <3> DEFINE all == plan.consumers
               pos == cpc
               S == {"wait_cs", "load", "read"}
    <3>1. IsFiniteSet(all) /\ c \in all /\ pos[c] \in S
      BY <1>3, Parts
    <3> HIDE DEF all, pos, S
    <3>2. Count(all, pos, S) >= 1
      BY <3>1, CountOne
    <3> QED BY <1>3, <3>2 DEF Taking, all, pos, S
  <2> HIDE DEF TR, PW, f
  <2> QED BY <1>2, <2>1, <2>2, <2>3, <2>4
<1>6. /\ file'.cells = array /\ file'.stored = file.stored
      /\ file'.taken = Append(file.taken, array[index[c]])
      /\ array[index[c]] \in Cells
  BY <1>1
<1>7. Len(file'.taken) = first + 1
  BY <1>1, <1>6
<1>8. Len(file'.stored) - Len(file'.taken) = Waiting - 1
  <2> DEFINE m == Len(file.stored)
             n == Len(file'.taken)
  <2>1. Waiting = m - first /\ m \in Nat /\ first \in Nat /\ n = first + 1
    BY <1>2, <1>7 DEF Waiting
  <2>2. Len(file'.stored) = m
    BY <1>6
  <2> HIDE DEF m, n, first
  <2>3. m - n = Waiting - 1
    BY <2>1
  <2> QED BY <2>2, <2>3 DEF n
<1>9. Content = Window(array, BUFFER_SIZE, first, Waiting)
  BY DEF Content, Waiting
<1>10. Content' = Window(array, BUFFER_SIZE, first + 1, Waiting - 1)
  BY <1>6, <1>7, <1>8 DEF Content
<1>11. /\ Content # <<>> /\ Head(Content) = array[first % BUFFER_SIZE]
       /\ Shrinks(array, BUFFER_SIZE, first, Waiting)
  <2> HIDE DEF first, array
  <2> QED BY <1>2, <1>5, <1>9, WindowTake
<1>12. Content' = Tail(Content)
  BY <1>9, <1>10, <1>11 DEF Shrinks
<1>13. Delivered' = Append(Delivered, Head(Content))
  BY <1>4, <1>6, <1>11 DEF Delivered
<1> QED BY <1>11, <1>12, <1>13, AsTake

\* What leaves the array and its history alone is no step of the queue.
LEMMA AsNothing ==
    ASSUME SetUp' = SetUp, file'.cells = file.cells, file'.stored = file.stored,
           file'.taken = file.taken
    PROVE  UNCHANGED Queue!queueVars
<1>1. Content' = Content /\ Delivered' = Delivered
  BY DEF Content, Delivered
<1> QED BY <1>1, AsStutter

\* The end of the set-up: the file is new, as the queue has been since the
\* launch.
LEMMA SetUpEnds ==
    ASSUME IInv, QInv, SetupStep
    PROVE  ~SetUp /\ UNCHANGED Queue!queueVars
<1>1. /\ pmain = "setup" /\ pstep \in 1 .. 8 /\ pstep' = pstep + 1
      /\ UNCHANGED <<cvars, index, counts>>
  BY SetupFrame
<1>2. ~SetUp /\ (SetUp' => pstep = 8 /\ Orderly)
  BY <1>1, SetupCalls DEF SetUp, Orderly, counts
<1>3. Content = <<>> /\ Delivered = <<>>
  BY <1>2 DEF Content, Delivered
<1>4. CASE SetUp'
  <2>1. file' = file
    BY <1>2, <1>4, CreateEffect
  <2>2. file.stored = <<>> /\ file.taken = <<>>
    BY <1>1, <1>2, <1>4 DEF QInv, NewFile
  <2>3. Content' = Window(file'.cells, BUFFER_SIZE, 0, 0) /\ Delivered' = <<>>
    BY <1>4, <2>1, <2>2 DEF Content, Delivered
  <2> QED BY <1>2, <1>3, <2>3, AsStutter, WindowEmpty
<1>5. CASE ~SetUp'
  <2>1. Content' = <<>> /\ Delivered' = <<>>
    BY <1>5 DEF Content, Delivered
  <2> QED BY <1>2, <1>3, <2>1, AsStutter
<1> QED BY <1>4, <1>5

LEMMA StepImplements ==
    ASSUME IInv, QInv, [Next]_vars
    PROVE  [Queue!QueueNext \/ \E b \in {"file"} : Queue!Renew(b)]_Queue!queueVars
<1>1. CASE LaunchProducer
  <2>1. ~SetUp'
    BY <1>1, SetupCalls DEF LaunchProducer, SetUp
  <2> QED BY <2>1, AsRenew
<1>2. CASE SetupStep
  BY <1>2, SetUpEnds
<1>3. CASE UNCHANGED <<file, pstep, plan>>
  <2>1. SetUp' = SetUp
    BY <1>3 DEF SetUp, Orderly
  <2> QED BY <1>3, <2>1, AsNothing
<1>4. CASE \/ JoinProducers \/ LaunchConsumer \/ ConnectStep \/ JoinConsumers \/ DestroyStep
           \/ ConsumerFails \/ KillProducer \/ KillConsumer \/ Terminated \/ UNCHANGED vars
  <2>1. UNCHANGED <<file, pstep, plan>>
    BY <1>4 DEF JoinProducers, LaunchConsumer, ConnectStep, JoinConsumers, DestroyStep,
                ConsumerFails, KillProducer, KillConsumer, Terminated, vars, pvars, counts
  <2> QED BY <1>3, <2>1
<1>5. ASSUME NEW p \in Producers, Producer(p)
      PROVE  [Queue!QueueNext]_Queue!queueVars
  <2>0. (PSem(p) /\ UNCHANGED <<file, index>>) \/ (Writes(p) /\ UNCHANGED <<objs, pops>>)
    BY <1>5, WritesOnly DEF Producer
  <2>1. UNCHANGED <<pstep, plan>>
    BY <2>0 DEF PSem, Writes, PMove, counts
  <2>2. SetUp' = SetUp
    BY <2>1 DEF SetUp, Orderly
  <2>3. CASE UNCHANGED file
    BY <2>2, <2>3, AsNothing
  <2>4. CASE /\ PMove(p, "store", "advance") /\ UNCHANGED index
             /\ file' = [file EXCEPT !.cells[index[p]] = <<p, pops[p]>>,
                                     !.stored = Append(@, <<p, pops[p]>>)]
    <3>1. CASE SetUp
      BY <2>2, <2>4, <3>1, StorePuts
    <3>2. CASE ~SetUp
      <4>1. Content' = Content /\ Delivered' = Delivered
        BY <2>2, <3>2 DEF Content, Delivered
      <4> QED BY <4>1, AsStutter
    <3> QED BY <3>1, <3>2
  <2>5. CASE file' = [file EXCEPT !.write_index = Following(index[p])]
    <3>1. file'.cells = file.cells /\ file'.stored = file.stored /\ file'.taken = file.taken
      BY <2>5 DEF IInv, TypeOK
    <3> QED BY <2>2, <3>1, AsNothing
  <2> QED BY <2>0, <2>3, <2>4, <2>5 DEF Writes
<1>6. ASSUME NEW c \in Consumers, Consumer(c)
      PROVE  [Queue!QueueNext]_Queue!queueVars
  <2>1. UNCHANGED <<pstep, plan>>
    BY <1>6 DEF Consumer, CSem, ReadFromBufferFile, CMove, pvars, counts
  <2>2. SetUp' = SetUp
    BY <2>1 DEF SetUp, Orderly
  <2>3. CASE UNCHANGED file
    BY <2>2, <2>3, AsNothing
  <2>4. CASE /\ CMove(c, "read", "advance") /\ UNCHANGED index
             /\ file' = [file EXCEPT !.taken = Append(@, file.cells[index[c]])]
    <3>1. CASE SetUp
      BY <2>2, <2>4, <3>1, ReadTakes
    <3>2. CASE ~SetUp
      <4>1. Content' = Content /\ Delivered' = Delivered
        BY <2>2, <3>2 DEF Content, Delivered
      <4> QED BY <4>1, AsStutter
    <3> QED BY <3>1, <3>2
  <2>5. CASE file' = [file EXCEPT !.read_index = Following(index[c]),
                                  !.length = IF @ = 0 THEN 1 ELSE @]
    <3>1. file'.cells = file.cells /\ file'.stored = file.stored /\ file'.taken = file.taken
      BY <2>5 DEF IInv, TypeOK
    <3> QED BY <2>2, <3>1, AsNothing
  <2> QED BY <1>6, <2>3, <2>4, <2>5 DEF Consumer, ReadFromBufferFile
<1> QED BY <1>1, <1>2, <1>4, <1>5, <1>6 DEF Next, Programs

\* The children of two programs, three semaphores that are replaced while an
\* older launch may still have its own open, and an array in a file: together
\* they are a FIFO of BUFFER_SIZE values that the launches renew, each value
\* read once and in the order of the stores, whatever is killed, as long as
\* the user launches the programs in order.
THEOREM FileIsQueue == Spec => ImplementsQueue
<1>1. Init => IInv /\ QInv /\ Queue!QueueInit
  <2> SUFFICES ASSUME Init PROVE IInv /\ QInv /\ Queue!QueueInit
    OBVIOUS
  <2>1. ~SetUp
    BY SetupCalls DEF Init, SetUp
  <2>2. Queue!QueueInit
    BY <2>1 DEF Queue!QueueInit
  <2> QED BY <2>2, Initially, InitiallyQ
<1>2. IInv /\ QInv /\ [Next]_vars => IInv' /\ QInv'
  BY Inductive, InductiveQ
<1>3. IInv /\ QInv /\ [Next]_vars =>
          [Queue!QueueNext \/ \E b \in {"file"} : Queue!Renew(b)]_Queue!queueVars
  BY StepImplements
<1> QED BY <1>1, <1>2, <1>3, PTL DEF Spec, ImplementsQueue, Queue!RenewedSpec
=============================================================================
