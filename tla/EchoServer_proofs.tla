-------------------------- MODULE EchoServer_proofs --------------------------
(***************************************************************************)
(* Proofs about EchoServer: what a client is sent is its own address and   *)
(* then the lines of its own user, a connection that is over is closed by  *)
(* every process, and a process per connection isolates the connections.   *)
(***************************************************************************)
EXTENDS EchoServer, SequenceTheorems, TLAPS

-----------------------------------------------------------------------------
(* The inductive invariant. *)

Units == ({"line", "quit", "nl"} \X Nat) \cup ({"hi"} \X (Clients \cup {"zero", "freed"}))
Processes == Clients \cup {"main"}

TypeOK ==
    /\ server \in {"first", "serial", "mproc", "mthread"}
    /\ backlog \in Seq(Clients)
    /\ mpc \in {"accept", "dispatch", "called", "parent", "alloc", "dead", "failed"}
    /\ cur \in Clients /\ slot \in Nat \ {0}
    /\ addrs \in Seq(Clients \cup {"zero", "freed"})
    /\ hpc \in [Clients -> {"none", "start", "send", "recv", "close", "done"}]
    /\ arg \in [Clients -> Nat]
    /\ hbuf \in [Clients -> Seq(Units)] /\ out \in [Clients -> Seq(Units)]
    /\ holders \in [Clients -> SUBSET Processes] /\ dead \subseteq Processes
    /\ c2s \in [Clients -> Seq(Units)] /\ s2c \in [Clients -> Seq(Units)]
    /\ reset \in [Clients -> BOOLEAN]
    /\ cpc \in [Clients -> {"start", "welcome", "prompt", "response", "cut", "gone"}]
    /\ cbuf \in [Clients -> Seq(Units)] /\ shown \in [Clients -> Seq(Units)]
    /\ typed \in [Clients -> Nat]

Live == {"start", "send", "recv", "close"}
Calls == server \in {"first", "serial"}

\* Where the main loop of each server can be, and how many handlers it has.
Loops ==
    /\ Calls => /\ mpc \in {"accept", "dispatch", "called", "dead"}
                /\ \A c \in Clients : hpc[c] \in Live => mpc = "called" /\ cur = c
    /\ server = "mproc" => mpc \in {"accept", "dispatch", "parent", "failed"}
    /\ server = "mthread" => mpc \in {"accept", "dispatch", "alloc", "dead", "failed"}

\* A client waits once in the queue, before it is handled.
Queued ==
    /\ \A i \in DOMAIN backlog :
          /\ hpc[backlog[i]] = "none" /\ cpc[backlog[i]] # "start"
          /\ mpc = "dispatch" => backlog[i] # cur
    /\ \A i, j \in DOMAIN backlog : backlog[i] = backlog[j] => i = j
    /\ mpc = "dispatch" => hpc[cur] = "none" /\ cpc[cur] # "start"
    /\ \A c \in Clients : hpc[c] # "none" => cpc[c] # "start"

\* Who holds a connection.
Held ==
    /\ mpc = "dispatch" => "main" \in holders[cur]
    /\ \A c \in Clients :
          /\ hpc[c] = "none" /\ holders[c] # {} =>
                mpc = "dispatch" /\ cur = c /\ holders[c] = {"main"}
          /\ hpc[c] \in Live => ProcessOf(c) \in holders[c]
          /\ hpc[c] = "done" => ProcessOf(c) \notin holders[c]
          /\ holders[c] \subseteq {"main", ProcessOf(c)}
          /\ server = "mproc" /\ "main" \in holders[c] =>
                mpc \in {"dispatch", "parent"} /\ cur = c

\* Every handler still finds its client's address where main left it.
Addresses ==
    /\ slot \in DOMAIN addrs
    /\ mpc = "dispatch" => addrs[slot] = cur
    /\ \A c \in Clients :
          /\ hpc[c] # "none" => arg[c] \in DOMAIN addrs
          /\ hpc[c] = "start" => addrs[arg[c]] = c
    /\ server # "mthread" => slot = 1
    /\ server = "mproc" => \A c \in Clients : hpc[c] # "none" => arg[c] # 1
    /\ server = "mthread" =>
          /\ slot = Len(addrs)
          /\ \A c \in Clients : hpc[c] # "none" /\ mpc \in {"accept", "dispatch"} => arg[c] # slot
          /\ \A c, d \in Clients :
                hpc[c] # "none" /\ hpc[d] # "none" /\ arg[c] = arg[d] => c = d

\* What the client of c is to be sent, and what is on its way to it.
Stream(c) == Welcome(c) \o TypedUnits(c)
InTransit(c) == out[c] \o (hbuf[c] \o c2s[c])
Begins(s, t) == Len(s) <= Len(t) /\ \A i \in 1 .. Len(s) : s[i] = t[i]

Unstarted(c) ==
    /\ cpc[c] \in {"start", "welcome", "gone"} /\ typed[c] = 0
    /\ shown[c] = <<>> /\ cbuf[c] = <<>> /\ s2c[c] = <<>>
    /\ out[c] = <<>> /\ hbuf[c] = <<>>
    /\ ~Gone(c) => c2s[c] = <<>>

\* In the server of 07 the client has been shown all there is at its prompt.
Turns(c) ==
    /\ cpc[c] = "welcome" => Len(shown[c]) = 0 /\ typed[c] = 0
    /\ cpc[c] = "prompt" => Len(shown[c]) = 1 + 2 * typed[c]
    /\ cpc[c] = "response" => Len(shown[c]) = 2 * typed[c] - 1

\* After a line without a newline no newline comes, and nothing is sent back.
Cut(c) ==
    /\ hpc[c] = "recv" /\ s2c[c] = <<>>
    /\ \A i \in 1 .. Len(c2s[c]) : c2s[c][i] # NL

Echoes(c) ==
    /\ Begins(Sent(c), Stream(c))
    /\ hpc[c] = "start" \/ (hpc[c] = "none" /\ ~Orphan(c)) => Unstarted(c)
    /\ hpc[c] = "recv" => out[c] = <<>>
    /\ hpc[c] = "send" => hbuf[c] = <<>> /\ out[c] # <<>>
    /\ hpc[c] = "close" => Gone(c)
    /\ hpc[c] \in {"send", "recv"} /\ cpc[c] = "cut" => Cut(c)
    /\ hpc[c] \in {"send", "recv"} /\ cpc[c] \notin {"gone", "cut"} =>
          /\ Sent(c) \o InTransit(c) = Stream(c)
          /\ server = "first" => Turns(c)

Conserved == \A c \in Clients : Echoes(c)

\* A process that has died had its connection reset by its client.
Resets ==
    /\ \A c \in Clients : reset[c] => Gone(c)
    /\ server = "mproc" => \A p \in dead \ {"main"} : reset[p]

IInv == TypeOK /\ Loops /\ Queued /\ Held /\ Addresses /\ Conserved /\ Resets

-----------------------------------------------------------------------------
(* Lemmas about streams. *)

\* Units that move from the front of one buffer to the end of the previous one
\* leave the whole stream as it was.
LEMMA Split ==
    ASSUME NEW U, NEW b \in Seq(U), NEW n \in 0 .. Len(b)
    PROVE  /\ SubSeq(b, 1, n) \in Seq(U) /\ SubSeq(b, n + 1, Len(b)) \in Seq(U)
           /\ Len(SubSeq(b, 1, n)) = n
           /\ SubSeq(b, 1, n) \o SubSeq(b, n + 1, Len(b)) = b
<1>1. Len(b) \in Nat /\ \A i \in 1 .. Len(b) : b[i] \in U
  BY ElementOfSeq, LenProperties
<1>2. SubSeq(b, 1, n) \in Seq(U) /\ Len(SubSeq(b, 1, n)) = n
  BY <1>1, SubSeqProperties
<1>3. SubSeq(b, n + 1, Len(b)) \in Seq(U)
  BY <1>1, SubSeqProperties
<1>4. SubSeq(b, 1, n) \o SubSeq(b, n + 1, Len(b)) = SubSeq(b, 1, Len(b))
  <2>1. 1 \in 1 .. Len(b) + 1 /\ n \in 1 - 1 .. Len(b) /\ Len(b) \in n .. Len(b)
    BY <1>1
  <2> QED BY <2>1, ConcatAdjacentSubSeq
<1>5. SubSeq(b, 1, Len(b)) = b
  BY SubSeqFull
<1> QED BY <1>2, <1>3, <1>4, <1>5

Cat(s, t) == s \o t

LEMMA CatFacts ==
    ASSUME NEW U
    PROVE  /\ \A a, b \in Seq(U) : Cat(a, b) \in Seq(U)
           /\ \A a, b, t \in Seq(U) : Cat(Cat(a, b), t) = Cat(a, Cat(b, t))
           /\ \A a \in Seq(U) : Cat(a, <<>>) = a /\ Cat(<<>>, a) = a
<1>1. \A a, b \in Seq(U) : Cat(a, b) \in Seq(U)
  BY ConcatProperties DEF Cat
<1>2. \A a, b, t \in Seq(U) : Cat(Cat(a, b), t) = Cat(a, Cat(b, t))
  BY ConcatAssociative DEF Cat
<1>3. \A a \in Seq(U) : Cat(a, <<>>) = a /\ Cat(<<>>, a) = a
  BY ConcatEmptySeq DEF Cat
<1> QED BY <1>1, <1>2, <1>3

LEMMA CatElements ==
    ASSUME NEW U, NEW a \in Seq(U), NEW b \in Seq(U)
    PROVE  /\ Len(a) \in Nat /\ Len(b) \in Nat /\ Len(Cat(a, b)) = Len(a) + Len(b)
           /\ Len(a) >= 1 => Cat(a, b)[1] = a[1]
           /\ Len(b) >= 1 => Cat(a, b)[Len(a) + 1] = b[1]
BY ConcatProperties, LenProperties DEF Cat

LEMMA MovedOn ==
    ASSUME NEW U, NEW a \in Seq(U), NEW b \in Seq(U), NEW t \in Seq(U),
           NEW p \in Seq(U), NEW q \in Seq(U), Cat(p, q) = b
    PROVE  Cat(Cat(a, p), Cat(q, t)) = Cat(a, Cat(b, t))
BY CatFacts

\* recv() takes one unit at a time.
LEMMA Taken ==
    ASSUME NEW U, NEW a \in Seq(U), NEW b \in Seq(U), b # <<>>
    PROVE  /\ Append(a, Head(b)) \in Seq(U) /\ Tail(b) \in Seq(U)
           /\ Append(a, Head(b)) \o Tail(b) = a \o b
<1> DEFINE x == Head(b)
           t == Tail(b)
<1>1. x \in U /\ t \in Seq(U)
  BY HeadTailProperties
<1>2. <<x>> \in Seq(U) /\ <<x>> \o t = b
  <2>1. t = SubSeq(b, 2, Len(b)) /\ Len(b) \in Nat /\ Len(b) >= 1
    BY TailIsSubSeq, EmptySeq, LenProperties
  <2>2. SubSeq(b, 1, Len(b)) = <<b[1]>> \o SubSeq(b, 2, Len(b))
    BY <2>1, SubSeqRecursiveFirst
  <2>3. SubSeq(b, 1, Len(b)) = b
    BY SubSeqFull
  <2>4. x = b[1]
    BY <2>1
  <2> QED BY <1>1, <2>1, <2>2, <2>3, <2>4
<1> HIDE DEF x, t
<1>3. Append(a, x) = a \o <<x>>
  BY <1>1, AppendIsConcat
<1>4. (a \o <<x>>) \o t = a \o (<<x>> \o t)
  BY <1>1, <1>2, ConcatAssociative
<1>5. Append(a, x) \in Seq(U) /\ Append(a, x) \o t = a \o b
  BY <1>1, <1>2, <1>3, <1>4, AppendProperties
<1> QED BY <1>1, <1>5 DEF x, t

\* What has arrived begins what is sent, and stays so while more is sent.
LEMMA BeginsWhole ==
    ASSUME NEW U, NEW a \in Seq(U), NEW b \in Seq(U)
    PROVE  Begins(a, a \o b)
BY ConcatProperties, LenProperties DEF Begins

LEMMA BeginsMore ==
    ASSUME NEW U, NEW s \in Seq(U), NEW a \in Seq(U), NEW b \in Seq(U), Begins(s, a)
    PROVE  Begins(s, a \o b)
BY ConcatProperties, LenProperties DEF Begins

LEMMA BeginsLess ==
    ASSUME NEW U, NEW s \in Seq(U), NEW a \in Seq(U), NEW b \in Seq(U), Begins(a \o b, s)
    PROVE  Begins(a, s)
BY ConcatProperties, LenProperties DEF Begins

LEMMA UnitTypes ==
    /\ NL \in Units /\ Quit \in Seq(Units)
    /\ \A k \in Nat : Line(k) \in Seq(Units) /\ Line(k)[1] \in Units
    /\ \A w \in Clients \cup {"zero", "freed"} : Welcome(w) \in Seq(Units)
BY DEF Units, NL, Quit, Line, Welcome

\* The units of n lines, one after the other.
UnitsOf(n) == [u \in 1 .. 2 * n |-> IF u % 2 = 1 THEN <<"line", (u + 1) \div 2>> ELSE NL]

LEMMA UnitsProperties ==
    ASSUME NEW n \in Nat
    PROVE  /\ UnitsOf(n) \in Seq(Units) /\ Len(UnitsOf(n)) = 2 * n
           /\ \A k \in 1 .. n : UnitsOf(n)[2 * k - 1] = <<"line", k>> /\ UnitsOf(n)[2 * k] = NL
<1> DEFINE e(u) == IF u % 2 = 1 THEN <<"line", (u + 1) \div 2>> ELSE NL
           T == [u \in 1 .. 2 * n |-> e(u)]
<1>1. UnitsOf(n) = T /\ 2 * n \in Nat
  BY DEF UnitsOf
<1>2. \A u \in 1 .. 2 * n : e(u) \in Units
  <2> SUFFICES ASSUME NEW u \in 1 .. 2 * n PROVE e(u) \in Units
    OBVIOUS
  <2>1. (u + 1) \div 2 \in Nat
    OBVIOUS
  <2> QED BY <2>1 DEF Units, NL
<1>3. T \in Seq(Units) /\ Len(T) = 2 * n
  <2>1. T \in [1 .. 2 * n -> Units]
    BY <1>2
  <2> HIDE DEF T
  <2>2. T \in UNION {[1 .. m -> Units] : m \in Nat}
    BY <1>1, <2>1
  <2>3. T \in Seq(Units)
    BY <2>2, SeqDef
  <2> QED BY <1>1, <2>1, <2>3
<1>4. ASSUME NEW k \in 1 .. n
      PROVE  T[2 * k - 1] = <<"line", k>> /\ T[2 * k] = NL
  <2>1. 2 * k - 1 \in 1 .. 2 * n /\ 2 * k \in 1 .. 2 * n
    OBVIOUS
  <2>2. (2 * k - 1) % 2 = 1 /\ (2 * k) % 2 = 0 /\ ((2 * k - 1) + 1) \div 2 = k
    OBVIOUS
  <2>3. T[2 * k - 1] = e(2 * k - 1) /\ T[2 * k] = e(2 * k)
    BY <2>1
  <2> QED BY <2>2, <2>3
<1> QED BY <1>1, <1>3, <1>4

\* One line more is two units more.
LEMMA UnitsMore ==
    ASSUME NEW n \in Nat
    PROVE  UnitsOf(n + 1) = UnitsOf(n) \o Line(n + 1)
<1> DEFINE a == UnitsOf(n)
           b == UnitsOf(n + 1)
           l == Line(n + 1)
<1>1. a \in Seq(Units) /\ Len(a) = 2 * n /\ b \in Seq(Units) /\ Len(b) = 2 * n + 2
  BY UnitsProperties
<1>2. l \in Seq(Units) /\ Len(l) = 2 /\ l[1] = <<"line", n + 1>> /\ l[2] = NL
  BY UnitTypes DEF Line
<1>3. b[2 * n + 1] = <<"line", n + 1>> /\ b[2 * n + 2] = NL
  <2>1. n + 1 \in 1 .. n + 1 /\ 2 * (n + 1) - 1 = 2 * n + 1 /\ 2 * (n + 1) = 2 * n + 2
    OBVIOUS
  <2>2. b[2 * (n + 1) - 1] = <<"line", n + 1>> /\ b[2 * (n + 1)] = NL
    <3>1. \A k \in 1 .. n + 1 : b[2 * k - 1] = <<"line", k>> /\ b[2 * k] = NL
      <4> DEFINE m == n + 1
      <4>1. m \in Nat
        OBVIOUS
      <4> HIDE DEF m
      <4>2. \A k \in 1 .. m : UnitsOf(m)[2 * k - 1] = <<"line", k>> /\ UnitsOf(m)[2 * k] = NL
        BY <4>1, UnitsProperties
      <4> QED BY <4>2 DEF m
    <3> HIDE DEF b
    <3> QED BY <2>1, <3>1
  <2> QED BY <2>1, <2>2
<1>4. \A i \in 1 .. 2 * n : b[i] = a[i]
  BY DEF UnitsOf
<1> HIDE DEF a, b, l
<1>5. /\ a \o l \in Seq(Units) /\ Len(a \o l) = 2 * n + 2
      /\ \A i \in 1 .. 2 * n + 2 : (a \o l)[i] = IF i <= 2 * n THEN a[i] ELSE l[i - 2 * n]
  <2>1. /\ a \o l \in Seq(Units) /\ Len(a \o l) = Len(a) + Len(l)
        /\ \A i \in 1 .. Len(a) + Len(l) : (a \o l)[i] = IF i <= Len(a) THEN a[i] ELSE l[i - Len(a)]
    BY <1>1, <1>2, ConcatProperties
  <2> QED BY <1>1, <1>2, <2>1
<1>6. ASSUME NEW i \in 1 .. 2 * n + 2 PROVE b[i] = (a \o l)[i]
  <2>1. CASE i <= 2 * n
    BY <1>4, <1>5, <2>1
  <2>2. CASE i = 2 * n + 1
    <3>1. i - 2 * n = 1 /\ ~(i <= 2 * n)
      BY <2>2
    <3> QED BY <1>2, <1>3, <1>5, <2>2, <3>1
  <2>3. CASE i = 2 * n + 2
    <3>1. i - 2 * n = 2 /\ ~(i <= 2 * n)
      BY <2>3
    <3> QED BY <1>2, <1>3, <1>5, <2>3, <3>1
  <2>4. i <= 2 * n \/ i = 2 * n + 1 \/ i = 2 * n + 2
    OBVIOUS
  <2> QED BY <2>1, <2>2, <2>3, <2>4
<1>7. b = a \o l
  <2> DEFINE al == a \o l
  <2>1. al \in Seq(Units) /\ Len(al) = Len(b) /\ \A i \in 1 .. Len(b) : b[i] = al[i]
    BY <1>1, <1>5, <1>6
  <2> HIDE DEF al
  <2>2. b = al
    BY <1>1, <2>1, SeqEqual
  <2> QED BY <2>2 DEF al
<1> QED BY <1>7 DEF a, b, l

\* The lines a user has typed.
LEMMA TypedProperties ==
    ASSUME NEW c \in Clients, typed[c] \in Nat
    PROVE  /\ TypedUnits(c) = UnitsOf(typed[c])
           /\ TypedUnits(c) \in Seq(Units) /\ Len(TypedUnits(c)) = 2 * typed[c]
           /\ \A k \in 1 .. typed[c] : /\ TypedUnits(c)[2 * k - 1] = <<"line", k>>
                                       /\ TypedUnits(c)[2 * k] = NL
<1>1. TypedUnits(c) = UnitsOf(typed[c])
  BY DEF TypedUnits, UnitsOf
<1> QED BY <1>1, UnitsProperties

-----------------------------------------------------------------------------
(* Types. *)

LEMMA TypesInMain ==
    ASSUME IInv, Main
    PROVE  TypeOK'
<1> DEFINE A == Clients \cup {"zero", "freed"}
<1>1. TypeOK /\ slot \in 1 .. Len(addrs) /\ Len(addrs) \in Nat /\ cur \in Clients
  <2>1. TypeOK /\ slot \in DOMAIN addrs
    BY DEF IInv, Addresses
  <2>2. addrs \in Seq(A) /\ cur \in Clients
    BY <2>1 DEF TypeOK
  <2>3. DOMAIN addrs = 1 .. Len(addrs) /\ Len(addrs) \in Nat
    BY <2>2, LenProperties
  <2> QED BY <2>1, <2>2, <2>3
<1>2. ASSUME NEW a \in A PROVE [addrs EXCEPT ![slot] = a] \in Seq(A) /\ Append(addrs, a) \in Seq(A)
  BY <1>1, ExceptSeq, AppendProperties DEF TypeOK
<1>3. addrs[slot] \in A
  BY <1>1, ElementOfSeq DEF TypeOK
<1>4. ASSUME NEW a \in Nat, Begin(a) PROVE hpc' \in [Clients -> {"none", "start", "send", "recv", "close", "done"}]
                                     /\ arg' \in [Clients -> Nat]
  BY <1>1, <1>4 DEF TypeOK, Begin
<1>5. CASE Accept
  <2>1. Head(backlog) \in Clients /\ Tail(backlog) \in Seq(Clients)
    BY <1>1, <1>5, HeadTailProperties DEF Accept, TypeOK
  <2>2. addrs' \in Seq(A)
    BY <1>2, <1>5, <2>1 DEF Accept
  <2> QED BY <1>1, <1>5, <2>1, <2>2 DEF Accept, TypeOK, Processes, hVars, net, cVars
<1>6. CASE Call
  BY <1>1, <1>4, <1>6 DEF Call, TypeOK, hVars, net, cVars
<1>7. CASE Return
  <2>1. addrs' \in Seq(A)
    BY <1>2, <1>3, <1>7 DEF Return
  <2> QED BY <1>1, <1>7, <2>1 DEF Return, TypeOK, hVars, net, cVars
<1>8. CASE Fork
  <2>1. addrs' \in Seq(A)
    BY <1>2, <1>3, <1>8 DEF Fork
  <2>2. Len(addrs) + 1 \in Nat
    BY <1>1
  <2>3. hpc' \in [Clients -> {"none", "start", "send", "recv", "close", "done"}] /\ arg' \in [Clients -> Nat]
    BY <1>4, <1>8, <2>2 DEF Fork
  <2> QED BY <1>1, <1>8, <2>1, <2>3 DEF Fork, TypeOK, Processes, net, cVars
<1>9. CASE CloseInParent
  <2>1. addrs' \in Seq(A)
    BY <1>2, <1>9 DEF CloseInParent
  <2> QED BY <1>1, <1>9, <2>1 DEF CloseInParent, TypeOK, hVars, net, cVars
<1>10. CASE CreateThread
  BY <1>1, <1>4, <1>10 DEF CreateThread, TypeOK, hVars, net, cVars
<1>11. CASE AllocAddress
  <2>1. addrs' \in Seq(A)
    BY <1>2, <1>11 DEF AllocAddress
  <2> QED BY <1>1, <1>11, <2>1 DEF AllocAddress, TypeOK, hVars, net, cVars
<1>12. CASE CreationFails
  BY <1>1, <1>12 DEF CreationFails, EndProcess, TypeOK, Processes, net, cVars
<1> QED BY <1>5, <1>6, <1>7, <1>8, <1>9, <1>10, <1>11, <1>12 DEF Main

LEMMA TypesInHandler ==
    ASSUME IInv, NEW c \in Clients, Handler(c)
    PROVE  TypeOK'
<1> DEFINE A == Clients \cup {"zero", "freed"}
<1>1. TypeOK /\ out[c] \in Seq(Units) /\ hbuf[c] \in Seq(Units) /\ c2s[c] \in Seq(Units) /\ s2c[c] \in Seq(Units)
  BY DEF IInv, TypeOK
<1>2. hpc[c] # "none" => arg[c] \in 1 .. Len(addrs)
  BY DEF IInv, Addresses
<1>3. CASE Start(c)
  <2>1. addrs[arg[c]] \in A
    BY <1>1, <1>2, <1>3, ElementOfSeq DEF Start, HMove, TypeOK
  <2>2. Welcome(addrs[arg[c]]) \in Seq(Units)
    BY <2>1, UnitTypes
  <2> QED BY <1>1, <1>3, <2>2 DEF Start, HMove, HKeep, TypeOK, mainVars, net, cVars
<1>4. CASE Send(c)
  <2>1. PICK n \in 1 .. Len(out[c]) :
          /\ HMove(c, "send", IF n = Len(out[c]) THEN "recv" ELSE "send")
          /\ out' = [out EXCEPT ![c] = SubSeq(@, n + 1, Len(@))]
          /\ s2c' = [s2c EXCEPT ![c] = IF Gone(c) THEN @ ELSE @ \o SubSeq(out[c], 1, n)]
    BY <1>4 DEF Send
  <2>2. SubSeq(out[c], 1, n) \in Seq(Units) /\ SubSeq(out[c], n + 1, Len(out[c])) \in Seq(Units)
    BY <1>1, Split
  <2>3. s2c[c] \o SubSeq(out[c], 1, n) \in Seq(Units)
    BY <1>1, <2>2, ConcatProperties
  <2>4. out' \in [Clients -> Seq(Units)] /\ s2c' \in [Clients -> Seq(Units)]
    BY <1>1, <2>1, <2>2, <2>3 DEF TypeOK
  <2>5. hpc' \in [Clients -> {"none", "start", "send", "recv", "close", "done"}]
    BY <1>1, <2>1 DEF TypeOK, HMove
  <2>6. reset' \in [Clients -> BOOLEAN]
    BY <1>1, <1>4 DEF TypeOK, Send, Gone
  <2> QED BY <1>1, <1>4, <2>4, <2>5, <2>6 DEF Send, HKeep, TypeOK, mainVars, cVars
<1>5. CASE Recv(c)
  <2>1. ASSUME NEW line \in Seq(Units), EndOfLine(c, line)
        PROVE  /\ hpc' \in [Clients -> {"none", "start", "send", "recv", "close", "done"}]
               /\ hbuf' \in [Clients -> Seq(Units)] /\ out' \in [Clients -> Seq(Units)]
    BY <1>1, <2>1 DEF EndOfLine, HMove, TypeOK
  <2> DEFINE line == Append(hbuf[c], Head(c2s[c]))
  <2>2. c2s[c] # <<>> => line \in Seq(Units) /\ Tail(c2s[c]) \in Seq(Units)
    BY <1>1, Taken
  <2> HIDE DEF line
  <2>3. CASE /\ c2s[c] # <<>> /\ c2s' = [c2s EXCEPT ![c] = Tail(@)]
             /\ EndOfLine(c, line)
    BY <1>1, <1>5, <2>1, <2>2, <2>3 DEF Recv, HKeep, TypeOK, mainVars, cVars
  <2>4. CASE /\ c2s[c] # <<>> /\ c2s' = [c2s EXCEPT ![c] = Tail(@)]
             /\ hbuf' = [hbuf EXCEPT ![c] = line] /\ UNCHANGED <<hpc, out>>
    BY <1>1, <1>5, <2>2, <2>4 DEF Recv, HKeep, TypeOK, mainVars, cVars
  <2>5. CASE EndOfLine(c, hbuf[c]) /\ UNCHANGED c2s
    BY <1>1, <1>5, <2>1, <2>5 DEF Recv, HKeep, TypeOK, mainVars, cVars
  <2> QED BY <1>5, <2>3, <2>4, <2>5 DEF Recv, line
<1>6. CASE Close(c)
  <2>1. arg[c] \in 1 .. Len(addrs)
    BY <1>2, <1>6 DEF Close, HMove
  <2>2. addrs' \in Seq(A)
    BY <1>1, <1>6, <2>1, ExceptSeq, ElementOfSeq DEF Close, TypeOK
  <2> QED BY <1>1, <1>6, <2>2 DEF Close, HMove, TypeOK, net, cVars
<1>7. CASE Die(c)
  <2>1. ProcessOf(c) \in Processes
    BY DEF ProcessOf, Processes
  <2> QED BY <1>1, <1>7, <2>1 DEF Die, EndProcess, TypeOK, net, cVars
<1> QED BY <1>3, <1>4, <1>5, <1>6, <1>7 DEF Handler

LEMMA TypesInClient ==
    ASSUME IInv, NEW c \in Clients, ClientReacts(c) \/ User(c)
    PROVE  TypeOK'
<1>1. TypeOK /\ c2s[c] \in Seq(Units) /\ s2c[c] \in Seq(Units) /\ cbuf[c] \in Seq(Units) /\ shown[c] \in Seq(Units)
  BY DEF IInv, TypeOK
<1> DEFINE P == {"start", "welcome", "prompt", "response", "cut", "gone"}
<1>2. ASSUME NEW from, NEW to \in P, CMove(c, from, to) PROVE cpc' \in [Clients -> P]
  BY <1>1, <1>2 DEF CMove, TypeOK
<1>3. CASE Connect(c)
  <2>1. cpc' \in [Clients -> P]
    BY <1>2, <1>3 DEF Connect
  <2>2. backlog' \in Seq(Clients)
    <3>1. backlog \in Seq(Clients) /\ Append(backlog, c) \in Seq(Clients)
      BY <1>1, AppendProperties DEF TypeOK
    <3> QED BY <1>3, <3>1 DEF Connect
  <2> QED BY <1>1, <1>3, <2>1, <2>2 DEF Connect, CKeep, TypeOK, mainVars, hVars, net
<1>4. CASE ClientRecv(c)
  <2>1. PICK n \in 1 .. Len(s2c[c]) :
          LET buf == cbuf[c] \o SubSeq(s2c[c], 1, n)
              whole == server = "first" => buf[Len(buf)][1] \in {"hi", "nl"}
          IN  /\ s2c' = [s2c EXCEPT ![c] = SubSeq(@, n + 1, Len(@))]
              /\ cbuf' = [cbuf EXCEPT ![c] = IF whole THEN <<>> ELSE buf]
              /\ IF whole THEN /\ CMove(c, Waiting, "prompt")
                               /\ shown' = [shown EXCEPT ![c] = @ \o buf]
                          ELSE UNCHANGED <<cpc, shown>>
    BY <1>4 DEF ClientRecv
  <2>2. SubSeq(s2c[c], 1, n) \in Seq(Units) /\ SubSeq(s2c[c], n + 1, Len(s2c[c])) \in Seq(Units)
    BY <1>1, Split
  <2> DEFINE buf == cbuf[c] \o SubSeq(s2c[c], 1, n)
  <2>3. buf \in Seq(Units)
    BY <1>1, <2>2, ConcatProperties
  <2>4. shown[c] \o buf \in Seq(Units)
    BY <1>1, <2>3, ConcatProperties
  <2>5. s2c' \in [Clients -> Seq(Units)]
    BY <1>1, <2>1, <2>2 DEF TypeOK
  <2> DEFINE whole == server = "first" => buf[Len(buf)][1] \in {"hi", "nl"}
  <2>7. /\ cbuf' = [cbuf EXCEPT ![c] = IF whole THEN <<>> ELSE buf]
        /\ IF whole THEN /\ CMove(c, Waiting, "prompt")
                         /\ shown' = [shown EXCEPT ![c] = @ \o buf]
                    ELSE UNCHANGED <<cpc, shown>>
    BY <2>1
  <2> HIDE DEF buf, whole
  <2>8. cbuf' \in [Clients -> Seq(Units)]
    BY <1>1, <2>3, <2>7 DEF TypeOK
  <2>9. shown' \in [Clients -> Seq(Units)]
    BY <1>1, <2>4, <2>7 DEF TypeOK
  <2>6. cpc' \in [Clients -> P]
    BY <1>1, <1>2, <2>7 DEF TypeOK
  <2> QED BY <1>1, <1>4, <2>5, <2>6, <2>8, <2>9 DEF ClientRecv, CKeep, TypeOK, mainVars, hVars
<1>5. CASE ClientEnd(c)
  <2>1. cpc' \in [Clients -> P]
    BY <1>2, <1>5 DEF ClientEnd
  <2> QED BY <1>1, <1>5, <2>1 DEF ClientEnd, CKeep, TypeOK, mainVars, hVars, net
<1>6. CASE Type(c)
  <2>1. cpc' \in [Clients -> P]
    BY <1>2, <1>6 DEF Type
  <2>2. typed[c] + 1 \in Nat /\ typed' \in [Clients -> Nat]
    <3>1. typed \in [Clients -> Nat] /\ typed' = [typed EXCEPT ![c] = typed[c] + 1]
      BY <1>1, <1>6 DEF Type, TypeOK
    <3>2. typed[c] + 1 \in Nat
      BY <3>1
    <3> QED BY <3>1, <3>2
  <2>3. c2s[c] \o Line(typed[c] + 1) \in Seq(Units) /\ Append(c2s[c], Line(typed[c] + 1)[1]) \in Seq(Units)
    BY <1>1, <2>2, UnitTypes, ConcatProperties, AppendProperties
  <2>4. c2s' \in [Clients -> Seq(Units)]
    BY <1>1, <1>6, <2>3 DEF Type, TypeOK
  <2> QED BY <1>1, <1>6, <2>1, <2>2, <2>4 DEF Type, CKeep, TypeOK, mainVars, hVars
<1>7. CASE Leave(c)
  <2>1. cpc' \in [Clients -> P]
    BY <1>2, <1>7 DEF Leave
  <2>2. c2s[c] \o Quit \in Seq(Units) /\ Append(c2s[c], Line(0)[1]) \in Seq(Units)
    BY <1>1, UnitTypes, ConcatProperties, AppendProperties
  <2>3. c2s' \in [Clients -> Seq(Units)]
    BY <1>1, <1>7, <2>2 DEF Leave, TypeOK
  <2>4. reset' \in [Clients -> BOOLEAN]
    BY <1>1, <1>7 DEF Leave, TypeOK
  <2> QED BY <1>1, <1>7, <2>1, <2>3, <2>4 DEF Leave, CKeep, TypeOK, mainVars, hVars
<1> QED BY <1>3, <1>4, <1>5, <1>6, <1>7 DEF ClientReacts, User

-----------------------------------------------------------------------------
(* The main loop, the queue, the descriptors and the addresses. *)

Structure == Loops /\ Queued /\ Held /\ Addresses

LEMMA Indexes ==
    ASSUME TypeOK, Structure
    PROVE  /\ Len(backlog) \in Nat /\ DOMAIN backlog = 1 .. Len(backlog)
           /\ \A i \in DOMAIN backlog : backlog[i] \in Clients
           /\ Len(addrs) \in Nat /\ DOMAIN addrs = 1 .. Len(addrs) /\ slot \in 1 .. Len(addrs)
<1>1. backlog \in Seq(Clients) /\ addrs \in Seq(Clients \cup {"zero", "freed"})
  BY DEF TypeOK
<1>2. Len(backlog) \in Nat /\ DOMAIN backlog = 1 .. Len(backlog)
  BY <1>1, LenProperties
<1>3. Len(addrs) \in Nat /\ DOMAIN addrs = 1 .. Len(addrs)
  BY <1>1, LenProperties
<1>4. \A i \in 1 .. Len(backlog) : backlog[i] \in Clients
  BY <1>1, ElementOfSeq
<1>5. slot \in DOMAIN addrs
  BY DEF Structure, Addresses
<1> QED BY <1>2, <1>3, <1>4, <1>5

\* A client only joins the queue, and never goes back to its start.
LEMMA StructureInClient ==
    ASSUME IInv, NEW c \in Clients, ClientReacts(c) \/ User(c)
    PROVE  Structure'
<1>1. /\ TypeOK /\ Structure /\ cur \in Clients
  BY DEF IInv, TypeOK, Structure
<1>2. UNCHANGED <<server, mpc, cur, slot, addrs, hpc, arg, holders>>
  BY DEF ClientReacts, User, Connect, ClientRecv, ClientEnd, Type, Leave, CKeep, mainVars, hVars
<1>3. \A d \in Clients : cpc[d] # "start" => cpc'[d] # "start"
  <2>1. cpc' = cpc \/ \E to \in {"gone", "welcome", "prompt", "response", "cut"} : cpc' = [cpc EXCEPT ![c] = to]
    BY DEF ClientReacts, User, Connect, ClientRecv, ClientEnd, Type, Leave, CMove
  <2> QED BY <1>1, <2>1 DEF TypeOK
<1>4. Loops' /\ Held'
  BY <1>1, <1>2 DEF Structure, Loops, Held, Calls, Live, ProcessOf
<1>5. Addresses'
  BY <1>1, <1>2 DEF Structure, Addresses
<1>6. CASE UNCHANGED backlog
  <2>1. \A i \in DOMAIN backlog : backlog[i] \in Clients
    BY <1>1, Indexes
  <2> QED BY <1>1, <1>2, <1>3, <1>4, <1>5, <1>6, <2>1 DEF Structure, Queued
<1>7. CASE Connect(c) /\ backlog' = Append(backlog, c)
  <2>1. cpc[c] = "start" /\ cpc' = [cpc EXCEPT ![c] = cpc'[c]] /\ cpc'[c] \in {"welcome", "gone"}
    BY <1>1, <1>7 DEF Connect, CMove, TypeOK
  <2>2. hpc[c] = "none" /\ (mpc = "dispatch" => cur # c)
    BY <1>1, <2>1 DEF Structure, Queued
  <2>3. /\ \A i \in DOMAIN backlog : backlog[i] \in Clients /\ backlog[i] # c
        /\ Len(backlog) \in Nat /\ DOMAIN backlog = 1 .. Len(backlog)
    BY <1>1, <2>1, Indexes DEF Structure, Queued
  <2>4. /\ DOMAIN backlog' = 1 .. Len(backlog) + 1
        /\ \A i \in 1 .. Len(backlog) + 1 :
              backlog'[i] = IF i = Len(backlog) + 1 THEN c ELSE backlog[i]
    <3>1. backlog \in Seq(Clients)
      BY <1>1 DEF TypeOK
    <3> QED BY <1>7, <3>1, AppendProperties
  <2>5. ASSUME NEW i \in DOMAIN backlog'
        PROVE  /\ hpc[backlog'[i]] = "none" /\ cpc'[backlog'[i]] # "start"
               /\ mpc = "dispatch" => backlog'[i] # cur
    BY <1>1, <1>3, <2>1, <2>2, <2>3, <2>4 DEF Structure, Queued
  <2>6. ASSUME NEW i \in DOMAIN backlog', NEW j \in DOMAIN backlog', backlog'[i] = backlog'[j]
        PROVE  i = j
    BY <1>1, <2>3, <2>4, <2>6 DEF Structure, Queued
  <2>7. mpc = "dispatch" => hpc[cur] = "none" /\ cpc'[cur] # "start"
    BY <1>1, <1>3 DEF Structure, Queued
  <2>8. \A d \in Clients : hpc[d] # "none" => cpc'[d] # "start"
    BY <1>1, <1>3 DEF Structure, Queued
  <2>9. Queued'
    BY <1>2, <2>5, <2>6, <2>7, <2>8 DEF Queued
  <2> QED BY <1>4, <1>5, <2>9 DEF Structure
<1> QED BY <1>6, <1>7 DEF ClientReacts, User, Connect, ClientRecv, ClientEnd, Type, Leave, CKeep

\* The steps of a handler that keep it alive.
LEMMA StructureInHandler ==
    ASSUME IInv, NEW c \in Clients, Start(c) \/ Send(c) \/ Recv(c)
    PROVE  Structure'
<1>1. /\ TypeOK /\ Structure /\ cur \in Clients
  BY DEF IInv, TypeOK, Structure
<1>2. UNCHANGED <<server, backlog, mpc, cur, slot, addrs, arg, holders, cpc>>
  BY DEF Start, Send, Recv, HKeep, mainVars, cVars
<1>3. /\ \A d \in Clients \ {c} : hpc'[d] = hpc[d]
      /\ hpc[c] \in {"start", "send", "recv"} /\ hpc'[c] \in {"send", "recv", "close"}
  BY <1>1 DEF Start, Send, Recv, HMove, EndOfLine, TypeOK
<1>4. \A d \in Clients : /\ (hpc'[d] = "none") = (hpc[d] = "none") /\ (hpc'[d] \in Live) = (hpc[d] \in Live)
                         /\ (hpc'[d] = "done") = (hpc[d] = "done")
                         /\ hpc'[d] = "start" => hpc[d] = "start"
  BY <1>3 DEF Live
<1>5. \A i \in DOMAIN backlog : backlog[i] \in Clients
  BY <1>1, Indexes
<1>6. Loops' /\ Held'
  BY <1>1, <1>2, <1>4 DEF Structure, Loops, Held, Calls, ProcessOf
<1>7. Queued'
  BY <1>1, <1>2, <1>4, <1>5 DEF Structure, Queued
<1>8. Addresses'
  BY <1>1, <1>2, <1>4 DEF Structure, Addresses
<1> QED BY <1>6, <1>7, <1>8 DEF Structure

LEMMA StructureInClose ==
    ASSUME IInv, NEW c \in Clients, Close(c)
    PROVE  Structure'
<1>1. /\ TypeOK /\ Structure /\ cur \in Clients
  BY DEF IInv, TypeOK, Structure
<1>2. /\ UNCHANGED <<server, backlog, mpc, cur, slot, arg, cpc>>
      /\ hpc[c] = "close" /\ hpc' = [hpc EXCEPT ![c] = "done"]
      /\ holders' = [holders EXCEPT ![c] = @ \ {ProcessOf(c)}]
  BY DEF Close, HMove, cVars
<1>3. \A d \in Clients : hpc'[d] = IF d = c THEN "done" ELSE hpc[d]
  BY <1>1, <1>2 DEF TypeOK
<1>4. \A i \in DOMAIN backlog : backlog[i] \in Clients
  BY <1>1, Indexes
<1>5. Loops'
  BY <1>1, <1>2, <1>3 DEF Structure, Loops, Calls, Live
<1>6. Held'
  <2>1. \A d \in Clients : holders'[d] = IF d = c THEN holders[c] \ {ProcessOf(c)} ELSE holders[d]
    BY <1>1, <1>2 DEF TypeOK
  <2>2. mpc = "dispatch" => cur # c
    BY <1>1, <1>2 DEF Structure, Queued
  <2> QED BY <1>1, <1>2, <1>3, <2>1, <2>2 DEF Structure, Held, Live, ProcessOf
<1>7. Queued'
  BY <1>1, <1>2, <1>3, <1>4 DEF Structure, Queued
<1>8. Addresses'
  <2>1. arg[c] \in 1 .. Len(addrs) /\ \A d \in Clients : hpc[d] # "none" => arg[d] \in 1 .. Len(addrs)
    BY <1>1, <1>2, Indexes DEF Structure, Addresses
  <2>2. /\ Len(addrs') = Len(addrs) /\ DOMAIN addrs' = DOMAIN addrs
        /\ \A i \in DOMAIN addrs : addrs'[i] = IF i = arg[c] /\ server = "mthread" THEN "freed" ELSE addrs[i]
    <3>1. addrs' = [addrs EXCEPT ![arg[c]] = IF server = "mthread" THEN "freed" ELSE @]
      BY DEF Close
    <3>2. DOMAIN addrs = 1 .. Len(addrs) /\ Len(addrs) \in Nat
      BY <1>1, Indexes
    <3> QED BY <2>1, <3>1, <3>2
  <2>3. mpc = "dispatch" => addrs'[slot] = cur
    BY <1>1, <1>2, <2>2 DEF Structure, Addresses
  <2>4. ASSUME NEW d \in Clients, hpc'[d] = "start" PROVE addrs'[arg[d]] = d
    <3>1. hpc[d] = "start" /\ d # c /\ addrs[arg[d]] = d /\ arg[d] \in DOMAIN addrs
      BY <1>1, <1>3, <2>4 DEF Structure, Addresses
    <3>2. server = "mthread" => arg[d] # arg[c]
      BY <1>1, <1>2, <3>1 DEF Structure, Addresses
    <3> QED BY <2>2, <3>1, <3>2
  <2> QED BY <1>1, <1>2, <1>3, <2>1, <2>2, <2>3, <2>4 DEF Structure, Addresses
<1> QED BY <1>5, <1>6, <1>7, <1>8 DEF Structure

\* A process that dies takes all its handlers and connections along.
LEMMA StructureInDie ==
    ASSUME IInv, NEW c \in Clients, Die(c)
    PROVE  Structure'
<1> DEFINE p == ProcessOf(c)
<1>1. /\ TypeOK /\ Structure /\ cur \in Clients /\ "main" \notin Clients
  BY EchoAssumption DEF IInv, TypeOK, Structure
<1>2. /\ UNCHANGED <<server, backlog, cur, slot, addrs, arg, cpc>>
      /\ mpc' = IF p = "main" THEN "dead" ELSE mpc
  BY DEF Die, EndProcess, cVars
<1>3. \A d \in Clients : /\ hpc'[d] = IF hpc[d] # "none" /\ ProcessOf(d) = p THEN "done" ELSE hpc[d]
                         /\ holders'[d] = holders[d] \ {p}
  BY DEF Die, EndProcess
<1>4. hpc[c] \in Live /\ (server = "mproc" <=> p # "main") /\ (server = "mproc" => p = c)
  BY <1>1 DEF Die, Live, ProcessOf
<1>5. \A i \in DOMAIN backlog : backlog[i] \in Clients
  BY <1>1, Indexes
<1>6. Loops'
  BY <1>1, <1>2, <1>3, <1>4 DEF Structure, Loops, Calls, Live, ProcessOf
<1>7. Held'
  BY <1>1, <1>2, <1>3, <1>4 DEF Structure, Held, Live, ProcessOf
<1>8. Queued'
  BY <1>1, <1>2, <1>3, <1>5 DEF Structure, Queued
<1>9. Addresses'
  BY <1>1, <1>2, <1>3, <1>4 DEF Structure, Addresses
<1> QED BY <1>6, <1>7, <1>8, <1>9 DEF Structure

\* So does the process that accepts, when it cannot create a handler.
LEMMA StructureInFailure ==
    ASSUME IInv, CreationFails
    PROVE  Structure'
<1>1. /\ TypeOK /\ Structure /\ cur \in Clients /\ "main" \notin Clients
  BY EchoAssumption DEF IInv, TypeOK, Structure
<1>2. /\ UNCHANGED <<server, backlog, cur, slot, addrs, arg, cpc>>
      /\ server \in {"mproc", "mthread"} /\ mpc = "dispatch" /\ mpc' = "failed"
  BY DEF CreationFails, cVars
<1>3. \A d \in Clients : /\ hpc'[d] = IF hpc[d] # "none" /\ ProcessOf(d) = "main" THEN "done" ELSE hpc[d]
                         /\ holders'[d] = holders[d] \ {"main"}
  BY DEF CreationFails, EndProcess
<1>4. \A i \in DOMAIN backlog : backlog[i] \in Clients
  BY <1>1, Indexes
<1>5. Loops'
  BY <1>1, <1>2, <1>3 DEF Structure, Loops, Calls, Live, ProcessOf
<1>6. Held'
  BY <1>1, <1>2, <1>3 DEF Structure, Held, Live, ProcessOf
<1>7. Queued'
  BY <1>1, <1>2, <1>3, <1>4 DEF Structure, Queued
<1>8. Addresses'
  BY <1>1, <1>2, <1>3 DEF Structure, Addresses
<1> QED BY <1>5, <1>6, <1>7, <1>8 DEF Structure

LEMMA StructureInAccept ==
    ASSUME IInv, Accept
    PROVE  Structure'
<1> DEFINE h == Head(backlog)
<1>1. /\ TypeOK /\ Structure /\ cur \in Clients
  BY DEF IInv, TypeOK, Structure
<1>2. /\ UNCHANGED <<server, slot, hpc, arg, cpc>>
      /\ mpc = "accept" /\ mpc' = "dispatch" /\ cur' = h /\ backlog' = Tail(backlog) /\ backlog # <<>>
      /\ holders' = [holders EXCEPT ![h] = {"main"}]
      /\ addrs' = [addrs EXCEPT ![slot] = h]
  BY DEF Accept, hVars, cVars
<1>3. /\ Len(backlog) \in Nat /\ Len(backlog) >= 1 /\ DOMAIN backlog = 1 .. Len(backlog)
      /\ h = backlog[1] /\ h \in Clients
      /\ DOMAIN backlog' = 1 .. Len(backlog) - 1
      /\ \A i \in DOMAIN backlog' : backlog'[i] = backlog[i + 1] /\ i + 1 \in DOMAIN backlog
  <2>1. backlog \in Seq(Clients)
    BY <1>1 DEF TypeOK
  <2>2. Len(backlog) \in Nat /\ Len(backlog) >= 1 /\ DOMAIN backlog = 1 .. Len(backlog)
    BY <1>2, <2>1, EmptySeq, LenProperties
  <2>3. /\ Tail(backlog) \in Seq(Clients) /\ Len(Tail(backlog)) = Len(backlog) - 1
        /\ \A i \in 1 .. Len(Tail(backlog)) : Tail(backlog)[i] = backlog[i + 1]
    BY <1>2, <2>1, HeadTailProperties
  <2>4. h = backlog[1] /\ h \in Clients
    BY <1>2, <2>1, <2>2, ElementOfSeq
  <2>5. DOMAIN Tail(backlog) = 1 .. Len(backlog) - 1
    BY <2>3, LenProperties
  <2> HIDE DEF h
  <2> QED BY <1>2, <2>2, <2>3, <2>4, <2>5
<1> HIDE DEF h
<1>4. hpc[h] = "none" /\ cpc[h] # "start"
  BY <1>1, <1>3 DEF Structure, Queued
<1>5. Loops'
  BY <1>1, <1>2 DEF Structure, Loops, Calls, Live
<1>6. Queued'
  <2>1. ASSUME NEW i \in DOMAIN backlog'
        PROVE  hpc[backlog'[i]] = "none" /\ cpc[backlog'[i]] # "start" /\ backlog'[i] # h
    BY <1>1, <1>3 DEF Structure, Queued
  <2>2. ASSUME NEW i \in DOMAIN backlog', NEW j \in DOMAIN backlog', backlog'[i] = backlog'[j]
        PROVE  i = j
    <3>1. i + 1 = j + 1
      BY <1>1, <1>3, <2>2 DEF Structure, Queued
    <3> QED BY <1>3, <3>1
  <2>3. \A d \in Clients : hpc[d] # "none" => cpc[d] # "start"
    BY <1>1 DEF Structure, Queued
  <2> QED BY <1>2, <1>4, <2>1, <2>2, <2>3 DEF Queued
<1>7. Held'
  <2>1. \A d \in Clients : holders'[d] = IF d = h THEN {"main"} ELSE holders[d]
    BY <1>1, <1>2 DEF TypeOK
  <2> QED BY <1>1, <1>2, <1>3, <1>4, <2>1 DEF Structure, Held, Live, ProcessOf
<1>8. Addresses'
  <2>1. DOMAIN addrs = 1 .. Len(addrs) /\ Len(addrs) \in Nat /\ slot \in 1 .. Len(addrs)
    BY <1>1, Indexes
  <2>2. /\ Len(addrs') = Len(addrs) /\ DOMAIN addrs' = DOMAIN addrs
        /\ \A i \in DOMAIN addrs : addrs'[i] = IF i = slot THEN h ELSE addrs[i]
    BY <1>2, <2>1
  <2>3. ASSUME NEW d \in Clients, hpc[d] = "start" PROVE addrs'[arg[d]] = d
    <3>1. arg[d] \in DOMAIN addrs /\ addrs[arg[d]] = d
      BY <1>1, <2>3 DEF Structure, Addresses
    <3>2. arg[d] # slot
      BY <1>1, <1>2, <2>3 DEF Structure, Addresses, Loops, Calls, Live, TypeOK
    <3> QED BY <2>2, <3>1, <3>2
  <2> QED BY <1>1, <1>2, <2>1, <2>2, <2>3 DEF Structure, Addresses
<1> QED BY <1>5, <1>6, <1>7, <1>8 DEF Structure

\* The steps that hand the connection to a handler.
LEMMA StructureInBegin ==
    ASSUME IInv, Call \/ Fork \/ CreateThread
    PROVE  Structure'
<1>1. /\ TypeOK /\ Structure /\ cur \in Clients /\ "main" \notin Clients
  BY EchoAssumption DEF IInv, TypeOK, Structure
<1>2. /\ UNCHANGED <<server, backlog, cur, slot, cpc>>
      /\ mpc = "dispatch" /\ hpc' = [hpc EXCEPT ![cur] = "start"]
  BY DEF Call, Fork, CreateThread, Begin, cVars
<1>3. \A d \in Clients : hpc'[d] = IF d = cur THEN "start" ELSE hpc[d]
  BY <1>1, <1>2 DEF TypeOK
<1>4. /\ hpc[cur] = "none" /\ cpc[cur] # "start" /\ addrs[slot] = cur
      /\ \A i \in DOMAIN backlog : backlog[i] # cur
  BY <1>1, <1>2 DEF Structure, Queued, Addresses
<1>5. /\ DOMAIN addrs = 1 .. Len(addrs) /\ Len(addrs) \in Nat /\ slot \in 1 .. Len(addrs)
      /\ \A i \in DOMAIN backlog : backlog[i] \in Clients
  BY <1>1, Indexes
<1>6. Queued'
  <2>1. mpc' # "dispatch"
    BY DEF Call, Fork, CreateThread
  <2> QED BY <1>1, <1>2, <1>3, <1>4, <1>5, <2>1 DEF Structure, Queued
<1>7. Held' /\ Loops'
  <2>1. CASE Call
    BY <1>1, <1>2, <1>3, <1>4, <2>1 DEF Call, Structure, Held, Loops, Calls, Live, ProcessOf
  <2>2. CASE CreateThread
    BY <1>1, <1>2, <1>3, <1>4, <2>2 DEF CreateThread, Structure, Held, Loops, Calls, Live, ProcessOf
  <2>3. CASE Fork
    <3>1. /\ server = "mproc" /\ mpc' = "parent"
          /\ \A d \in Clients : holders'[d] = IF d = cur THEN holders[d] \cup {cur} ELSE holders[d]
      BY <1>1, <2>3 DEF Fork, TypeOK
    <3>2. Loops'
      BY <1>2, <3>1 DEF Loops, Calls
    <3>3. Held'
      <4>1. \A d \in Clients : ProcessOf(d) = d /\ ProcessOf(d)' = d
        BY <1>2, <3>1 DEF ProcessOf
      <4>2. ASSUME NEW d \in Clients
            PROVE  /\ hpc'[d] = "none" /\ holders'[d] # {} => mpc' = "dispatch" /\ cur' = d
                   /\ hpc'[d] \in Live => d \in holders'[d]
                   /\ hpc'[d] = "done" => d \notin holders'[d]
                   /\ holders'[d] \subseteq {"main", d}
                   /\ "main" \in holders'[d] => mpc' \in {"dispatch", "parent"} /\ cur' = d
        <5>1. /\ hpc[d] = "none" /\ holders[d] # {} => cur = d
              /\ hpc[d] \in Live => d \in holders[d]
              /\ hpc[d] = "done" => d \notin holders[d]
              /\ holders[d] \subseteq {"main", d}
              /\ "main" \in holders[d] => cur = d
          BY <1>1, <3>1, <4>1 DEF Structure, Held
        <5>2. CASE d = cur
          <6>1. hpc'[d] = "start" /\ holders'[d] = holders[d] \cup {d}
            BY <1>3, <3>1, <5>2
          <6>2. mpc' = "parent" /\ cur' = d
            BY <1>2, <3>1, <5>2
          <6> QED BY <5>1, <6>1, <6>2
        <5>3. CASE d # cur
          BY <1>2, <1>3, <3>1, <5>1, <5>3
        <5> QED BY <5>2, <5>3
      <4> QED BY <3>1, <4>1, <4>2 DEF Held
    <3> QED BY <3>2, <3>3
  <2> QED BY <2>1, <2>2, <2>3
<1>8. Addresses'
  <2>1. CASE Call \/ CreateThread
    <3>1. UNCHANGED addrs /\ \A d \in Clients : arg'[d] = IF d = cur THEN slot ELSE arg[d]
      BY <1>1, <2>1 DEF Call, CreateThread, Begin, TypeOK
    <3>2. \/ server \in {"first", "serial"} /\ mpc' = "called"
          \/ server = "mthread" /\ mpc' = "alloc"
      BY <2>1 DEF Call, CreateThread
    <3> QED BY <1>1, <1>2, <1>3, <1>4, <1>5, <3>1, <3>2 DEF Structure, Addresses
  <2>2. CASE Fork
    <3>1. /\ server = "mproc" /\ mpc' = "parent" /\ addrs' = Append(addrs, cur)
          /\ \A d \in Clients : arg'[d] = IF d = cur THEN Len(addrs) + 1 ELSE arg[d]
      BY <1>1, <1>4, <2>2 DEF Fork, Begin, TypeOK
    <3>2. addrs \in Seq(Clients \cup {"zero", "freed"})
      BY <1>1 DEF TypeOK
    <3>3. /\ DOMAIN addrs' = 1 .. Len(addrs) + 1 /\ Len(addrs') = Len(addrs) + 1
          /\ \A i \in 1 .. Len(addrs) : addrs'[i] = addrs[i]
          /\ addrs'[Len(addrs) + 1] = cur
      BY <1>5, <3>1, <3>2, AppendProperties
    <3> QED BY <1>1, <1>2, <1>3, <1>4, <1>5, <3>1, <3>3 DEF Structure, Addresses
  <2> QED BY <2>1, <2>2
<1> QED BY <1>6, <1>7, <1>8 DEF Structure

\* The steps that make main ready for the next connection.
LEMMA StructureInReady ==
    ASSUME IInv, Return \/ CloseInParent \/ AllocAddress
    PROVE  Structure'
<1>1. /\ TypeOK /\ Structure /\ cur \in Clients /\ "main" \notin Clients
  BY EchoAssumption DEF IInv, TypeOK, Structure
<1>2. /\ UNCHANGED <<server, backlog, cur, hpc, arg, cpc>> /\ mpc' = "accept"
  BY DEF Return, CloseInParent, AllocAddress, hVars, cVars
<1>3. /\ DOMAIN addrs = 1 .. Len(addrs) /\ Len(addrs) \in Nat /\ slot \in 1 .. Len(addrs)
  BY <1>1, Indexes
<1>4. Queued'
  BY <1>1, <1>2 DEF Structure, Queued
<1>5. CASE Return
  <2>1. /\ mpc = "called" /\ hpc[cur] = "done" /\ UNCHANGED <<slot, holders>>
        /\ DOMAIN addrs' = DOMAIN addrs
    BY <1>5 DEF Return
  <2>2. server \in {"first", "serial"} /\ \A d \in Clients : hpc[d] \notin Live
    BY <1>1, <2>1 DEF Structure, Loops, Calls, Live, TypeOK
  <2>5. Loops'
    BY <1>2, <2>2 DEF Loops, Calls
  <2>3. Held' /\ Loops'
    BY <1>1, <1>2, <2>1, <2>5 DEF Structure, Held, ProcessOf
  <2>4. Addresses'
    BY <1>1, <1>2, <2>1, <2>2 DEF Structure, Addresses, Live
  <2> QED BY <1>4, <2>3, <2>4 DEF Structure
<1>6. CASE CloseInParent
  <2>1. /\ mpc = "parent" /\ UNCHANGED slot
        /\ DOMAIN addrs' = DOMAIN addrs
        /\ \A i \in DOMAIN addrs : addrs'[i] = IF i = slot THEN "zero" ELSE addrs[i]
        /\ \A d \in Clients : holders'[d] = IF d = cur THEN holders[d] \ {"main"} ELSE holders[d]
    BY <1>1, <1>6 DEF CloseInParent, TypeOK
  <2>2. server = "mproc" /\ slot = 1
    BY <1>1, <2>1 DEF Structure, Loops, Calls, Addresses, TypeOK
  <2>5. Loops'
    BY <1>2, <2>2 DEF Loops, Calls
  <2>6. \A d \in Clients : ProcessOf(d) = d /\ ProcessOf(d)' = d
    BY <1>2, <2>2 DEF ProcessOf
  <2>7. Held'
    <3>1. ASSUME NEW d \in Clients
          PROVE  /\ hpc'[d] = "none" => holders'[d] = {}
                 /\ hpc'[d] \in Live => d \in holders'[d]
                 /\ hpc'[d] = "done" => d \notin holders'[d]
                 /\ holders'[d] \subseteq {"main", d}
                 /\ "main" \notin holders'[d]
      <4>1. /\ hpc[d] = "none" => holders[d] = {}
            /\ hpc[d] \in Live => d \in holders[d]
            /\ hpc[d] = "done" => d \notin holders[d]
            /\ holders[d] \subseteq {"main", d}
            /\ "main" \in holders[d] => cur = d
        BY <1>1, <2>1, <2>2, <2>6 DEF Structure, Held
      <4>2. d # "main"
        BY <1>1
      <4> QED BY <1>2, <2>1, <4>1, <4>2
    <3> QED BY <1>2, <2>6, <3>1 DEF Held
  <2>3. Held' /\ Loops'
    BY <2>5, <2>7
  <2>4. Addresses'
    BY <1>1, <1>2, <2>1, <2>2 DEF Structure, Addresses
  <2> QED BY <1>4, <2>3, <2>4 DEF Structure
<1>7. CASE AllocAddress
  <2>1. mpc = "alloc" /\ UNCHANGED holders /\ addrs' = Append(addrs, "zero") /\ slot' = Len(addrs) + 1
    BY <1>7 DEF AllocAddress
  <2>2. server = "mthread" /\ slot = Len(addrs)
    BY <1>1, <2>1 DEF Structure, Loops, Calls, Addresses, TypeOK
  <2>3. addrs \in Seq(Clients \cup {"zero", "freed"})
    BY <1>1 DEF TypeOK
  <2>4. /\ DOMAIN addrs' = 1 .. Len(addrs) + 1 /\ Len(addrs') = Len(addrs) + 1
        /\ \A i \in 1 .. Len(addrs) : addrs'[i] = addrs[i]
    BY <1>3, <2>1, <2>3, AppendProperties
  <2>5. Held' /\ Loops'
    BY <1>1, <1>2, <2>1, <2>2 DEF Structure, Held, Loops, Calls, ProcessOf
  <2>6. Addresses'
    BY <1>1, <1>2, <1>3, <2>1, <2>2, <2>4 DEF Structure, Addresses
  <2> QED BY <1>4, <2>5, <2>6 DEF Structure
<1> QED BY <1>5, <1>6, <1>7

-----------------------------------------------------------------------------
(* The streams. *)

\* A handler's begin and its end leave the stream of a client as it is, and so
\* does every step for another client.
LEMMA SameEchoes ==
    ASSUME NEW c \in Clients, Echoes(c), server' = server,
           out'[c] = out[c], hbuf'[c] = hbuf[c], c2s'[c] = c2s[c], s2c'[c] = s2c[c],
           cpc'[c] = cpc[c], cbuf'[c] = cbuf[c], typed'[c] = typed[c], shown'[c] = shown[c],
           Orphan(c) => Orphan(c)',
           \/ hpc'[c] = hpc[c]
           \/ hpc'[c] = "done"
           \/ hpc[c] = "none" /\ ~Orphan(c) /\ hpc'[c] = "start"
    PROVE  Echoes(c)'
<1>1. /\ TypedUnits(c)' = TypedUnits(c) /\ Sent(c)' = Sent(c) /\ InTransit(c)' = InTransit(c)
      /\ Gone(c)' = Gone(c) /\ Turns(c)' = Turns(c) /\ Unstarted(c)' = Unstarted(c)
  BY DEF TypedUnits, Sent, InTransit, Gone, Turns, Unstarted
<1>2. Stream(c)' = Stream(c)
  BY <1>1 DEF Stream
<1>3. Begins(Sent(c), Stream(c))'
  BY <1>1, <1>2 DEF Echoes, Begins
<1>4. hpc'[c] = hpc[c] /\ Cut(c) => Cut(c)'
  BY DEF Cut
<1> QED BY <1>1, <1>2, <1>3, <1>4 DEF Echoes

LEMMA EchoesInServer ==
    ASSUME IInv, Main \/ \E d \in Clients : Close(d) \/ Die(d)
    PROVE  Conserved'
<1>1. TypeOK /\ cur \in Clients /\ \A c \in Clients : Echoes(c)
  BY DEF IInv, TypeOK, Conserved
<1>2. UNCHANGED <<server, out, hbuf, c2s, s2c, cpc, cbuf, typed, shown>>
  BY DEF Main, Accept, Call, Return, Fork, CloseInParent, CreateThread, AllocAddress,
         CreationFails, Close, Die, hVars, net, cVars
<1>3. ASSUME NEW c \in Clients
      PROVE  /\ Orphan(c) => Orphan(c)'
             /\ \/ hpc'[c] = hpc[c]
                \/ hpc'[c] = "done"
                \/ hpc[c] = "none" /\ ~Orphan(c) /\ hpc'[c] = "start"
  <2>1. mpc = "dispatch" => hpc[cur] = "none"
    BY DEF IInv, Queued
  <2>2. CASE Main
    BY <1>1, <2>1, <2>2 DEF Main, Accept, Call, Return, Fork, CloseInParent, CreateThread,
                            AllocAddress, CreationFails, EndProcess, Begin, Orphan, Down, TypeOK, hVars
  <2>3. CASE \E d \in Clients : Close(d)
    BY <1>1, <2>3 DEF Close, HMove, Orphan, Down, TypeOK
  <2>4. CASE \E d \in Clients : Die(d)
    BY <1>1, <2>4 DEF Die, EndProcess, Orphan, Down
  <2> QED BY <2>2, <2>3, <2>4
<1>4. \A c \in Clients : Echoes(c)'
  BY <1>1, <1>2, <1>3, SameEchoes
<1> QED BY <1>4 DEF Conserved

\* What SameEchoes asks of the clients a handler or a client does not serve.
LEMMA OtherEchoes ==
    ASSUME IInv, NEW c \in Clients, NEW d \in Clients, c # d,
           Start(c) \/ Send(c) \/ Recv(c) \/ ClientReacts(c) \/ User(c)
    PROVE  Echoes(d)'
<1>1. TypeOK /\ Echoes(d)
  BY DEF IInv, Conserved
<1>3. UNCHANGED <<mpc, cur>>
  BY DEF Start, Send, Recv, ClientReacts, User, Connect, ClientRecv, ClientEnd, Type, Leave,
         HKeep, CKeep, mainVars
<1>2. /\ server' = server /\ hpc'[d] = hpc[d]
      /\ out'[d] = out[d] /\ hbuf'[d] = hbuf[d] /\ c2s'[d] = c2s[d] /\ s2c'[d] = s2c[d]
      /\ cpc'[d] = cpc[d] /\ cbuf'[d] = cbuf[d] /\ typed'[d] = typed[d] /\ shown'[d] = shown[d]
  <2>1. CASE Start(c)
    BY <1>1, <2>1 DEF Start, HMove, HKeep, TypeOK, net, cVars
  <2>2. CASE Send(c)
    BY <1>1, <2>2 DEF Send, HMove, HKeep, TypeOK, cVars
  <2>3. CASE Recv(c)
    BY <1>1, <2>3 DEF Recv, EndOfLine, HMove, HKeep, TypeOK, cVars
  <2>4. CASE Connect(c)
    BY <1>1, <2>4 DEF Connect, CMove, CKeep, TypeOK, net, hVars
  <2>5. CASE ClientRecv(c)
    <3>1. /\ \E x : s2c' = [s2c EXCEPT ![c] = x]
          /\ \E x : cbuf' = [cbuf EXCEPT ![c] = x]
          /\ cpc' = cpc \/ cpc' = [cpc EXCEPT ![c] = "prompt"]
          /\ shown' = shown \/ \E x : shown' = [shown EXCEPT ![c] = x]
      BY <2>5 DEF ClientRecv, CMove
    <3>2. UNCHANGED <<server, hpc, out, hbuf, c2s, typed>>
      BY <2>5 DEF ClientRecv, CKeep, hVars
    <3>3. s2c'[d] = s2c[d] /\ cbuf'[d] = cbuf[d] /\ cpc'[d] = cpc[d] /\ shown'[d] = shown[d]
      BY <1>1, <3>1 DEF TypeOK
    <3> QED BY <3>2, <3>3
  <2>6. CASE ClientEnd(c)
    BY <1>1, <2>6 DEF ClientEnd, CMove, CKeep, TypeOK, net, hVars
  <2>7. CASE Type(c)
    BY <1>1, <2>7 DEF Type, CMove, CKeep, TypeOK, hVars
  <2>8. CASE Leave(c)
    BY <1>1, <2>8 DEF Leave, CMove, CKeep, TypeOK, hVars
  <2> QED BY <2>1, <2>2, <2>3, <2>4, <2>5, <2>6, <2>7, <2>8 DEF ClientReacts, User
<1>4. Orphan(d) => Orphan(d)'
  BY <1>2, <1>3 DEF Orphan, Down
<1> QED BY <1>1, <1>2, <1>4, SameEchoes

LEMMA StreamProperties ==
    ASSUME TypeOK, NEW c \in Clients
    PROVE  /\ TypedUnits(c) \in Seq(Units) /\ Stream(c) \in Seq(Units)
           /\ Len(Stream(c)) = 1 + 2 * typed[c]
           /\ Stream(c)[1] = <<"hi", c>>
           /\ \A k \in 1 .. typed[c] : /\ Stream(c)[2 * k] = <<"line", k>>
                                       /\ Stream(c)[2 * k + 1] = NL
<1>1. typed[c] \in Nat
  BY DEF TypeOK
<1> DEFINE T == TypedUnits(c)
           w == Welcome(c)
<1>2. /\ T \in Seq(Units) /\ Len(T) = 2 * typed[c]
      /\ \A k \in 1 .. typed[c] : T[2 * k - 1] = <<"line", k>> /\ T[2 * k] = NL
  BY <1>1, TypedProperties
<1>3. w \in Seq(Units) /\ Len(w) = 1 /\ w[1] = <<"hi", c>>
  BY UnitTypes DEF Welcome
<1>4. Stream(c) = w \o T
  BY DEF Stream
<1> HIDE DEF T, w
<1>5. /\ w \o T \in Seq(Units) /\ Len(w \o T) = 1 + Len(T)
      /\ \A i \in 1 .. 1 + Len(T) : (w \o T)[i] = IF i <= 1 THEN w[i] ELSE T[i - 1]
  BY <1>2, <1>3, ConcatProperties
<1>6. ASSUME NEW k \in 1 .. typed[c]
      PROVE  (w \o T)[2 * k] = T[2 * k - 1] /\ (w \o T)[2 * k + 1] = T[2 * k]
  <2>1. 2 * k \in 1 .. 1 + Len(T) /\ 2 * k + 1 \in 1 .. 1 + Len(T)
    BY <1>1, <1>2
  <2>2. /\ (w \o T)[2 * k] = IF 2 * k <= 1 THEN w[2 * k] ELSE T[2 * k - 1]
        /\ (w \o T)[2 * k + 1] = IF 2 * k + 1 <= 1 THEN w[2 * k + 1] ELSE T[(2 * k + 1) - 1]
    BY <1>5, <2>1
  <2>3. ~(2 * k <= 1) /\ ~(2 * k + 1 <= 1) /\ (2 * k + 1) - 1 = 2 * k
    BY <1>1
  <2> QED BY <2>2, <2>3
<1>7. (w \o T)[1] = <<"hi", c>>
  <2>1. 1 \in 1 .. 1 + Len(T)
    BY <1>1, <1>2
  <2> QED BY <1>3, <1>5, <2>1
<1> QED BY <1>2, <1>4, <1>5, <1>6, <1>7 DEF T

\* The buffers of a client, and the stream they make.
LEMMA Pieces ==
    ASSUME TypeOK, NEW c \in Clients
    PROVE  /\ out[c] \in Seq(Units) /\ hbuf[c] \in Seq(Units) /\ c2s[c] \in Seq(Units)
           /\ s2c[c] \in Seq(Units) /\ cbuf[c] \in Seq(Units) /\ shown[c] \in Seq(Units)
           /\ hbuf[c] \o c2s[c] \in Seq(Units) /\ InTransit(c) \in Seq(Units)
           /\ shown[c] \o cbuf[c] \in Seq(Units) /\ Sent(c) \in Seq(Units)
<1>1. /\ out[c] \in Seq(Units) /\ hbuf[c] \in Seq(Units) /\ c2s[c] \in Seq(Units)
      /\ s2c[c] \in Seq(Units) /\ cbuf[c] \in Seq(Units) /\ shown[c] \in Seq(Units)
  BY DEF TypeOK
<1>2. hbuf[c] \o c2s[c] \in Seq(Units) /\ shown[c] \o cbuf[c] \in Seq(Units)
  BY <1>1, ConcatProperties
<1>3. InTransit(c) \in Seq(Units) /\ Sent(c) \in Seq(Units)
  BY <1>1, <1>2, ConcatProperties DEF InTransit, Sent
<1> QED BY <1>1, <1>2, <1>3

LEMMA StartEchoes ==
    ASSUME IInv, NEW c \in Clients, Start(c)
    PROVE  Echoes(c)'
<1>1. TypeOK /\ Echoes(c) /\ addrs[arg[c]] = c /\ hpc[c] = "start" /\ hpc'[c] = "send"
  BY DEF IInv, Conserved, Addresses, Start, HMove, TypeOK
<1>2. /\ UNCHANGED <<server, hbuf, c2s, s2c, cpc, cbuf, typed, shown>>
      /\ out'[c] = Welcome(c)
  BY <1>1 DEF Start, HKeep, net, cVars, TypeOK
<1>3. Unstarted(c)
  BY <1>1 DEF Echoes
<1>4. Sent(c) = <<>> /\ Sent(c)' = <<>> /\ Gone(c)' = Gone(c)
  BY <1>2, <1>3 DEF Sent, Unstarted, Gone
<1>5. Stream(c)' = Welcome(c) /\ Stream(c) = Welcome(c)
  <2>1. TypedUnits(c) \in Seq(Units) /\ Len(TypedUnits(c)) = 0
    BY <1>1, <1>3, TypedProperties DEF Unstarted
  <2>2. TypedUnits(c) = <<>> /\ TypedUnits(c)' = TypedUnits(c)
    BY <1>2, <2>1, EmptySeq DEF TypedUnits
  <2>3. Welcome(c) \o <<>> = Welcome(c)
    BY UnitTypes, ConcatEmptySeq
  <2> QED BY <2>2, <2>3 DEF Stream
<1>6. Begins(Sent(c), Stream(c))'
  <2>1. Begins(<<>>, Stream(c))
    BY <1>1, StreamProperties DEF Begins, TypeOK
  <2> QED BY <1>4, <1>5, <2>1 DEF Begins
<1>7. ~Gone(c) => Sent(c)' \o InTransit(c)' = Stream(c)'
  <2> SUFFICES ASSUME ~Gone(c) PROVE Sent(c)' \o InTransit(c)' = Stream(c)'
    OBVIOUS
  <2>1. InTransit(c)' = Welcome(c) \o (<<>> \o <<>>)
    BY <1>2, <1>3 DEF InTransit, Unstarted
  <2>2. <<>> \o <<>> = <<>> /\ Welcome(c) \o <<>> = Welcome(c) /\ <<>> \o Welcome(c) = Welcome(c)
    BY UnitTypes, ConcatEmptySeq, EmptySeq
  <2> QED BY <1>4, <1>5, <2>1, <2>2
<1>8. Turns(c)'
  BY <1>2, <1>3 DEF Turns, Unstarted
<1>9. hbuf'[c] = <<>> /\ out'[c] # <<>>
  BY <1>2, <1>3 DEF Unstarted, Welcome
<1>10. cpc'[c] # "cut" /\ (cpc'[c] # "gone" => ~Gone(c))
  BY <1>2, <1>3 DEF Unstarted, Gone
<1> QED BY <1>1, <1>4, <1>6, <1>7, <1>8, <1>9, <1>10 DEF Echoes

LEMMA SendEchoes ==
    ASSUME IInv, NEW c \in Clients, Send(c)
    PROVE  Echoes(c)'
<1>1. TypeOK /\ Echoes(c)
  BY DEF IInv, Conserved
<1>2. PICK n \in 1 .. Len(out[c]) :
        /\ hpc[c] = "send" /\ hpc'[c] = IF n = Len(out[c]) THEN "recv" ELSE "send"
        /\ out'[c] = SubSeq(out[c], n + 1, Len(out[c]))
        /\ s2c'[c] = IF Gone(c) THEN s2c[c] ELSE s2c[c] \o SubSeq(out[c], 1, n)
  BY <1>1 DEF Send, HMove, TypeOK
<1>3. UNCHANGED <<server, hbuf, c2s, cpc, cbuf, typed, shown>>
  BY DEF Send, HKeep, cVars
<1> DEFINE pre == SubSeq(out[c], 1, n)
           suf == SubSeq(out[c], n + 1, Len(out[c]))
           rest == hbuf[c] \o c2s[c]
<1>4. /\ out[c] \in Seq(Units) /\ Sent(c) \in Seq(Units) /\ s2c[c] \in Seq(Units)
      /\ shown[c] \o cbuf[c] \in Seq(Units) /\ rest \in Seq(Units) /\ n \in 0 .. Len(out[c])
  BY <1>1, Pieces
<1>5. pre \in Seq(Units) /\ suf \in Seq(Units)
  BY <1>4, Split
<1>6. /\ Stream(c)' = Stream(c) /\ Gone(c)' = Gone(c) /\ Turns(c)' = Turns(c)
      /\ InTransit(c)' = suf \o rest /\ InTransit(c) = out[c] \o rest
  BY <1>2, <1>3 DEF Stream, TypedUnits, Gone, Turns, InTransit
<1>7. /\ hbuf'[c] = <<>> /\ cpc[c] # "cut"
      /\ n = Len(out[c]) => out'[c] = <<>>
      /\ n # Len(out[c]) => out'[c] # <<>>
  <2>1. n = Len(out[c]) => suf = <<>>
    BY <1>4, SubSeqEmpty
  <2>2. n # Len(out[c]) => suf # <<>>
    <3>1. Len(suf) = Len(out[c]) - n
      BY <1>4, SubSeqProperties
    <3> HIDE DEF suf
    <3> QED BY <1>4, <3>1, EmptySeq
  <2> QED BY <1>1, <1>2, <1>3, <2>1, <2>2 DEF Echoes, Cut
<1>8. CASE Gone(c)
  <2>1. Sent(c)' = Sent(c)
    BY <1>2, <1>3, <1>8 DEF Sent
  <2>2. Begins(Sent(c), Stream(c))'
    BY <1>1, <1>6, <2>1 DEF Echoes, Begins
  <2> QED BY <1>2, <1>3, <1>6, <1>7, <1>8, <2>2 DEF Echoes, Gone
<1>9. CASE ~Gone(c)
  <2>1. Sent(c)' = Cat(Sent(c), pre)
    <3> DEFINE read == Cat(shown[c], cbuf[c])
               sent == s2c[c]
    <3>1. Sent(c)' = Cat(read, Cat(sent, pre)) /\ Sent(c) = Cat(read, sent)
      BY <1>2, <1>3, <1>9 DEF Sent, Cat
    <3>2. read \in Seq(Units) /\ sent \in Seq(Units) /\ pre \in Seq(Units)
      BY <1>4, <1>5 DEF Cat
    <3> HIDE DEF pre, read, sent
    <3> QED BY <3>1, <3>2, CatFacts
  <2>2. Cat(Cat(Sent(c), pre), Cat(suf, rest)) = Cat(Sent(c), Cat(out[c], rest))
    <3>1. Cat(pre, suf) = out[c]
      BY <1>4, Split DEF Cat
    <3> HIDE DEF pre, suf, rest
    <3> QED BY <1>4, <1>5, <3>1, MovedOn
  <2>3. Sent(c)' \o InTransit(c)' = Stream(c)'
    BY <1>1, <1>2, <1>6, <1>7, <1>9, <2>1, <2>2 DEF Echoes, Cat, Gone
  <2>4. Sent(c)' \in Seq(Units) /\ InTransit(c)' \in Seq(Units)
    BY <1>4, <1>5, <1>6, <2>1, ConcatProperties DEF Cat
  <2>5. Begins(Sent(c)', Stream(c)')
    BY <2>3, <2>4, BeginsWhole
  <2>6. Turns(c)' \/ server # "first"
    BY <1>1, <1>2, <1>6, <1>7, <1>9 DEF Echoes, Gone
  <2>7. Begins(Sent(c), Stream(c))'
    BY <2>5 DEF Begins
  <2> QED BY <1>2, <1>3, <1>6, <1>7, <2>3, <2>6, <2>7 DEF Echoes
<1> QED BY <1>8, <1>9

\* No unit that echoes a line is a request to quit.
LEMMA StreamUnits ==
    ASSUME TypeOK, NEW c \in Clients, NEW i \in 1 .. Len(Stream(c))
    PROVE  Stream(c)[i] # <<"quit", 0>>
<1> DEFINE S == Stream(c)
           n == typed[c]
<1>1. /\ n \in Nat /\ Len(S) = 1 + 2 * n /\ S[1] = <<"hi", c>>
      /\ \A k \in 1 .. n : S[2 * k] = <<"line", k>> /\ S[2 * k + 1] = NL
  BY StreamProperties DEF TypeOK
<1> HIDE DEF S, n
<1>2. i \in 1 .. 1 + 2 * n
  BY <1>1 DEF S
<1> DEFINE k == i \div 2
<1>3. i = 1 \/ (k \in 1 .. n /\ (i = 2 * k \/ i = 2 * k + 1))
  BY <1>1, <1>2
<1>4. CASE i = 1
  BY <1>1, <1>4 DEF S
<1>5. CASE k \in 1 .. n /\ (i = 2 * k \/ i = 2 * k + 1)
  <2> HIDE DEF k
  <2>1. S[i] = <<"line", k>> \/ S[i] = NL
    BY <1>1, <1>5
  <2> QED BY <2>1 DEF NL, S
<1> QED BY <1>3, <1>4, <1>5

LEMMA RecvEchoes ==
    ASSUME IInv, NEW c \in Clients, Recv(c)
    PROVE  Echoes(c)'
<1>1. TypeOK /\ Echoes(c) /\ hpc[c] = "recv"
  BY DEF IInv, Conserved, Recv
<1>2. UNCHANGED <<server, s2c, cpc, cbuf, typed, shown>>
  BY DEF Recv, HKeep, cVars
<1>3. /\ Sent(c)' = Sent(c) /\ Stream(c)' = Stream(c) /\ Gone(c)' = Gone(c) /\ Turns(c)' = Turns(c)
      /\ Begins(Sent(c), Stream(c))'
  <2>1. /\ Sent(c)' = Sent(c) /\ Stream(c)' = Stream(c) /\ Gone(c)' = Gone(c) /\ Turns(c)' = Turns(c)
    BY <1>2 DEF Sent, Stream, TypedUnits, Gone, Turns
  <2> QED BY <1>1, <2>1 DEF Echoes, Begins
<1>4. /\ out[c] = <<>> /\ hbuf[c] \in Seq(Units) /\ c2s[c] \in Seq(Units) /\ Sent(c) \in Seq(Units)
      /\ cpc[c] \notin {"gone", "cut"} =>
            Cat(Sent(c), Cat(hbuf[c], c2s[c])) = Stream(c) /\ (server = "first" => Turns(c))
  <2>1. out[c] = <<>> /\ (cpc[c] \notin {"gone", "cut"} => Sent(c) \o InTransit(c) = Stream(c) /\ (server = "first" => Turns(c)))
    BY <1>1 DEF Echoes
  <2>2. hbuf[c] \in Seq(Units) /\ c2s[c] \in Seq(Units) /\ Sent(c) \in Seq(Units)
    BY <1>1, Pieces
  <2>3. Sent(c) \o InTransit(c) = Cat(Sent(c), Cat(<<>>, Cat(hbuf[c], c2s[c])))
    BY <2>1 DEF InTransit, Cat
  <2>4. Cat(<<>>, Cat(hbuf[c], c2s[c])) = Cat(hbuf[c], c2s[c])
    BY <2>2, CatFacts
  <2> QED BY <2>1, <2>2, <2>3, <2>4
<1>5. ASSUME NEW line \in Seq(Units), EndOfLine(c, line)
      PROVE  /\ hbuf'[c] = <<>> /\ out'[c] = line
             /\ \/ hpc'[c] = "close" /\ Ends(line)
                \/ hpc'[c] = "recv" /\ line = <<>>
                \/ hpc'[c] = "send" /\ line # <<>>
  BY <1>1, <1>5 DEF EndOfLine, HMove, Ends, TypeOK
<1> DEFINE line == Append(hbuf[c], Head(c2s[c]))
           tail == Tail(c2s[c])
<1>6. c2s[c] # <<>> => line \in Seq(Units) /\ tail \in Seq(Units) /\ Cat(line, tail) = Cat(hbuf[c], c2s[c]) /\ line # <<>>
  <2> SUFFICES ASSUME c2s[c] # <<>>
               PROVE  line \in Seq(Units) /\ tail \in Seq(Units) /\ Cat(line, tail) = Cat(hbuf[c], c2s[c]) /\ line # <<>>
    OBVIOUS
  <2>1. line \in Seq(Units) /\ tail \in Seq(Units) /\ line \o tail = hbuf[c] \o c2s[c]
    BY <1>4, Taken
  <2>2. Head(c2s[c]) \in Units
    BY <1>4, HeadTailProperties
  <2>3. line # <<>>
    BY <1>4, <2>2, AppendProperties
  <2> QED BY <2>1, <2>3 DEF Cat
<1>7. \/ c2s[c] # <<>> /\ c2s'[c] = tail /\ EndOfLine(c, line) /\ Head(c2s[c]) = NL
      \/ c2s[c] # <<>> /\ c2s'[c] = tail /\ hbuf'[c] = line /\ UNCHANGED <<hpc, out>>
      \/ Gone(c) /\ EndOfLine(c, hbuf[c]) /\ UNCHANGED c2s
  BY <1>1 DEF Recv, TypeOK
\* Of a line without its newline nothing ends, and no newline comes after it.
<1>11. cpc[c] = "cut" /\ c2s[c] # <<>> =>
           Head(c2s[c]) # NL /\ s2c[c] = <<>> /\ \A i \in 1 .. Len(tail) : tail[i] # NL
  <2> SUFFICES ASSUME cpc[c] = "cut", c2s[c] # <<>>
               PROVE  Head(c2s[c]) # NL /\ s2c[c] = <<>> /\ \A i \in 1 .. Len(tail) : tail[i] # NL
    OBVIOUS
  <2>1. s2c[c] = <<>> /\ \A i \in 1 .. Len(c2s[c]) : c2s[c][i] # NL
    BY <1>1 DEF Echoes, Cut
  <2>2. /\ Len(tail) = Len(c2s[c]) - 1 /\ Len(c2s[c]) \in Nat /\ Len(c2s[c]) >= 1
        /\ \A i \in 1 .. Len(tail) : tail[i] = c2s[c][i + 1]
        /\ Head(c2s[c]) = c2s[c][1]
    BY <1>4, HeadTailProperties, LenProperties, EmptySeq
  <2>3. ASSUME NEW i \in 1 .. Len(tail) PROVE tail[i] # NL
    <3> HIDE DEF tail
    <3>1. i + 1 \in 1 .. Len(c2s[c])
      BY <2>2
    <3> QED BY <2>1, <2>2, <3>1
  <2>4. Head(c2s[c]) # NL
    <3>1. 1 \in 1 .. Len(c2s[c])
      BY <2>2
    <3> QED BY <2>1, <2>2, <3>1
  <2> QED BY <2>1, <2>3, <2>4
<1> HIDE DEF line, tail
<1>8. CASE c2s[c] # <<>> /\ c2s'[c] = tail /\ EndOfLine(c, line) /\ Head(c2s[c]) = NL
  <2>1. Sent(c)' \o InTransit(c)' = Cat(Sent(c), Cat(line, Cat(<<>>, tail)))
    BY <1>3, <1>5, <1>6, <1>8 DEF InTransit, Cat
  <2>2. Cat(<<>>, tail) = tail
    BY <1>6, <1>8, CatFacts
  <2>3. ~Gone(c) => Sent(c)' \o InTransit(c)' = Stream(c)'
    BY <1>3, <1>4, <1>6, <1>8, <1>11, <2>1, <2>2 DEF Gone
  <2>4. line = Quit => Gone(c)
    <3> SUFFICES ASSUME line = Quit, ~Gone(c) PROVE FALSE
      OBVIOUS
    <3> DEFINE i == Len(Sent(c)) + 1
    <3>1. Stream(c) = Cat(Sent(c), Cat(Quit, tail))
      BY <1>4, <1>6, <1>8, <1>11 DEF Gone
    <3>2. Sent(c) \in Seq(Units) /\ Quit \in Seq(Units) /\ tail \in Seq(Units) /\ Len(Sent(c)) \in Nat /\ Len(tail) \in Nat
      BY <1>4, <1>6, <1>8, UnitTypes, LenProperties
    <3>3. /\ Cat(Quit, tail) \in Seq(Units) /\ Len(Cat(Quit, tail)) = 2 + Len(tail)
          /\ Cat(Quit, tail)[1] = <<"quit", 0>>
      <4>1. Len(Quit) = 2 /\ Quit[1] = <<"quit", 0>>
        BY DEF Quit
      <4>2. Len(Cat(Quit, tail)) = Len(Quit) + Len(tail) /\ Cat(Quit, tail)[1] = Quit[1]
        <5>1. Quit \in Seq(Units) /\ tail \in Seq(Units) /\ Len(Quit) >= 1
          BY <3>2, <4>1
        <5> QED BY <5>1, CatElements
      <4> QED BY <3>2, <4>1, <4>2, CatFacts
    <3> DEFINE q == Cat(Quit, tail)
               sent == Sent(c)
    <3> HIDE DEF q, sent
    <3>4. Len(Cat(sent, q)) = Len(sent) + Len(q) /\ Cat(sent, q)[Len(sent) + 1] = q[1]
      <4>1. sent \in Seq(Units) /\ q \in Seq(Units) /\ Len(q) >= 1
        BY <3>2, <3>3 DEF q, sent
      <4> QED BY <4>1, CatElements
    <3>5. i \in 1 .. Len(Stream(c)) /\ Stream(c)[i] = <<"quit", 0>>
      BY <3>1, <3>2, <3>3, <3>4 DEF q, sent
    <3> QED BY <1>1, <3>5, StreamUnits
  <2>5. hpc'[c] = "close" => Gone(c)
    BY <1>5, <1>6, <1>8, <2>4 DEF Ends
  <2>6. hbuf'[c] = <<>> /\ hpc'[c] \in {"close", "send"} /\ out'[c] # <<>>
    BY <1>5, <1>6, <1>8
  <2>7. cpc[c] # "cut" /\ cpc' = cpc
    BY <1>2, <1>8, <1>11
  <2> QED BY <1>2, <1>3, <1>4, <2>3, <2>5, <2>6, <2>7 DEF Echoes, Gone
<1>9. CASE c2s[c] # <<>> /\ c2s'[c] = tail /\ hbuf'[c] = line /\ UNCHANGED <<hpc, out>>
  <2>1. Sent(c)' \o InTransit(c)' = Cat(Sent(c), Cat(<<>>, Cat(line, tail)))
    BY <1>3, <1>4, <1>9 DEF InTransit, Cat
  <2>2. Cat(<<>>, Cat(line, tail)) = Cat(line, tail)
    BY <1>6, <1>9, CatFacts
  <2>3. cpc[c] \notin {"gone", "cut"} => Sent(c)' \o InTransit(c)' = Stream(c)'
    BY <1>3, <1>4, <1>6, <1>9, <2>1, <2>2
  <2>4. cpc[c] = "cut" => Cut(c)'
    BY <1>1, <1>2, <1>9, <1>11 DEF Cut
  <2> QED BY <1>1, <1>2, <1>3, <1>4, <1>9, <2>3, <2>4 DEF Echoes
<1>10. CASE Gone(c) /\ EndOfLine(c, hbuf[c]) /\ UNCHANGED c2s
  <2>1. /\ hbuf'[c] = <<>> /\ hpc'[c] \in {"close", "recv", "send"}
        /\ hpc'[c] = "recv" => out'[c] = <<>>
        /\ hpc'[c] = "send" => out'[c] # <<>>
    BY <1>4, <1>5, <1>10
  <2> QED BY <1>2, <1>3, <1>10, <2>1 DEF Echoes, Gone
<1> QED BY <1>7, <1>8, <1>9, <1>10

LEMMA ConnectEchoes ==
    ASSUME IInv, NEW c \in Clients, Connect(c)
    PROVE  Echoes(c)'
<1>1. TypeOK /\ Echoes(c) /\ cpc[c] = "start" /\ cpc'[c] \in {"welcome", "gone"}
  BY DEF IInv, Conserved, Connect, CMove, TypeOK
<1>2. hpc[c] = "none"
  BY <1>1 DEF IInv, Queued
<1>3. UNCHANGED <<server, hpc, out, hbuf, c2s, s2c, cbuf, typed, shown>>
  BY DEF Connect, CKeep, hVars, net
<1>4. UNCHANGED <<mpc, cur>> /\ (~Orphan(c) => Unstarted(c) /\ ~Gone(c))
  BY <1>1, <1>2 DEF Echoes, Gone, Connect, CKeep, mainVars
<1>5. ~Orphan(c)' => Unstarted(c)'
  BY <1>1, <1>2, <1>3, <1>4 DEF Unstarted, Gone, Orphan, Down
<1>6. Begins(Sent(c), Stream(c))'
  <2>1. Sent(c)' = Sent(c) /\ Stream(c)' = Stream(c)
    BY <1>3 DEF Sent, Stream, TypedUnits
  <2> QED BY <1>1, <2>1 DEF Echoes, Begins
<1> QED BY <1>2, <1>3, <1>5, <1>6 DEF Echoes

LEMMA LeaveEchoes ==
    ASSUME IInv, NEW c \in Clients, Leave(c)
    PROVE  Echoes(c)'
<1>1. TypeOK /\ Echoes(c) /\ cpc'[c] = "gone"
  BY DEF IInv, Conserved, Leave, CMove, TypeOK
<1>2. UNCHANGED <<server, hpc, out, hbuf, s2c, cbuf, typed, shown>>
  BY DEF Leave, CKeep, hVars
<1>3. Begins(Sent(c), Stream(c))'
  <2>1. Sent(c)' = Sent(c) /\ Stream(c)' = Stream(c)
    BY <1>2 DEF Sent, Stream, TypedUnits
  <2> QED BY <1>1, <2>1 DEF Echoes, Begins
<1>4. Gone(c)' /\ (Unstarted(c) => Unstarted(c)') /\ Orphan(c)' = Orphan(c)
  BY <1>1, <1>2 DEF Gone, Unstarted, Leave, CKeep, mainVars, Orphan, Down
<1> QED BY <1>1, <1>2, <1>3, <1>4 DEF Echoes

LEMMA ClientEndEchoes ==
    ASSUME IInv, NEW c \in Clients, ClientEnd(c)
    PROVE  Echoes(c)'
<1>1. /\ TypeOK /\ Echoes(c) /\ s2c[c] = <<>> /\ cbuf'[c] = <<>>
      /\ cpc'[c] = IF Released(c) /\ c2s[c] = <<>> THEN "prompt" ELSE "gone"
      /\ Released(c) \/ hpc[c] = "none"
  BY DEF IInv, Conserved, ClientEnd, CMove, TypeOK
<1>2. UNCHANGED <<server, hpc, out, hbuf, c2s, s2c, typed, shown>>
  BY DEF ClientEnd, CKeep, hVars, net
<1>3. hpc[c] \in {"none", "done"}
  BY <1>1 DEF IInv, Held, Live, Released, Orphan, TypeOK
<1>4. Begins(Sent(c), Stream(c))'
  <2> DEFINE a == shown[c]
             b == cbuf[c]
  <2>1. a \in Seq(Units) /\ b \in Seq(Units)
    BY <1>1, Pieces
  <2>2. Sent(c) = Cat(Cat(a, b), <<>>) /\ Sent(c)' = Cat(Cat(a, <<>>), <<>>) /\ Stream(c)' = Stream(c)
    BY <1>1, <1>2 DEF Sent, Cat, Stream, TypedUnits
  <2> HIDE DEF a, b
  <2>3. Sent(c) = Cat(a, b) /\ Sent(c)' = a
    BY <2>1, <2>2, CatFacts
  <2>4. Begins(a \o b, Stream(c))
    BY <1>1, <2>3 DEF Echoes, Cat
  <2>5. Stream(c) \in Seq(Units)
    BY <1>1, StreamProperties
  <2>6. Begins(a, Stream(c))
    BY <2>1, <2>4, <2>5, BeginsLess
  <2> QED BY <2>2, <2>3, <2>6 DEF Begins
<1>5. CASE hpc[c] = "none"
  <2>1. Orphan(c)' = Orphan(c) /\ (~Orphan(c) => Unstarted(c) /\ cpc'[c] = "gone")
    BY <1>1, <1>2, <1>5 DEF Echoes, Released, ClientEnd, CKeep, mainVars, Orphan, Down
  <2>2. ~Orphan(c) => Unstarted(c)'
    BY <1>1, <1>2, <2>1 DEF Unstarted, Gone
  <2> QED BY <1>2, <1>4, <1>5, <2>1, <2>2 DEF Echoes
<1>6. CASE hpc[c] = "done"
  BY <1>2, <1>4, <1>6 DEF Echoes
<1> QED BY <1>3, <1>5, <1>6

\* At the prompt of 07's client everything has been shown, and nothing is on
\* its way.
LEMMA NothingInTransit ==
    ASSUME TypeOK, NEW c \in Clients, Echoes(c), server = "first", cpc[c] = "prompt",
           hpc[c] \in {"send", "recv"}
    PROVE  hpc[c] = "recv" /\ s2c[c] = <<>> /\ c2s[c] = <<>>
<1> DEFINE a == shown[c]
           k == cbuf[c]
           s == s2c[c]
           o == out[c]
           h == hbuf[c]
           r == c2s[c]
<1>1. /\ a \in Seq(Units) /\ k \in Seq(Units) /\ s \in Seq(Units)
      /\ o \in Seq(Units) /\ h \in Seq(Units) /\ r \in Seq(Units)
  BY Pieces
<1>2. /\ Len(a) = 1 + 2 * typed[c] /\ typed[c] \in Nat
      /\ Cat(Cat(Cat(a, k), s), Cat(o, Cat(h, r))) = Stream(c)
  BY DEF Echoes, Turns, Sent, InTransit, Cat, TypeOK
<1>3. Len(Stream(c)) = 1 + 2 * typed[c]
  BY StreamProperties
<1>4. o = <<>> => hpc[c] = "recv"
  BY DEF Echoes
<1> HIDE DEF a, k, s, o, h, r
<1>5. /\ Cat(a, k) \in Seq(Units) /\ Len(Cat(a, k)) = Len(a) + Len(k)
      /\ Cat(h, r) \in Seq(Units) /\ Len(Cat(h, r)) = Len(h) + Len(r)
      /\ Len(a) \in Nat /\ Len(k) \in Nat /\ Len(h) \in Nat /\ Len(r) \in Nat
  BY <1>1, CatFacts, CatElements
<1> DEFINE ak == Cat(a, k)
           hr == Cat(h, r)
<1>6. ak \in Seq(Units) /\ hr \in Seq(Units)
  BY <1>5
<1> HIDE DEF ak, hr
<1>7. /\ Cat(ak, s) \in Seq(Units) /\ Len(Cat(ak, s)) = Len(ak) + Len(s)
      /\ Cat(o, hr) \in Seq(Units) /\ Len(Cat(o, hr)) = Len(o) + Len(hr)
      /\ Len(s) \in Nat /\ Len(o) \in Nat
  BY <1>1, <1>6, CatFacts, CatElements
<1> DEFINE x == Cat(ak, s)
           y == Cat(o, hr)
<1>8. x \in Seq(Units) /\ y \in Seq(Units)
  BY <1>7
<1> HIDE DEF x, y
<1>9. Len(Cat(x, y)) = Len(x) + Len(y)
  BY <1>8, CatElements
<1>10. Len(x) + Len(y) = Len(a)
  BY <1>2, <1>3, <1>9 DEF x, y, ak, hr
<1>11. Len(s) = 0 /\ Len(o) = 0 /\ Len(r) = 0
  BY <1>5, <1>7, <1>10 DEF x, y, ak, hr
<1>12. s = <<>> /\ o = <<>> /\ r = <<>>
  BY <1>1, <1>11, EmptySeq
<1> QED BY <1>4, <1>12 DEF s, r

LEMMA TypeEchoes ==
    ASSUME IInv, NEW c \in Clients, Type(c)
    PROVE  Echoes(c)'
<1> DEFINE n == typed[c]
           l == Line(n + 1)
<1>1. /\ TypeOK /\ Echoes(c) /\ n \in Nat /\ typed'[c] = n + 1
      /\ cpc[c] = "prompt"
      /\ \/ cpc'[c] = "response" /\ c2s'[c] = c2s[c] \o l
         \/ server = "first" /\ cpc'[c] = "cut" /\ c2s'[c] = Append(c2s[c], l[1])
  <2>1. TypeOK /\ Echoes(c)
    BY DEF IInv, Conserved
  <2>2. typed \in [Clients -> Nat] /\ cpc \in [Clients -> {"start", "welcome", "prompt", "response", "cut", "gone"}]
        /\ c2s \in [Clients -> Seq(Units)]
    BY <2>1 DEF TypeOK
  <2> QED BY <2>1, <2>2 DEF Type, CMove
<1>2. UNCHANGED <<server, hpc, out, hbuf, s2c, cbuf, shown>>
  BY DEF Type, CKeep, hVars
<1>3. ~Unstarted(c) /\ ~Gone(c) /\ ~Gone(c)' /\ Orphan(c)' = Orphan(c)
  BY <1>1, <1>2 DEF Unstarted, Gone, Type, CKeep, mainVars, Orphan, Down
<1>4. Stream(c)' = Cat(Stream(c), l) /\ Stream(c) \in Seq(Units) /\ l \in Seq(Units)
  <2> DEFINE w == Welcome(c)
             u == UnitsOf(n)
  <2>1. TypedUnits(c)' = UnitsOf(n + 1) /\ TypedUnits(c) = u
    BY <1>1 DEF TypedUnits, UnitsOf
  <2>2. UnitsOf(n + 1) = Cat(u, l) /\ w \in Seq(Units) /\ u \in Seq(Units) /\ l \in Seq(Units)
    <3>1. n \in Nat /\ n + 1 \in Nat
      BY <1>1
    <3>2. w \in Seq(Units) /\ l \in Seq(Units)
      BY <3>1, UnitTypes
    <3>3. u \in Seq(Units)
      BY <3>1, UnitsProperties
    <3>4. UnitsOf(n + 1) = u \o l
      BY <3>1, UnitsMore
    <3> QED BY <3>2, <3>3, <3>4 DEF Cat
  <2>3. Stream(c) = Cat(w, u) /\ Stream(c)' = Cat(w, Cat(u, l))
    BY <2>1, <2>2 DEF Stream, Cat
  <2> HIDE DEF w, u, l
  <2>4. Cat(w, Cat(u, l)) = Cat(Cat(w, u), l) /\ Cat(w, u) \in Seq(Units)
    BY <2>2, CatFacts
  <2> QED BY <2>2, <2>3, <2>4
<1>5. Sent(c)' = Sent(c) /\ Sent(c) \in Seq(Units)
  BY <1>1, <1>2, Pieces DEF Sent
<1>6. Begins(Sent(c), Stream(c))'
  <2> DEFINE s == Sent(c)
             t == Stream(c)
  <2>1. Begins(s, t) /\ s \in Seq(Units) /\ t \in Seq(Units) /\ l \in Seq(Units)
    BY <1>1, <1>4, <1>5 DEF Echoes
  <2> HIDE DEF s, t, l
  <2>2. Begins(s, t \o l)
    BY <2>1, BeginsMore
  <2>3. Sent(c)' = s /\ Stream(c)' = t \o l
    BY <1>4, <1>5 DEF Cat, s, t
  <2> QED BY <2>2, <2>3 DEF Begins
<1>7. hpc[c] \in {"send", "recv", "done"} \/ (hpc[c] = "none" /\ Orphan(c))
  BY <1>1, <1>3 DEF Echoes, TypeOK, Gone
<1>8. hpc[c] \in {"send", "recv"} /\ cpc'[c] = "response" =>
          Sent(c)' \o InTransit(c)' = Stream(c)' /\ (server = "first" => Turns(c)')
  <2> SUFFICES ASSUME hpc[c] \in {"send", "recv"}, cpc'[c] = "response"
               PROVE  Sent(c)' \o InTransit(c)' = Stream(c)' /\ (server = "first" => Turns(c)')
    OBVIOUS
  <2> DEFINE s == Sent(c)
             o == out[c]
             h == hbuf[c]
             r == c2s[c]
  <2>1. s \in Seq(Units) /\ o \in Seq(Units) /\ h \in Seq(Units) /\ r \in Seq(Units) /\ l \in Seq(Units)
    BY <1>1, <1>4, Pieces
  <2>2. Cat(s, Cat(o, Cat(h, r))) = Stream(c) /\ (server = "first" => Turns(c))
    BY <1>1, <1>3 DEF Echoes, InTransit, Cat
  <2>3. Sent(c)' \o InTransit(c)' = Cat(s, Cat(o, Cat(h, Cat(r, l))))
    BY <1>1, <1>2, <1>5 DEF InTransit, Cat
  <2>4. server = "first" => Turns(c)'
    BY <1>1, <1>2, <2>2 DEF Turns
  <2> HIDE DEF s, o, h, r, l
  <2>5. Cat(h, r) \in Seq(Units) /\ Cat(h, Cat(r, l)) = Cat(Cat(h, r), l)
    BY <2>1, CatFacts
  <2>6. Cat(o, Cat(h, r)) \in Seq(Units) /\ Cat(o, Cat(Cat(h, r), l)) = Cat(Cat(o, Cat(h, r)), l)
    BY <2>1, <2>5, CatFacts
  <2>7. Cat(s, Cat(Cat(o, Cat(h, r)), l)) = Cat(Cat(s, Cat(o, Cat(h, r))), l)
    BY <2>1, <2>6, CatFacts
  <2> QED BY <1>4, <2>2, <2>3, <2>4, <2>5, <2>6, <2>7
<1>9. /\ hpc[c] = "recv" => out[c] = <<>>
      /\ hpc[c] = "send" => hbuf[c] = <<>> /\ out[c] # <<>>
  BY <1>1 DEF Echoes
<1>10. hpc[c] \in {"send", "recv"} /\ cpc'[c] = "cut" => Cut(c)'
  <2> SUFFICES ASSUME hpc[c] \in {"send", "recv"}, cpc'[c] = "cut" PROVE Cut(c)'
    OBVIOUS
  <2>1. hpc[c] = "recv" /\ s2c[c] = <<>> /\ c2s[c] = <<>>
    BY <1>1, NothingInTransit
  <2>2. c2s'[c] = << <<"line", n + 1>> >>
    BY <1>1, <2>1 DEF Line
  <2>3. Len(c2s'[c]) = 1 /\ c2s'[c][1] # NL
    BY <2>2 DEF NL
  <2> QED BY <1>2, <2>1, <2>3 DEF Cut
<1> QED BY <1>1, <1>2, <1>3, <1>6, <1>7, <1>8, <1>9, <1>10 DEF Echoes

\* The client of 07 prompts its user when it has seen the end of a line, and
\* the only line it can see the end of is the last one the user typed.
LEMMA WholeLine ==
    ASSUME TypeOK, NEW c \in Clients, Turns(c), cpc[c] \in {"welcome", "response"},
           NEW a \in Seq(Units), NEW b \in Seq(Units), a = shown[c], Len(b) >= 1,
           Begins(a \o b, Stream(c)), b[Len(b)][1] \in {"hi", "nl"}
    PROVE  Len(a \o b) = 1 + 2 * typed[c]
<1> DEFINE S == Stream(c)
           t == typed[c]
           m == Len(a) + Len(b)
<1>1. /\ t \in Nat /\ Len(S) = 1 + 2 * t
      /\ \A k \in 1 .. t : S[2 * k] = <<"line", k>>
  BY StreamProperties DEF TypeOK
<1>2. /\ cpc[c] = "welcome" => Len(a) = 0 /\ t = 0
      /\ cpc[c] = "response" => Len(a) = 2 * t - 1
  BY DEF Turns
<1>3. cpc[c] \in {"welcome", "response"}
  OBVIOUS
<1>4. Len(a) \in Nat /\ Len(b) \in Nat /\ Len(a \o b) = m /\ (a \o b)[m] = b[Len(b)]
  BY ConcatProperties, LenProperties
<1> HIDE DEF S, t
<1>5. m <= Len(S) /\ S[m] = b[Len(b)]
  <2>1. Len(a \o b) <= Len(S) /\ \A i \in 1 .. Len(a \o b) : (a \o b)[i] = S[i]
    BY DEF Begins, S
  <2> QED BY <1>4, <2>1
<1>6. CASE cpc[c] = "welcome"
  BY <1>1, <1>2, <1>4, <1>5, <1>6 DEF t
<1>7. CASE cpc[c] = "response"
  <2>1. t \in 1 .. t /\ m >= 2 * t
    BY <1>1, <1>2, <1>4, <1>7
  <2>2. m # 2 * t
    <3> SUFFICES ASSUME m = 2 * t PROVE FALSE
      OBVIOUS
    <3>1. S[m] = <<"line", t>>
      BY <1>1, <2>1
    <3> HIDE DEF m
    <3>2. b[Len(b)][1] = "line"
      BY <1>5, <3>1
    <3> QED BY <3>2
  <2>3. m = 1 + 2 * t
    <3>1. m \in Nat /\ m <= 1 + 2 * t
      BY <1>1, <1>4, <1>5
    <3> HIDE DEF m
    <3> QED BY <1>1, <2>1, <2>2, <3>1
  <2>4. Len(a \o b) = m
    BY <1>4
  <2> HIDE DEF m
  <2> QED BY <2>3, <2>4 DEF t
<1> QED BY <1>3, <1>6, <1>7

LEMMA ClientRecvEchoes ==
    ASSUME IInv, NEW c \in Clients, ClientRecv(c)
    PROVE  Echoes(c)'
<1>1. TypeOK /\ Echoes(c) /\ cpc[c] \in Waiting
  BY DEF IInv, Conserved, ClientRecv
<1>2. UNCHANGED <<server, hpc, out, hbuf, c2s, typed>>
  BY DEF ClientRecv, CKeep, hVars
<1>3. PICK n \in 1 .. Len(s2c[c]) :
        LET buf == cbuf[c] \o SubSeq(s2c[c], 1, n)
            whole == server = "first" => buf[Len(buf)][1] \in {"hi", "nl"}
        IN  /\ s2c' = [s2c EXCEPT ![c] = SubSeq(@, n + 1, Len(@))]
            /\ cbuf' = [cbuf EXCEPT ![c] = IF whole THEN <<>> ELSE buf]
            /\ IF whole THEN /\ CMove(c, Waiting, "prompt")
                             /\ shown' = [shown EXCEPT ![c] = @ \o buf]
                        ELSE UNCHANGED <<cpc, shown>>
  BY DEF ClientRecv
<1> DEFINE a == shown[c]
           k == cbuf[c]
           pre == SubSeq(s2c[c], 1, n)
           suf == SubSeq(s2c[c], n + 1, Len(s2c[c]))
           buf == Cat(k, pre)
           whole == server = "first" => buf[Len(buf)][1] \in {"hi", "nl"}
<1>4. /\ s2c' = [s2c EXCEPT ![c] = suf]
      /\ cbuf' = [cbuf EXCEPT ![c] = IF whole THEN <<>> ELSE buf]
      /\ whole => cpc' = [cpc EXCEPT ![c] = "prompt"] /\ shown' = [shown EXCEPT ![c] = Cat(a, buf)]
      /\ ~whole => UNCHANGED <<cpc, shown>>
  BY <1>3 DEF CMove, Cat
<1>5. /\ a \in Seq(Units) /\ k \in Seq(Units) /\ s2c[c] \in Seq(Units)
      /\ pre \in Seq(Units) /\ suf \in Seq(Units) /\ Cat(pre, suf) = s2c[c] /\ Len(pre) = n
  <2>1. a \in Seq(Units) /\ k \in Seq(Units) /\ s2c[c] \in Seq(Units)
    BY <1>1, Pieces
  <2>2. n \in 0 .. Len(s2c[c])
    BY <2>1, LenProperties
  <2> QED BY <2>1, <2>2, Split DEF Cat
<1> HIDE DEF pre, suf
<1>6. /\ s2c'[c] = suf /\ cbuf'[c] = IF whole THEN <<>> ELSE buf
      /\ whole => cpc'[c] = "prompt" /\ shown'[c] = Cat(a, buf)
      /\ ~whole => cpc'[c] = cpc[c] /\ shown'[c] = a
  BY <1>1, <1>4 DEF TypeOK
<1>7. Sent(c) = Cat(Cat(a, k), Cat(pre, suf)) /\ Sent(c)' = Cat(Cat(shown'[c], cbuf'[c]), suf)
  BY <1>5, <1>6 DEF Sent, Cat
<1>8. Len(buf) >= 1 /\ buf \in Seq(Units)
  <2> HIDE DEF k
  <2>1. Len(Cat(k, pre)) = Len(k) + Len(pre) /\ Len(k) \in Nat
    BY <1>5, CatElements
  <2>2. Cat(k, pre) \in Seq(Units)
    BY <1>5, CatFacts
  <2> QED BY <1>5, <2>1, <2>2
<1>9. Sent(c)' = Sent(c) /\ Sent(c) = Cat(Cat(a, buf), suf) /\ Cat(a, buf) \in Seq(Units)
  <2> HIDE DEF a, k
  <2>1. Cat(Cat(a, k), Cat(pre, suf)) = Cat(Cat(a, Cat(k, pre)), suf)
    <3>1. Cat(Cat(Cat(a, k), pre), suf) = Cat(Cat(a, k), Cat(pre, suf)) /\ Cat(Cat(a, k), pre) = Cat(a, Cat(k, pre))
      <4>1. Cat(a, k) \in Seq(Units)
        BY <1>5, CatFacts
      <4>2. Cat(Cat(Cat(a, k), pre), suf) = Cat(Cat(a, k), Cat(pre, suf))
        <5> DEFINE ak == Cat(a, k)
        <5>1. ak \in Seq(Units) /\ pre \in Seq(Units) /\ suf \in Seq(Units)
          BY <1>5, <4>1
        <5> HIDE DEF ak
        <5>2. Cat(Cat(ak, pre), suf) = Cat(ak, Cat(pre, suf))
          BY <5>1, CatFacts
        <5> QED BY <5>2 DEF ak
      <4>3. Cat(Cat(a, k), pre) = Cat(a, Cat(k, pre))
        BY <1>5, CatFacts
      <4> QED BY <4>2, <4>3
    <3> QED BY <3>1
  <2>2. Cat(a, Cat(k, pre)) \in Seq(Units)
    BY <1>5, CatFacts
  <2>3. whole => Cat(shown'[c], cbuf'[c]) = Cat(a, buf)
    BY <1>6, <2>2, CatFacts
  <2>4. ~whole => Cat(shown'[c], cbuf'[c]) = Cat(a, buf)
    BY <1>6
  <2> QED BY <1>7, <2>1, <2>2, <2>3, <2>4
<1> HIDE DEF buf
<1>10. Stream(c)' = Stream(c) /\ InTransit(c)' = InTransit(c)
  BY <1>2 DEF Stream, TypedUnits, InTransit
<1>11. Begins(Sent(c), Stream(c))' /\ ~Gone(c)
  BY <1>1, <1>9, <1>10 DEF Echoes, Begins, Gone, Waiting
<1>12. /\ hpc[c] \in {"send", "recv", "done"} \/ (hpc[c] = "none" /\ Orphan(c))
       /\ Orphan(c)' = Orphan(c)
       /\ hpc[c] \in {"send", "recv"} => cpc[c] \in {"welcome", "response"}
  <2>1. s2c[c] # <<>>
    BY <1>5, EmptySeq
  <2>2. ~Unstarted(c) /\ ~Cut(c)
    BY <2>1 DEF Unstarted, Cut
  <2>3. Orphan(c)' = Orphan(c)
    BY <1>2 DEF ClientRecv, CKeep, mainVars, Orphan, Down
  <2> QED BY <1>1, <1>11, <2>2, <2>3 DEF Echoes, TypeOK, Waiting, Gone
<1>13. ASSUME hpc[c] \in {"send", "recv"}, server = "first" PROVE Turns(c)'
  <2>1. Turns(c)
    BY <1>1, <1>11, <1>12, <1>13 DEF Echoes, Gone
  <2>2. CASE ~whole
    BY <1>2, <1>6, <2>1, <2>2 DEF Turns
  <2>3. CASE whole
    <3>1. Begins(a \o buf, Stream(c))
      <4> DEFINE s == Cat(a, buf)
                 t == Stream(c)
      <4>1. s \in Seq(Units) /\ suf \in Seq(Units) /\ t \in Seq(Units) /\ Begins(s \o suf, t)
        BY <1>1, <1>5, <1>9, StreamProperties DEF Cat, Echoes
      <4> HIDE DEF s, t
      <4>2. Begins(s, t)
        BY <4>1, BeginsLess
      <4> QED BY <4>2 DEF s, t, Cat
    <3>2. buf[Len(buf)][1] \in {"hi", "nl"}
      BY <1>13, <2>3
    <3>3. Len(a \o buf) = 1 + 2 * typed[c]
      BY <1>1, <1>5, <1>8, <1>12, <1>13, <2>1, <3>1, <3>2, WholeLine
    <3> QED BY <1>2, <1>6, <2>3, <3>3 DEF Turns, Cat
  <2> QED BY <2>2, <2>3
<1>14. /\ hpc[c] = "recv" => out[c] = <<>>
       /\ hpc[c] = "send" => hbuf[c] = <<>> /\ out[c] # <<>>
       /\ hpc[c] \in {"send", "recv"} => Sent(c) \o InTransit(c) = Stream(c)
  BY <1>1, <1>11, <1>12 DEF Echoes, Gone
<1>15. hpc[c] \in {"send", "recv"} => cpc'[c] # "cut"
  BY <1>6, <1>12
<1> QED BY <1>2, <1>9, <1>10, <1>11, <1>12, <1>13, <1>14, <1>15 DEF Echoes

-----------------------------------------------------------------------------
(* The invariant is inductive. *)

LEMMA ConservedInHandler ==
    ASSUME IInv, NEW c \in Clients, Start(c) \/ Send(c) \/ Recv(c) \/ ClientReacts(c) \/ User(c)
    PROVE  Conserved'
<1>1. Echoes(c)'
  BY StartEchoes, SendEchoes, RecvEchoes, ConnectEchoes, ClientRecvEchoes, ClientEndEchoes,
     TypeEchoes, LeaveEchoes DEF ClientReacts, User
<1>2. \A d \in Clients : d # c => Echoes(d)'
  BY OtherEchoes
<1> QED BY <1>1, <1>2 DEF Conserved

LEMMA ResetsKept ==
    ASSUME IInv, Next
    PROVE  Resets'
<1>1. TypeOK /\ Resets /\ "main" \notin Clients
  BY EchoAssumption DEF IInv
<1>2. CASE Main
  <2>1. UNCHANGED <<server, reset, cpc>> /\ (dead' = dead \/ dead' = dead \cup {"main"})
    BY <1>2 DEF Main, Accept, Call, Return, Fork, CloseInParent, CreateThread, AllocAddress,
                CreationFails, EndProcess, net, cVars
  <2> QED BY <1>1, <2>1 DEF Resets, Gone
<1>3. CASE \E c \in Clients : Handler(c) \/ ClientReacts(c) \/ User(c)
  <2> PICK c \in Clients : Handler(c) \/ ClientReacts(c) \/ User(c)
    BY <1>3
  <2>1. CASE Start(c) \/ Recv(c) \/ Close(c)
    <3>1. UNCHANGED <<server, reset, cpc, dead>>
      BY <2>1 DEF Start, Recv, Close, HKeep, net, cVars
    <3> QED BY <1>1, <3>1 DEF Resets, Gone
  <2>2. CASE Send(c)
    <3>1. UNCHANGED <<server, cpc, dead>> /\ ~reset[c] /\ reset' = [reset EXCEPT ![c] = Gone(c)]
      BY <2>2 DEF Send, HKeep, cVars
    <3>2. \A d \in Clients : reset'[d] = IF d = c THEN Gone(c) ELSE reset[d]
      BY <1>1, <3>1 DEF TypeOK
    <3> QED BY <1>1, <3>1, <3>2 DEF Resets, Gone, TypeOK, Processes
  <2>3. CASE Die(c)
    <3>1. UNCHANGED <<server, cpc, reset>> /\ reset[c] /\ dead' = dead \cup {ProcessOf(c)}
      BY <2>3 DEF Die, EndProcess, net, cVars
    <3> QED BY <1>1, <3>1 DEF Resets, Gone, ProcessOf
  <2>4. CASE ClientReacts(c) \/ Connect(c) \/ Type(c)
    <3>1. UNCHANGED <<server, reset, dead>> /\ ~Gone(c)
      BY <2>4 DEF ClientReacts, ClientRecv, ClientEnd, Connect, Type, CMove, CKeep, net, Waiting, Gone
    <3>2. \A d \in Clients \ {c} : cpc'[d] = cpc[d]
      BY <1>1, <2>4 DEF ClientReacts, ClientRecv, ClientEnd, Connect, Type, CMove, TypeOK
    <3> QED BY <1>1, <3>1, <3>2 DEF Resets, Gone
  <2>5. CASE Leave(c)
    <3>1. /\ UNCHANGED <<server, dead>> /\ ~Gone(c) /\ cpc' = [cpc EXCEPT ![c] = "gone"]
          /\ reset' = [reset EXCEPT ![c] = s2c[c] # <<>>]
      BY <2>5 DEF Leave, CMove, CKeep, Waiting, Gone
    <3>2. ~reset[c]
      BY <1>1, <3>1 DEF Resets
    <3>3. \A d \in Clients : /\ cpc'[d] = IF d = c THEN "gone" ELSE cpc[d]
                             /\ d # c => reset'[d] = reset[d]
      BY <1>1, <3>1 DEF TypeOK
    <3>4. ASSUME server = "mproc", NEW p \in dead \ {"main"} PROVE reset'[p]
      <4>1. reset[p] /\ p \in Clients /\ p # c
        BY <1>1, <3>2, <3>4 DEF Resets, TypeOK, Processes
      <4> QED BY <3>3, <4>1
    <3>5. \A d \in Clients : reset'[d] => cpc'[d] = "gone"
      BY <1>1, <3>3 DEF Resets, Gone
    <3> QED BY <3>1, <3>4, <3>5 DEF Resets, Gone
  <2> QED BY <2>1, <2>2, <2>3, <2>4, <2>5 DEF Handler, ClientReacts, User
<1> QED BY <1>2, <1>3 DEF Next

LEMMA Initially == Init => IInv
<1> SUFFICES ASSUME Init PROVE IInv
  OBVIOUS
<1>1. TypeOK
  <2>1. cur \in Clients /\ addrs \in Seq(Clients \cup {"zero", "freed"})
    BY EchoAssumption DEF Init
  <2> QED BY <2>1, EchoAssumption DEF Init, TypeOK
<1>2. Loops /\ Queued /\ Held /\ Addresses /\ Resets
  BY EchoAssumption DEF Init, Loops, Queued, Held, Addresses, Resets, Calls, Live, ProcessOf
<1>3. ASSUME NEW c \in Clients PROVE Echoes(c)
  <2>1. Unstarted(c) /\ Sent(c) = <<>> /\ hpc[c] = "none"
    BY DEF Init, Unstarted, Gone, Sent
  <2>2. Begins(<<>>, Stream(c))
    BY <1>1, StreamProperties DEF Begins, TypeOK
  <2> QED BY <2>1, <2>2 DEF Echoes
<1> QED BY <1>1, <1>2, <1>3 DEF IInv, Conserved

LEMMA Inductive == IInv /\ [Next]_vars => IInv'
<1> SUFFICES ASSUME IInv, [Next]_vars PROVE IInv'
  OBVIOUS
<1>1. CASE Main
  <2>1. TypeOK' /\ Conserved' /\ Resets'
    BY <1>1, TypesInMain, EchoesInServer, ResetsKept DEF Next
  <2>2. Structure'
    BY <1>1, StructureInAccept, StructureInBegin, StructureInReady, StructureInFailure DEF Main
  <2> QED BY <2>1, <2>2 DEF IInv, Structure
<1>2. ASSUME NEW c \in Clients, Handler(c) PROVE IInv'
  <2>1. TypeOK' /\ Resets'
    BY <1>2, TypesInHandler, ResetsKept DEF Next
  <2>2. Conserved'
    BY <1>2, EchoesInServer, ConservedInHandler DEF Handler
  <2>3. Structure'
    BY <1>2, StructureInHandler, StructureInClose, StructureInDie DEF Handler
  <2> QED BY <2>1, <2>2, <2>3 DEF IInv, Structure
<1>3. ASSUME NEW c \in Clients, ClientReacts(c) \/ User(c) PROVE IInv'
  <2>1. TypeOK' /\ Resets' /\ Conserved' /\ Structure'
    BY <1>3, TypesInClient, ResetsKept, ConservedInHandler, StructureInClient DEF Next
  <2> QED BY <2>1 DEF IInv, Structure
<1>4. CASE UNCHANGED vars
  <2>1. TypeOK' /\ Loops' /\ Queued' /\ Held' /\ Addresses' /\ Resets'
    BY <1>4 DEF IInv, TypeOK, Loops, Queued, Held, Addresses, Resets, Calls, ProcessOf, Gone,
                vars, mainVars, hVars, net, cVars
  <2>2. Conserved'
    <3>1. \A c \in Clients : Echoes(c)'
      <4>1. \A c \in Clients : Orphan(c)' = Orphan(c)
        BY <1>4 DEF Orphan, Down, vars, mainVars, hVars
      <4> QED BY <1>4, <4>1, SameEchoes DEF IInv, Conserved, vars, mainVars, hVars, net, cVars
    <3> QED BY <3>1 DEF Conserved
  <2> QED BY <2>1, <2>2 DEF IInv
<1> QED BY <1>1, <1>2, <1>3, <1>4 DEF Next

-----------------------------------------------------------------------------
(* What the invariant shows. *)

\* The inductive invariant holds in every reachable state.
THEOREM Invariant == Spec => []IInv
<1>1. Init => IInv
  BY Initially
<1>2. IInv /\ [Next]_vars => IInv'
  BY Inductive
<1> QED BY <1>1, <1>2, PTL DEF Spec

\* A connection that is over is closed by every process that held it.
THEOREM Closed == Spec => []ClosedWhenDone
<1>1. IInv => ClosedWhenDone
  <2> SUFFICES ASSUME IInv, mpc = "accept", NEW c \in Clients, hpc[c] = "done"
               PROVE  holders[c] = {}
    BY DEF ClosedWhenDone
  <2>1. ProcessOf(c) \notin holders[c] /\ holders[c] \subseteq {"main", ProcessOf(c)}
    BY DEF IInv, Held
  <2>2. server = "mproc" => "main" \notin holders[c]
    BY DEF IInv, Held
  <2> QED BY <2>1, <2>2 DEF ProcessOf
<1> QED BY <1>1, Invariant, PTL

\* Whatever the server's main loop does with client_addr meanwhile, each client
\* is welcomed with its own address.
THEOREM Welcoming == Spec => []OwnAddress
<1>1. IInv => OwnAddress
  <2> SUFFICES ASSUME IInv, NEW c \in Clients, Sent(c) # <<>>
               PROVE  Sent(c)[1] = <<"hi", c>>
    BY DEF OwnAddress
  <2>1. TypeOK /\ Begins(Sent(c), Stream(c))
    BY DEF IInv, Conserved, Echoes
  <2>2. Sent(c) \in Seq(Units) /\ Stream(c)[1] = <<"hi", c>>
    BY <2>1, Pieces, StreamProperties
  <2>3. 1 \in 1 .. Len(Sent(c))
    BY <2>2, EmptySeq, LenProperties
  <2> QED BY <2>1, <2>2, <2>3 DEF Begins
<1> QED BY <1>1, Invariant, PTL

\* What follows the welcome begins the lines of the client's own user, and is
\* all of them when the client of 07 prompts its user.
LEMMA EchoedSoFar ==
    ASSUME IInv, NEW c \in Clients, Sent(c) # <<>>
    PROVE  /\ Tail(Sent(c)) \in Seq(Units) /\ Len(Tail(Sent(c))) = Len(Sent(c)) - 1
           /\ Len(Tail(Sent(c))) <= Len(TypedUnits(c))
           /\ \A i \in 1 .. Len(Tail(Sent(c))) : Tail(Sent(c))[i] = TypedUnits(c)[i]
<1> DEFINE s == Sent(c)
           S == Stream(c)
           T == TypedUnits(c)
           w == Welcome(c)
<1>1. TypeOK /\ Begins(s, S)
  BY DEF IInv, Conserved, Echoes
<1>2. s \in Seq(Units) /\ T \in Seq(Units) /\ S = w \o T /\ w \in Seq(Units) /\ Len(w) = 1
  BY <1>1, Pieces, StreamProperties, UnitTypes DEF Stream, Welcome
<1>3. s # <<>>
  OBVIOUS
<1> HIDE DEF s, S, T, w
<1>4. /\ Tail(s) \in Seq(Units) /\ Len(Tail(s)) = Len(s) - 1 /\ Len(s) \in Nat
      /\ \A i \in 1 .. Len(Tail(s)) : Tail(s)[i] = s[i + 1]
  BY <1>2, <1>3, HeadTailProperties, LenProperties
<1>5. /\ Len(T) \in Nat /\ Len(S) = 1 + Len(T)
      /\ \A i \in 1 .. 1 + Len(T) : S[i] = IF i <= 1 THEN w[i] ELSE T[i - 1]
  <2>1. Len(T) \in Nat
    BY <1>2, LenProperties
  <2>2. /\ Len(w \o T) = Len(w) + Len(T)
        /\ \A i \in 1 .. Len(w) + Len(T) : (w \o T)[i] = IF i <= Len(w) THEN w[i] ELSE T[i - Len(w)]
    BY <1>2, ConcatProperties
  <2> QED BY <1>2, <2>1, <2>2
<1>6. Len(s) <= Len(S) /\ \A i \in 1 .. Len(s) : s[i] = S[i]
  BY <1>1 DEF Begins
<1>7. ASSUME NEW i \in 1 .. Len(Tail(s)) PROVE Tail(s)[i] = T[i]
  <2>1. i + 1 \in 1 .. Len(s) /\ i + 1 \in 1 .. 1 + Len(T) /\ ~(i + 1 <= 1) /\ (i + 1) - 1 = i
    BY <1>4, <1>5, <1>6
  <2>2. Tail(s)[i] = S[i + 1]
    BY <1>4, <1>6, <2>1
  <2>3. S[i + 1] = T[(i + 1) - 1]
    BY <1>5, <2>1
  <2> QED BY <2>1, <2>2, <2>3
<1>8. Len(Tail(s)) <= Len(T)
  BY <1>4, <1>5, <1>6
<1> QED BY <1>4, <1>7, <1>8 DEF s, T

LEMMA PrefixOf ==
    ASSUME NEW U, NEW s \in Seq(U), NEW t \in Seq(U), Len(s) <= Len(t),
           \A i \in 1 .. Len(s) : s[i] = t[i]
    PROVE  IsPrefix(s, t)
<1> DEFINE p == SubSeq(t, 1, Len(s))
<1>1. Len(s) \in Nat /\ Len(t) \in Nat /\ \A i \in 1 .. Len(t) : t[i] \in U
  BY LenProperties, ElementOfSeq
<1>2. p \in Seq(U) /\ Len(p) = Len(s) /\ \A i \in 1 .. Len(s) : p[i] = t[i]
  BY <1>1, SubSeqProperties
<1> HIDE DEF p
<1>3. s = p
  BY <1>2, SeqEqual
<1>4. SubSeq(s, 1, Len(s)) = s
  BY SubSeqFull
<1> QED BY <1>3, <1>4 DEF IsPrefix, p

LEMMA EchoedWhole ==
    ASSUME IInv, NEW c \in Clients, server = "first", cpc[c] = "prompt", ~Released(c)
    PROVE  Tail(Sent(c)) = TypedUnits(c)
<1>1. TypeOK /\ Echoes(c) /\ ~Gone(c) /\ ~Unstarted(c)
  BY DEF IInv, Conserved, Gone, Unstarted
<1>2. hpc[c] # "done"
  BY DEF IInv, Held, ProcessOf, Released
<1>3. Turns(c)
  <2>1. ~Orphan(c)
    BY DEF IInv, Held, Released, Orphan, Down
  <2> QED BY <1>1, <1>2, <2>1 DEF Echoes, TypeOK
<1>4. Len(Sent(c)) = 1 + 2 * typed[c] /\ typed[c] \in Nat
  <2> DEFINE a == shown[c]
             k == cbuf[c]
             r == s2c[c]
             s == Cat(Cat(a, k), r)
  <2>1. a \in Seq(Units) /\ k \in Seq(Units) /\ r \in Seq(Units) /\ Cat(a, k) \in Seq(Units)
    BY <1>1, Pieces DEF Cat
  <2>2. typed[c] \in Nat /\ Len(a) = 1 + 2 * typed[c]
    BY <1>1, <1>3 DEF Turns, TypeOK
  <2>3. Len(Stream(c)) = 1 + 2 * typed[c] /\ Sent(c) = s /\ Len(s) <= Len(Stream(c))
    BY <1>1, StreamProperties DEF Echoes, Begins, Sent, Cat
  <2> DEFINE ak == Cat(a, k)
  <2>4. ak \in Seq(Units) /\ Len(ak) = Len(a) + Len(k) /\ Len(k) \in Nat
    BY <2>1, CatElements
  <2> HIDE DEF ak
  <2>5. Len(Cat(ak, r)) = Len(ak) + Len(r) /\ Len(r) \in Nat
    BY <2>1, <2>4, CatElements
  <2> QED BY <2>2, <2>3, <2>4, <2>5 DEF ak
<1>5. Sent(c) # <<>>
  BY <1>4
<1> DEFINE t == Tail(Sent(c))
           T == TypedUnits(c)
<1>6. /\ t \in Seq(Units) /\ Len(t) = 2 * typed[c]
      /\ \A i \in 1 .. Len(t) : t[i] = T[i]
  BY <1>4, <1>5, EchoedSoFar
<1>7. T \in Seq(Units) /\ Len(T) = 2 * typed[c]
  BY <1>4, TypedProperties
<1> HIDE DEF t, T
<1>8. t = T
  BY <1>6, <1>7, SeqEqual
<1> QED BY <1>8 DEF t, T

\* After its welcome a client is sent the lines of its own user, in their order
\* and nothing else; for any number of clients, lines and partial transfers.
THEOREM Echoing == Spec => []OwnEcho
<1>1. IInv => OwnEcho
  <2> SUFFICES ASSUME IInv, NEW c \in Clients
               PROVE  /\ Sent(c) # <<>> => IsPrefix(Tail(Sent(c)), TypedUnits(c))
                      /\ server = "first" /\ cpc[c] = "prompt" /\ ~Released(c) =>
                            Tail(Sent(c)) = TypedUnits(c)
    BY DEF OwnEcho
  <2>1. Sent(c) # <<>> => IsPrefix(Tail(Sent(c)), TypedUnits(c))
    <3> SUFFICES ASSUME Sent(c) # <<>> PROVE IsPrefix(Tail(Sent(c)), TypedUnits(c))
      OBVIOUS
    <3> DEFINE t == Tail(Sent(c))
               T == TypedUnits(c)
    <3>1. TypeOK /\ typed[c] \in Nat
      BY DEF IInv, TypeOK
    <3>2. /\ t \in Seq(Units) /\ T \in Seq(Units) /\ Len(t) <= Len(T)
          /\ \A i \in 1 .. Len(t) : t[i] = T[i]
      BY <3>1, EchoedSoFar, TypedProperties
    <3> HIDE DEF t, T
    <3>3. IsPrefix(t, T)
      BY <3>2, PrefixOf
    <3> QED BY <3>3 DEF t, T
  <2> QED BY <2>1, EchoedWhole
<1> QED BY <1>1, Invariant, PTL

\* With a process per connection no connection ends the process that accepts
\* them, which only a fork that fails does; and the others die of their own
\* client's reset only.
THEOREM Isolation == Spec => []Isolated
<1>1. IInv => Isolated
  BY DEF IInv, Loops, Resets, Isolated
<1> QED BY <1>1, Invariant, PTL
=============================================================================
