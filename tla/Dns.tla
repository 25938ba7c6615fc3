-------------------------------- MODULE Dns --------------------------------
(***************************************************************************)
(* exercises/10/sol/e1: a DNS server over UDP.  A datagram is a header and *)
(* a body of bytes; questions are decoded into a list, resolved against    *)
(* the records of the program, and everything is encoded again.            *)
(***************************************************************************)
EXTENDS Integers, SequencesExt

CONSTANTS Records,     \* <<type, name>> |-> rdata: what the program knows
          Asked,       \* sequences of questions, not empty, that a client may ask
          Queries      \* bound: datagrams

DnsAssumption == Queries \in Nat

VARIABLES
    dnspc,
    buffer,            \* the datagram received
    msg,               \* struct Message
    allocated,         \* blocks on the heap
    reply,             \* what was sent for the datagram, or NoReply
    received           \* datagrams received

dnsVars == <<dnspc, buffer, msg, allocated, reply, received>>

-----------------------------------------------------------------------------
(* Bytes. *)

Dot == 46
NameBytes == {45} \cup 48 .. 57 \cup 97 .. 122     \* '-', '0'..'9', 'a'..'z'

A_RecordType == 1
TXT_RecordType == 16
AAAA_RecordType == 28
NotImplemented_ResponseType == 4

put16bits(x) == <<x \div 256, x % 256>>
put32bits(x) == put16bits(x \div 65536) \o put16bits(x % 65536)
get16bits(buf) == buf[1] * 256 + buf[2]

Failed == [ok |-> FALSE]

\* The first byte is skipped; up to the first 0, what cannot be in a name is
\* taken for the length of a label.
decode_domain_name(buf) ==
    LET zeros == {x \in 2 .. Min({256, Len(buf)}) : buf[x] = 0}
        z == Min(zeros)
    IN  IF zeros = {} THEN Failed
        ELSE [ok |-> TRUE, rest |-> SubSeq(buf, z + 1, Len(buf)),
              name |-> [x \in 1 .. z - 2 |-> IF buf[x + 1] \in NameBytes THEN buf[x + 1] ELSE Dot]]

\* The length of the label that begins after position x of the domain.
LabelLength(domain, x) ==
    Min({y \in x + 1 .. Len(domain) : domain[y] = Dot} \cup {Len(domain) + 1}) - x - 1

encode_domain_name(domain) ==
    [x \in 1 .. Len(domain) + 1 |->
        IF x = 1 \/ domain[x - 1] = Dot THEN LabelLength(domain, x - 1) ELSE domain[x - 1]]
    \o <<0>>

-----------------------------------------------------------------------------
(* decode_msg, resolve_query, encode_msg. *)

\* The k-th question, prepended to the list of the k - 1 before it.
AddQuestion(p) ==
    LET d == decode_domain_name(p.rest) IN
    IF ~p.ok \/ ~d.ok \/ Len(d.rest) < 4 THEN [p EXCEPT !.ok = FALSE]
    ELSE [ok |-> TRUE, rest |-> SubSeq(d.rest, 5, Len(d.rest)),
          questions |-> << [qName |-> d.name, qType |-> get16bits(d.rest),
                            qClass |-> get16bits(SubSeq(d.rest, 3, 4))] >> \o p.questions]

Questions(body, qdCount) ==
    LET parse[k \in 0 .. qdCount] ==
            IF k = 0 THEN [ok |-> TRUE, rest |-> body, questions |-> <<>>]
                     ELSE AddQuestion(parse[k - 1])
    IN  parse[qdCount]

ZeroMessage == [id |-> 0, qr |-> 0, aa |-> 0, rcode |-> 0, qdCount |-> 0, anCount |-> 0,
                questions |-> <<>>, answers |-> <<>>]

Resolvable(q) == <<q.qType, q.qName>> \in DOMAIN Records
Answerable(q) == q.qType \in {A_RecordType, AAAA_RecordType, TXT_RecordType}

\* Records are prepended too.
Answers(questions) == Reverse(SelectSeq(questions, Resolvable))

ResourceRecord(q) ==
    LET rdata == Records[q.qType, q.qName] IN
    encode_domain_name(q.qName) \o put16bits(q.qType) \o put16bits(q.qClass)
    \o put32bits(60 * 60) \o put16bits(Len(rdata)) \o rdata

EncodeQuestion(q) == encode_domain_name(q.qName) \o put16bits(q.qType) \o put16bits(q.qClass)

\* Only qr and rcode are put into the flags.
encode_header(m) == [id |-> m.id, qr |-> m.qr, aa |-> 0, rcode |-> m.rcode,
                     qdCount |-> m.qdCount, anCount |-> m.anCount]

encode_msg(m) ==
    [header |-> encode_header(m),
     body |-> FlattenSeq([x \in DOMAIN m.questions |-> EncodeQuestion(m.questions[x])])
              \o FlattenSeq([x \in DOMAIN m.answers |-> ResourceRecord(m.answers[x])])]

-----------------------------------------------------------------------------
(* What clients send: labels on the wire as the protocol has them. *)

Wire(labels) == FlattenSeq([x \in DOMAIN labels |-> <<Len(labels[x])>> \o labels[x]]) \o <<0>>
WireQuestion(a) == Wire(a.labels) \o put16bits(a.type) \o put16bits(1)
WireBody(asked) == FlattenSeq([x \in DOMAIN asked |-> WireQuestion(asked[x])])

\* A query, or one that was cut short, or that counts a question too many; or
\* a datagram whose header is cut, or counts records, and is not accepted.
Datagram(asked, whole, qdCount, body) ==
    [asked |-> asked, whole |-> whole, accepted |-> asked # <<>>, id |-> 7,
     qdCount |-> qdCount, body |-> body]

Datagrams ==
    {Datagram(a, TRUE, Len(a), WireBody(a)) : a \in Asked}
    \cup {Datagram(a, FALSE, Len(a), SubSeq(WireBody(a), 1, Len(WireBody(a)) - cut)) :
              a \in Asked, cut \in {1, 5}}
    \cup {Datagram(a, FALSE, Len(a) + 1, WireBody(a)) : a \in Asked}
    \cup {Datagram(<<>>, FALSE, 0, <<>>)}

NoReply == [header |-> ZeroMessage, body |-> <<>>]

-----------------------------------------------------------------------------
(* main. *)

Init ==
    /\ dnspc = "recvfrom" /\ buffer = {} /\ msg = ZeroMessage /\ allocated = 0
    /\ reply = NoReply /\ received = 0

\* The lists of the last message are freed first: two blocks for each element.
FreeAndReceive_Leak ==     \* defect: only what was answered is freed
    /\ dnspc = "recvfrom" /\ received < Queries /\ received' = received + 1
    /\ allocated' = IF reply = NoReply THEN allocated
                    ELSE allocated - 2 * (Len(msg.questions) + Len(msg.answers))
    /\ msg' = ZeroMessage /\ reply' = NoReply /\ dnspc' = "decode"
    /\ \E d \in Datagrams : buffer' = {d}

FreeAndReceive ==
    /\ dnspc = "recvfrom" /\ received < Queries /\ received' = received + 1
    /\ allocated' = allocated - 2 * (Len(msg.questions) + Len(msg.answers))
    /\ msg' = ZeroMessage /\ reply' = NoReply /\ dnspc' = "decode"
    /\ \E d \in Datagrams : buffer' = {d}

decode_msg ==
    /\ dnspc = "decode"
    /\ \E d \in buffer :
          LET p == IF d.accepted THEN Questions(d.body, d.qdCount)
                                 ELSE [ok |-> FALSE, questions |-> <<>>]
          IN
          /\ msg' = [ZeroMessage EXCEPT !.id = d.id, !.qdCount = d.qdCount,
                                        !.questions = p.questions]
          /\ allocated' = allocated + 2 * Len(p.questions)
          /\ dnspc' = IF p.ok THEN "resolve" ELSE "recvfrom"
    /\ UNCHANGED <<buffer, reply, received>>

resolve_query ==
    /\ dnspc = "resolve" /\ dnspc' = "encode"
    /\ LET answers == Answers(msg.questions) IN
       /\ msg' = [msg EXCEPT !.qr = 1, !.aa = 1, !.answers = answers, !.anCount = Len(answers),
                     !.rcode = IF \A x \in DOMAIN msg.questions : Answerable(msg.questions[x])
                               THEN 0 ELSE NotImplemented_ResponseType]
       /\ allocated' = allocated + 2 * Len(answers)
    /\ UNCHANGED <<buffer, reply, received>>

Encode == /\ dnspc = "encode" /\ dnspc' = "recvfrom" /\ reply' = encode_msg(msg)
          /\ UNCHANGED <<buffer, msg, allocated, received>>

Next == FreeAndReceive \/ decode_msg \/ resolve_query \/ Encode

Spec == Init /\ [][Next]_dnsVars

-----------------------------------------------------------------------------
(* Properties. *)

Domain(labels) == FlattenSeq([x \in DOMAIN labels |->
                      IF x = 1 THEN labels[x] ELSE <<Dot>> \o labels[x]])

Known(a) == <<a.type, Domain(a.labels)>> \in DOMAIN Records
WireRecord(a) == LET rdata == Records[a.type, Domain(a.labels)] IN
                 WireQuestion(a) \o put32bits(3600) \o put16bits(Len(rdata)) \o rdata

Orders(s) == {[x \in DOMAIN s |-> s[f[x]]] : f \in Bijection(DOMAIN s, DOMAIN s)}

\* A whole query gets, in one datagram, its questions back, and for each of
\* those with a record that record, each name as the client wrote it: all of
\* them once and nothing else (in which order, and whether aa is set, is
\* below).  A damaged one gets nothing.  Either way the blocks on the heap are
\* those that the next turn frees.
AnswersAsAsked == dnspc = "recvfrom" => \A d \in buffer :
    LET known == SelectSeq(d.asked, Known) IN
    /\ allocated = 2 * (Len(msg.questions) + Len(msg.answers))
    /\ d.whole <=> reply # NoReply
    /\ d.whole => /\ \E asked \in Orders(d.asked), found \in Orders(known) :
                        reply.body = WireBody(asked)
                                     \o FlattenSeq([x \in DOMAIN found |-> WireRecord(found[x])])
                  /\ reply.header.qdCount = Len(d.asked) /\ reply.header.anCount = Len(known)
                  /\ reply.header.id = d.id /\ reply.header.qr = 1

\* main.c line 502: "this server is authoritative".
Authoritative == reply # NoReply => reply.header.aa = 1

\* main.c line 156: "questions are copied to the response 1:1".
QuestionsCopied == \A d \in buffer : reply # NoReply => IsPrefix(WireBody(d.asked), reply.body)
=============================================================================
