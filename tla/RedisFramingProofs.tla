------------------------ MODULE RedisFramingProofs --------------------------
(***************************************************************************)
(* Safety of the receiving side, for every stream of requests of both       *)
(* protocols and wherever read() cuts it.  The first half is about          *)
(* functions: what parse_req, and then recv(), makes of a request as far as *)
(* it has arrived (RecvReads).  The second half is about steps: the buffer  *)
(* and the wire are the stream without the requests taken (TypeOK), so what *)
(* recv() sees is always such a beginning (NextRecv).                       *)
(***************************************************************************)
EXTENDS RedisFraming, FramingProofs
-----------------------------------------------------------------------------
\* A byte that is no newline can be left out of the search.
LEMMA NewlineSkip ==
  ASSUME NEW b, Len(b) \in Nat, NEW at \in Nat, at + 1 <= Len(b) => b[at + 1] # LF
  PROVE  NewlineAfter(b, at) = NewlineAfter(b, at + 1)
<1> DEFINE x == NewlineAfter(b, at)
           y == NewlineAfter(b, at + 1)
<1> PICK k \in Nat : k = at + 1  OBVIOUS
<1>1. \/ /\ x \in at + 1 .. Len(b) /\ b[x] = LF
         /\ \A i \in at + 1 .. x - 1 : b[i] # LF
      \/ x = 0 /\ \A i \in at + 1 .. Len(b) : b[i] # LF
  BY NewlineFacts
<1>2. \/ /\ y \in k + 1 .. Len(b) /\ b[y] = LF
         /\ \A i \in k + 1 .. y - 1 : b[i] # LF
      \/ y = 0 /\ \A i \in k + 1 .. Len(b) : b[i] # LF
  BY NewlineFacts
<1> HIDE DEF x, y
<1>3. x \in k .. Len(b) /\ b[x] = LF => x \in k + 1 .. Len(b)
  <2>1. x = k => b[x] # LF \/ ~(k <= Len(b))  OBVIOUS
  <2> QED  BY <2>1
<1>4. CASE /\ y \in k + 1 .. Len(b) /\ b[y] = LF
           /\ \A i \in k + 1 .. y - 1 : b[i] # LF
  <2>1. y \in at + 1 .. Len(b)  BY <1>4
  <2>2. x \in k + 1 .. Len(b) /\ b[x] = LF /\ \A i \in at + 1 .. x - 1 : b[i] # LF
    BY <1>1, <1>3, <1>4, <2>1
  <2>3. ~(y < x)  BY <1>4, <2>1, <2>2
  <2>4. ~(x < y)  BY <1>4, <2>2
  <2> QED  BY <1>4, <2>2, <2>3, <2>4 DEF x, y
<1>5. CASE y = 0 /\ \A i \in k + 1 .. Len(b) : b[i] # LF
  <2>1. x = 0  BY <1>1, <1>3, <1>5
  <2> QED  BY <1>5, <2>1 DEF x, y
<1> QED  BY <1>2, <1>4, <1>5

\* The line end of a request is one of those a packet may have.
LEMMA CrlfBytes == CRLF \in Eols /\ CRLF \in Seq(Nat) /\ Len(CRLF) = 2
BY EndBytes DEF CRLF, Eols

\* A line of a request is its mark, its number and the line end.
LEMMA LineBytes ==
  ASSUME NEW mark \in {STAR, DOLLAR}, NEW n \in Nat
  PROVE  /\ Line(mark, n) \in Seq(Nat) /\ Decimal[n] \o CRLF \in Seq(Nat)
         /\ Line(mark, n) = <<mark>> \o (Decimal[n] \o CRLF)
         /\ Len(Line(mark, n)) = 1 + Len(Decimal[n]) + Len(CRLF)
         /\ Line(mark, n)[1] = mark
<1> DEFINE d == Decimal[n]
<1>1. d \in Seq(Nat) /\ Len(d) \in Nat  BY DecimalBytes
<1>2. <<mark>> \in Seq(Nat) /\ Len(<<mark>>) = 1 /\ <<mark>>[1] = mark
  BY DEF STAR, DOLLAR
<1>3. Line(mark, n) = (<<mark>> \o d) \o CRLF  BY DEF Line
<1> HIDE DEF d
<1> PICK m \in Seq(Nat) : m = <<mark>>  BY <1>2
<1>4. Line(mark, n) = m \o (d \o CRLF)
  <2>1. Line(mark, n) = (m \o d) \o CRLF  BY <1>3
  <2>2. (m \o d) \o CRLF = m \o (d \o CRLF)  BY <1>1, CrlfBytes, Associative
  <2> QED  BY <2>1, <2>2
<1>5. d \o CRLF \in Seq(Nat) /\ Len(d \o CRLF) = Len(d) + Len(CRLF)
  BY <1>1, CrlfBytes, Appended
<1>6. /\ m \o (d \o CRLF) \in Seq(Nat) /\ Len(m \o (d \o CRLF)) = Len(m) + Len(d \o CRLF)
      /\ \A p \in 1 .. Len(m) : (m \o (d \o CRLF))[p] = m[p]
  BY <1>5, Appended
<1>7. 1 \in 1 .. Len(m) /\ m[1] = mark /\ Len(m) = 1
  <2>1. m[1] = mark /\ Len(m) = 1  BY <1>2
  <2> QED  BY <2>1
<1>8. Len(m \o (d \o CRLF)) = 1 + Len(d) + Len(CRLF)  BY <1>1, <1>5, <1>6, <1>7, CrlfBytes
<1> QED  BY <1>4, <1>5, <1>6, <1>7, <1>8 DEF d

\* A line of a request: found, and its number read, once it is all there.
LEMMA LineReads ==
  ASSUME NEW b \in Seq(Nat), NEW at \in Nat, NEW mark \in {STAR, DOLLAR}, NEW n \in Nat,
         Holds(b, at, Line(mark, n)), NEW end, end = at + Len(Line(mark, n))
  PROVE  IF end <= Len(b) THEN NewlineAfter(b, at) = end /\ NumberAt(b, at) = n
         ELSE NewlineAfter(b, at) = 0
<1> DEFINE d == Decimal[n]
<1>1. /\ d \in Seq(Nat) /\ Len(d) \in Nat /\ Len(d) >= 1
      /\ \A i \in 1 .. Len(d) : d[i] \in DIGIT
  BY DecimalBytes
<1> PICK m \in Seq(Nat) : m = <<mark>> /\ Len(m) = 1 /\ m[1] = mark
  <2>1. <<mark>> \in Seq(Nat) /\ Len(<<mark>>) = 1 /\ <<mark>>[1] = mark
    BY DEF STAR, DOLLAR
  <2> QED  BY <2>1
<1>2. Line(mark, n) = m \o (d \o CRLF) /\ d \o CRLF \in Seq(Nat)
      /\ Len(Line(mark, n)) = 1 + Len(d) + Len(CRLF)
  BY LineBytes
<1> HIDE DEF d
<1> PICK k \in Nat : k = at + 1  OBVIOUS
<1>3. Holds(b, at, m) /\ Holds(b, k, d \o CRLF)
  <2>1. Holds(b, at, m \o (d \o CRLF))  BY <1>2
  <2>2. Holds(b, at, m) /\ Holds(b, at + Len(m), d \o CRLF)  BY <1>2, <2>1, HoldsParts
  <2> QED  BY <2>2
<1>4. end = k + Len(d) + Len(CRLF) /\ end \in Nat /\ k + 1 < end /\ Len(b) \in Nat
  <2> PICK l \in Nat, c \in Nat : l = Len(d) /\ c = Len(CRLF) /\ 1 <= l /\ c = 2
    BY <1>1, CrlfBytes
  <2>1. end = at + (1 + l + c)  BY <1>2
  <2>2. at + (1 + l + c) = k + l + c /\ k + 1 < k + l + c /\ k + l + c \in Nat  OBVIOUS
  <2> QED  BY <2>1, <2>2
<1>5. k <= Len(b) => b[k] # LF
  <2>1. k <= Len(b) => b[k] = mark  BY <1>3 DEF Holds
  <2> QED  BY <2>1 DEF STAR, DOLLAR, LF
<1>6. NewlineAfter(b, at) = NewlineAfter(b, k)  BY <1>4, <1>5, NewlineSkip
<1>7. IF k + Len(d) + Len(CRLF) <= Len(b)
      THEN NewlineAfter(b, k) = k + Len(d) + Len(CRLF) /\ Atoi(b, k) = n
      ELSE NewlineAfter(b, k) = 0
  BY <1>3, CrlfBytes, HeaderReads DEF d
<1>8. ASSUME end <= Len(b) PROVE NumberAt(b, at) = Atoi(b, k)
  <2>1. Holds(b, k, d)  BY <1>1, <1>3, CrlfBytes, HoldsParts
  <2>2. k + 1 <= Len(b)
    <3> PICK x \in Nat : x = end  BY <1>4
    <3>1. k + 1 < x /\ x <= Len(b)  BY <1>4, <1>8
    <3> QED  BY <1>4, <3>1
  <2>3. b[k + 1] = d[1] /\ d[1] \in DIGIT  BY <1>1, <2>1, <2>2 DEF Holds
  <2>4. b[at + 2] # MINUS
    <3>1. at + 2 = k + 1  OBVIOUS
    <3>2. MINUS \notin DIGIT  BY DEF MINUS, DIGIT
    <3>3. b[k + 1] # MINUS  BY <2>3, <3>2
    <3> QED  BY <3>1, <3>3
  <2> QED  BY <2>4 DEF NumberAt
<1> QED  BY <1>4, <1>6, <1>7, <1>8

\* strtol() gives a number.
LEMMA NumberType ==
  ASSUME NEW b \in Seq(Nat), NEW at \in Nat, at < Len(b)
  PROVE  NumberAt(b, at) \in Int
<1> PICK k \in Nat, l \in Nat : k = at + 1 /\ l = at + 2  OBVIOUS
<1>1. Len(b) \in Nat /\ k \in 0 .. Len(b)  OBVIOUS
<1>2. Atoi(b, k) \in Nat  BY <1>1, AtoiType
<1>3. k < Len(b) => l \in 0 .. Len(b)  BY <1>1
<1>4. k < Len(b) => Atoi(b, l) \in Nat  BY <1>3, AtoiType
<1> QED  BY <1>2, <1>4 DEF NumberAt

-----------------------------------------------------------------------------
\* An argument: its line, its body, the line end.
LEMMA BulkBytes ==
  ASSUME NEW body \in Seq(Nat)
  PROVE  /\ Bulk(body) \in Seq(Nat)
         /\ Line(DOLLAR, Len(body)) \o body \in Seq(Nat)
         /\ Len(Line(DOLLAR, Len(body)) \o body) = Len(Line(DOLLAR, Len(body))) + Len(body)
         /\ Len(Bulk(body)) = Len(Line(DOLLAR, Len(body))) + Len(body) + 2
<1> DEFINE l == Line(DOLLAR, Len(body))
<1>1. l \in Seq(Nat)
  <2> PICK n \in Nat : n = Len(body)  OBVIOUS
  <2> QED  BY LineBytes
<1>2. Bulk(body) = (l \o body) \o CRLF  BY DEF Bulk
<1> HIDE DEF l
<1>3. l \o body \in Seq(Nat) /\ Len(l \o body) = Len(l) + Len(body)  BY <1>1, Appended
<1>4. /\ (l \o body) \o CRLF \in Seq(Nat)
      /\ Len((l \o body) \o CRLF) = Len(l \o body) + Len(CRLF)
  BY <1>3, CrlfBytes, Appended
<1> QED  BY <1>2, <1>3, <1>4, CrlfBytes DEF l

\* A turn of parse_req at an argument, as far as it has arrived.
LEMMA ArgumentReads ==
  ASSUME NEW b \in Seq(Nat), NEW at \in Nat, NEW body \in Seq(Nat), Holds(b, at, Bulk(body)),
         NEW bs, NEW end, end = at + Len(Bulk(body)), errno # "EINVAL"
  PROVE  Argument(b, Packet(bs, at)) = IF end <= Len(b) THEN Packet(Append(bs, body), end)
                                       ELSE NotReady
<1> PICK n \in Nat : n = Len(body)  OBVIOUS
<1> DEFINE l == Line(DOLLAR, n)
<1>1. l \in Seq(Nat) /\ Len(l) \in Nat /\ Len(l) >= 1
  <2>1. l \in Seq(Nat) /\ Len(l) = 1 + Len(Decimal[n]) + Len(CRLF)  BY LineBytes
  <2> QED  BY <2>1, DecimalBytes, CrlfBytes
<1>2. /\ l \o body \in Seq(Nat) /\ Len(Bulk(body)) = Len(l) + n + 2
      /\ Bulk(body) = (l \o body) \o CRLF
  BY BulkBytes DEF Bulk
<1>3. DOLLAR \in {STAR, DOLLAR}  OBVIOUS
<1>4. Holds(b, at, l) /\ Holds(b, at + Len(l), body)
  <2> HIDE DEF l
  <2>1. Holds(b, at, l \o body)  BY <1>2, CrlfBytes, HoldsParts
  <2> QED  BY <1>1, <2>1, HoldsParts
<1> PICK h \in Nat : h = at + Len(l)  BY <1>1
<1>5. IF h <= Len(b) THEN NewlineAfter(b, at) = h /\ NumberAt(b, at) = n
      ELSE NewlineAfter(b, at) = 0
  BY <1>3, <1>4, LineReads
<1>6. h # 0 /\ end = h + n + 2 /\ Len(b) \in Nat  BY <1>1, <1>2
<1> HIDE DEF l
<1> DEFINE r == Packet(bs, at)
<1>7. r.kind = "packet" /\ r.consumed = at /\ r.bodies = bs  BY DEF Packet
<1> HIDE DEF r
<1>8. CASE ~(h <= Len(b))
  <2>1. ~(end <= Len(b))  BY <1>6, <1>8
  <2>2. Argument(b, r) = NotReady  BY <1>5, <1>7, <1>8 DEF Argument
  <2> QED  BY <2>1, <2>2 DEF r
<1>9. CASE h <= Len(b)
  <2>1. ~RefusedLength(n, FALSE)  BY DEF RefusedLength
  <2>2. BodyComplete(Len(b) - h, n) <=> end <= Len(b)  BY <1>6 DEF BodyComplete
  <2>3. Argument(b, r) =
          IF ~BodyComplete(Len(b) - h, n) THEN NotReady
          ELSE Packet(Append(bs, SubSeq(b, h + 1, h + n)), NextLine(h, n))
    BY <1>5, <1>6, <1>7, <1>9, <2>1 DEF Argument
  <2>4. CASE end <= Len(b)
    <3> PICK e \in Nat : e = h + n  OBVIOUS
    <3>1. Holds(b, h, body) /\ e = h + Len(body) /\ e <= Len(b)  BY <1>4, <1>6, <2>4
    <3>2. SubSeq(b, h + 1, e) = body  BY <3>1, BodyReads
    <3>3. NextLine(h, n) = end  BY <1>6 DEF NextLine
    <3> QED  BY <2>2, <2>3, <2>4, <3>2, <3>3 DEF r
  <2>5. CASE ~(end <= Len(b))  BY <2>2, <2>3, <2>5 DEF r
  <2> QED  BY <2>4, <2>5
<1> QED  BY <1>8, <1>9

\* What a turn of parse_req leaves, whatever the bytes are.
LEMMA ArgumentType ==
  ASSUME NEW b \in Seq(Nat), NEW r \in Results
  PROVE  Argument(b, r) \in Results
<1>1. CASE r.kind # "packet"  BY <1>1 DEF Argument
<1>2. CASE r.kind = "packet"
  <2>1. r.bodies \in Seq(Seq(Nat)) /\ r.consumed \in Nat
    BY <1>2 DEF Results, NotReady, BadFormat
  <2> DEFINE eoh == NewlineAfter(b, r.consumed)
             len == NumberAt(b, r.consumed)
  <2>2. NotReady \in Results /\ BadFormat \in Results  BY DEF Results
  <2>3. ASSUME eoh # 0, ~(len < 0), BodyComplete(Len(b) - eoh, len)
        PROVE  Packet(Append(r.bodies, SubSeq(b, eoh + 1, eoh + len)), NextLine(eoh, len)) \in Results
    <3> PICK at \in Nat : at = r.consumed  BY <2>1
    <3>1. eoh \in at + 1 .. Len(b) /\ Len(b) \in Nat
      <4>1. Len(b) \in Nat  OBVIOUS
      <4>2. NewlineAfter(b, at) \in at + 1 .. Len(b) \/ NewlineAfter(b, at) = 0
        BY <4>1, NewlineFacts
      <4> QED  BY <2>3, <4>1, <4>2
    <3>2. at < Len(b)  BY <3>1
    <3>3. len \in Int  BY <3>2, NumberType
    <3> HIDE DEF eoh, len
    <3>4. eoh \in Nat /\ len \in Nat /\ eoh + 1 \in Nat \ {0} /\ eoh + len <= Len(b)
      BY <2>3, <3>1, <3>3 DEF BodyComplete
    <3>5. SubSeq(b, eoh + 1, eoh + len) \in Seq(Nat)
      <4>1. eoh + len \in (eoh + 1) - 1 .. Len(b)  BY <3>1, <3>4
      <4> QED  BY <3>4, <4>1, SubSeqFacts
    <3>6. Append(r.bodies, SubSeq(b, eoh + 1, eoh + len)) \in Seq(Seq(Nat))
      BY <2>1, <3>5, AppendFacts
    <3>7. NextLine(eoh, len) \in Nat  BY <3>4 DEF NextLine
    <3> QED  BY <3>6, <3>7, PacketType
  <2>4. Argument(b, r) =
          IF eoh = 0 THEN NotReady
          ELSE IF RefusedLength(len, FALSE) THEN BadFormat
          ELSE IF ~BodyComplete(Len(b) - eoh, len) THEN NotReady
          ELSE Packet(Append(r.bodies, SubSeq(b, eoh + 1, eoh + len)), NextLine(eoh, len))
    BY <1>2 DEF Argument
  <2>5. ~RefusedLength(len, FALSE) => ~(len < 0)  BY DEF RefusedLength
  <2> HIDE DEF eoh, len
  <2> QED  BY <2>2, <2>3, <2>4, <2>5
<1> QED  BY <1>1, <1>2

\* parse_req looks at the arguments one by one.
Parses(b, f, n) ==
  /\ ParseReq(b) = f[n] /\ f[0] = Packet(<<>>, NewlineAfter(b, 0))
  /\ \A i \in 1 .. n : f[i] = Argument(b, f[i - 1])

LEMMA ParseFacts ==
  ASSUME NEW b \in Seq(Nat), NEW n \in Nat, NumberAt(b, 0) = n,
         NewlineAfter(b, 0) # 0, ~RefusedLength(n, TRUE)
  PROVE  \E f : Parses(b, f, n)
<1> DEFINE c == Packet(<<>>, NewlineAfter(b, 0))
           G == [i \in 0 .. n |-> [r \in Results |-> Argument(b, r)]]
           Rec(f) == [i \in 0 .. n |-> IF i = 0 THEN c ELSE Argument(b, f[i - 1])]
<1>1. c \in Results
  <2> PICK z \in Nat : z = 0  OBVIOUS
  <2>1. Len(b) \in Nat /\ (NewlineAfter(b, z) \in z + 1 .. Len(b) \/ NewlineAfter(b, z) = 0)
    BY NewlineFacts
  <2>2. NewlineAfter(b, 0) \in Nat  BY <2>1
  <2>3. <<>> \in Seq(Seq(Nat))  OBVIOUS
  <2> QED  BY <2>2, <2>3, PacketType
<1> HIDE DEF c
<1>2. G \in [0 .. n -> [Results -> Results]]  BY ArgumentType
<1>3. PICK f \in [0 .. n -> Results] : Follows(f, G, c, 0, n)
  <2> PICK z \in Int : z = 0  OBVIOUS
  <2> HIDE DEF G
  <2>1. n \in Int /\ z <= n /\ G \in [z .. n -> [Results -> Results]]  BY <1>2
  <2>2. \E f \in [z .. n -> Results] : Follows(f, G, c, z, n)  BY <1>1, <2>1, RecFcn
  <2> QED  BY <2>2
<1>4. f = Rec(f)
  <2>1. ASSUME NEW i \in 0 .. n PROVE f[i] = IF i = 0 THEN c ELSE Argument(b, f[i - 1])
    <3>1. CASE i = 0  BY <1>3, <3>1 DEF Follows
    <3>2. CASE i # 0
      <4>1. i \in 0 + 1 .. n /\ i - 1 \in 0 .. n  BY <3>2
      <4>2. f[i] = G[i][f[i - 1]] /\ f[i - 1] \in Results  BY <1>3, <4>1 DEF Follows
      <4>3. G[i][f[i - 1]] = Argument(b, f[i - 1])  BY <4>2
      <4> QED  BY <3>2, <4>2, <4>3
    <3> QED  BY <3>1, <3>2
  <2> QED  BY <2>1
<1> DEFINE g == CHOOSE h : h = Rec(h)
<1>5. g = Rec(g)
  <2> HIDE DEF Rec
  <2> QED  BY <1>4
<1>6. ParseReq(b) = g[n]
  BY DEF ParseReq, c
<1> HIDE DEF g
<1>7. \A i \in 0 .. n : g[i] = IF i = 0 THEN c ELSE Argument(b, g[i - 1])  BY <1>5
<1>8. g[0] = c /\ \A i \in 1 .. n : g[i] = Argument(b, g[i - 1])
  <2>1. 0 \in 0 .. n /\ \A i \in 1 .. n : i \in 0 .. n /\ i # 0  OBVIOUS
  <2> QED  BY <1>7, <2>1
<1> QED  BY <1>6, <1>8 DEF Parses, c

-----------------------------------------------------------------------------
Bulks(args) == [i \in 1 .. Len(args) |-> Bulk(args[i])]

\* The arguments of a request, each with its line.
LEMMA BulksType ==
  ASSUME NEW args \in Seq(Seq(Nat))
  PROVE  /\ Bulks(args) \in Seq(Seq(Nat)) /\ Len(Bulks(args)) = Len(args)
         /\ \A i \in 1 .. Len(args) : /\ Bulk(args[i]) \in Seq(Nat) /\ args[i] \in Seq(Nat)
                                      /\ Bulks(args)[i] = Bulk(args[i])
<1> PICK n \in Nat : n = Len(args)  OBVIOUS
<1>1. \A i \in 1 .. n : Bulk(args[i]) \in Seq(Nat) /\ args[i] \in Seq(Nat)
  BY Element, BulkBytes
<1>2. [i \in 1 .. n |-> Bulk(args[i])] \in Seq(Seq(Nat))
  <2>1. [i \in 1 .. n |-> Bulk(args[i])] \in [1 .. n -> Seq(Nat)]  BY <1>1
  <2> QED  BY <2>1, FcnSeq
<1>3. /\ Bulks(args) \in Seq(Seq(Nat)) /\ Len(Bulks(args)) = n
      /\ \A i \in 1 .. n : Bulks(args)[i] = Bulk(args[i])
  <2>1. Bulks(args) = [i \in 1 .. n |-> Bulk(args[i])]  BY DEF Bulks
  <2>2. Len([i \in 1 .. n |-> Bulk(args[i])]) = n  OBVIOUS
  <2> QED  BY <1>2, <2>1, <2>2
<1> QED  BY <1>1, <1>3

\* A request, as far as it has arrived.
LEMMA RequestReads ==
  ASSUME NEW b \in Seq(Nat), NEW args \in Seq(Seq(Nat)), args # <<>>,
         NEW e, e = RedisRequest(args), Holds(b, 0, e)
  PROVE  \/ ParseReq(b) = Packet(args, Len(e)) /\ Len(e) <= Len(b) /\ errno # "EINVAL"
         \/ ParseReq(b) = NotReady /\ Len(e) > Len(b)
         \/ ParseReq(b) = BadFormat /\ errno = "EINVAL"
<1> DEFINE end == Len(e)
           l == Line(STAR, Len(args))
           r == Bulks(args)
<1> PICK n \in Nat : n = Len(args) /\ n # 0  OBVIOUS
<1>1. l \in Seq(Nat) /\ Len(l) \in Nat /\ Len(l) >= 1
  <2>1. Line(STAR, n) \in Seq(Nat) /\ Len(Line(STAR, n)) = 1 + Len(Decimal[n]) + Len(CRLF)
    BY LineBytes
  <2> QED  BY <2>1, DecimalBytes, CrlfBytes
<1>2. /\ r \in Seq(Seq(Nat)) /\ Len(r) = n
      /\ \A i \in 1 .. n : r[i] = Bulk(args[i]) /\ r[i] \in Seq(Nat) /\ args[i] \in Seq(Nat)
  BY BulksType
<1>3. e = l \o FlattenSeq(r)  BY DEF RedisRequest, Bulks
<1> HIDE DEF r, l
<1> PICK P : Laid(r, P)  BY <1>2, FlattenLaid
<1>4. FlattenSeq(r) \in Seq(Nat)  BY <1>2, FlattenType
<1>5. P \in [0 .. n -> Nat] /\ P[0] = 0 /\ Len(FlattenSeq(r)) = P[n]
      /\ \A i \in 1 .. n : P[i] = P[i - 1] + Len(r[i])
  BY <1>2 DEF Laid
<1> PICK ll \in Nat : ll = Len(l) /\ ll >= 1  BY <1>1
<1>6. \A i \in 0 .. n : ll + P[i] \in Nat /\ ll + P[i] >= 1 /\ P[i] \in Nat
  <2> SUFFICES ASSUME NEW i \in 0 .. n
               PROVE  ll + P[i] \in Nat /\ ll + P[i] >= 1 /\ P[i] \in Nat
    OBVIOUS
  <2> PICK x \in Nat : x = P[i]  BY <1>5
  <2> QED  OBVIOUS
<1> DEFINE Q == [i \in 0 .. n |-> ll + P[i]]
<1>7. /\ Q \in [0 .. n -> Nat] /\ Q[0] = ll
      /\ \A i \in 0 .. n : Q[i] = ll + P[i]
  <2>1. 0 \in 0 .. n /\ ll + 0 = ll  OBVIOUS
  <2> QED  BY <1>5, <1>6, <2>1
<1> HIDE DEF Q
<1>8. end = Q[n] /\ Holds(b, 0, l) /\ Holds(b, ll, FlattenSeq(r))
  <2> DEFINE fl == FlattenSeq(r)
  <2> HIDE DEF fl
  <2>1. fl \in Seq(Nat) /\ Len(fl) = P[n]  BY <1>4, <1>5 DEF fl
  <2>2. e = l \o fl  BY <1>3 DEF fl
  <2>3. Len(e) = Len(l) + Len(fl)
    <3>1. Len(l \o fl) = Len(l) + Len(fl)  BY <1>1, <2>1, Appended
    <3> QED  BY <2>2, <3>1
  <2> PICK z \in Nat : z = 0  OBVIOUS
  <2>4. Holds(b, z, l \o fl)  BY <2>2
  <2>5. Holds(b, z, l) /\ Holds(b, z + Len(l), fl)  BY <1>1, <2>1, <2>4, HoldsParts
  <2>6. Q[n] = ll + P[n]  BY <1>7
  <2> QED  BY <2>1, <2>3, <2>5, <2>6 DEF fl
<1>9. Q[0] <= Q[n] /\ Q[n] \in Nat /\ Len(b) \in Nat
  <2>1. 0 \in 0 .. n /\ n \in 0 .. n  OBVIOUS
  <2>2. Q[n] = ll + P[n] /\ P[n] \in Nat  BY <1>6, <1>7, <2>1
  <2> QED  BY <1>7, <2>2
<1>10. IF ll <= Len(b) THEN NewlineAfter(b, 0) = ll /\ NumberAt(b, 0) = n
       ELSE NewlineAfter(b, 0) = 0
  <2> PICK z \in Nat : z = 0  OBVIOUS
  <2>1. ll = z + Len(Line(STAR, n)) /\ Holds(b, z, Line(STAR, n)) /\ STAR \in {STAR, DOLLAR}
    BY <1>8 DEF l
  <2>2. IF ll <= Len(b) THEN NewlineAfter(b, z) = ll /\ NumberAt(b, z) = n
        ELSE NewlineAfter(b, z) = 0
    BY <2>1, LineReads
  <2> QED  BY <2>2
<1> HIDE DEF end
<1>11. CASE ~(ll <= Len(b))
  <2>1. ParseReq(b) = NotReady  BY <1>10, <1>11 DEF ParseReq
  <2>2. end > Len(b)
    <3> PICK x \in Nat : x = Q[n]  BY <1>9
    <3>1. ll <= x  BY <1>7, <1>9
    <3> QED  BY <1>8, <1>9, <1>11, <3>1
  <2> QED  BY <2>1, <2>2 DEF end
<1>12. CASE ll <= Len(b) /\ errno = "EINVAL"
  <2>1. NewlineAfter(b, 0) # 0  BY <1>10, <1>12
  <2>2. ParseReq(b) = BadFormat  BY <1>12, <2>1 DEF ParseReq, RefusedLength
  <2> QED  BY <1>12, <2>2
<1>13. CASE ll <= Len(b) /\ errno # "EINVAL"
  <2>1. NewlineAfter(b, 0) = ll /\ NumberAt(b, 0) = n  BY <1>10, <1>13
  <2>2. ~RefusedLength(n, TRUE)  BY <1>13 DEF RefusedLength
  <2>9. NewlineAfter(b, 0) # 0  BY <2>1
  <2> PICK f : Parses(b, f, n)  BY <2>1, <2>2, <2>9, ParseFacts
  <2> DEFINE At(i) == IF Q[i] <= Len(b) THEN Packet(SubSeq(args, 1, i), Q[i]) ELSE NotReady
             S == { i \in 0 .. n : f[i] = At(i) }
  <2>3. 0 \in S
    <3>1. f[0] = Packet(<<>>, ll)  BY <2>1 DEF Parses
    <3>2. SubSeq(args, 1, 0) = <<>> /\ 0 \in 0 .. n  OBVIOUS
    <3> QED  BY <1>7, <1>13, <3>1, <3>2
  <2>4. ASSUME NEW k \in 0 .. n - 1, k \in S PROVE k + 1 \in S
    <3> PICK i \in 1 .. n : i = k + 1  OBVIOUS
    <3>1. k = i - 1 /\ i - 1 \in 0 .. n /\ i \in 0 .. n  OBVIOUS
    <3>2. f[i] = Argument(b, f[i - 1])  BY DEF Parses
    <3>3. /\ Q[i - 1] \in Nat /\ Q[i - 1] = ll + P[i - 1] /\ P[i - 1] \in Nat
          /\ Q[i] = Q[i - 1] + Len(Bulk(args[i])) /\ Len(Bulk(args[i])) \in Nat
      <4>1. Q[i - 1] = ll + P[i - 1] /\ Q[i] = ll + P[i] /\ P[i - 1] \in Nat /\ Q[i - 1] \in Nat
        BY <1>6, <1>7, <3>1
      <4>2. P[i] = P[i - 1] + Len(Bulk(args[i])) /\ Len(Bulk(args[i])) \in Nat
        <5>1. Len(r[i]) \in Nat  BY <1>2
        <5> QED  BY <1>2, <1>5, <5>1
      <4> QED  BY <4>1, <4>2
    <3>4. CASE Q[i - 1] <= Len(b)
      <4>1. f[i - 1] = Packet(SubSeq(args, 1, i - 1), Q[i - 1])  BY <2>4, <3>1, <3>4
      <4>2. Holds(b, Q[i - 1], Bulk(args[i]))
        <5>1. Holds(b, ll + P[i - 1], r[i])  BY <1>2, <1>8, HoldsPiece
        <5> QED  BY <1>2, <3>3, <5>1
      <4>3. args[i] \in Seq(Nat)  BY <1>2
      <4>4. Argument(b, Packet(SubSeq(args, 1, i - 1), Q[i - 1])) =
              IF Q[i] <= Len(b) THEN Packet(Append(SubSeq(args, 1, i - 1), args[i]), Q[i])
              ELSE NotReady
        <5> PICK at \in Nat, body \in Seq(Nat) : at = Q[i - 1] /\ body = args[i]
          BY <3>3, <4>3
        <5> PICK en : en = Q[i]  OBVIOUS
        <5>1. Holds(b, at, Bulk(body)) /\ en = at + Len(Bulk(body))  BY <3>3, <4>2
        <5>2. \A bs : Argument(b, Packet(bs, at)) =
                       IF en <= Len(b) THEN Packet(Append(bs, body), en) ELSE NotReady
          BY <1>13, <5>1, ArgumentReads
        <5> QED  BY <5>2
      <4>5. Append(SubSeq(args, 1, i - 1), args[i]) = SubSeq(args, 1, i)
        BY FirstOnesAppend
      <4> QED  BY <3>1, <3>2, <4>1, <4>4, <4>5
    <3>5. CASE ~(Q[i - 1] <= Len(b))
      <4>1. f[i - 1] = NotReady  BY <2>4, <3>1, <3>5
      <4>2. Argument(b, NotReady) = NotReady  BY DEF Argument, NotReady
      <4>3. ~(Q[i] <= Len(b))
        <5> PICK x \in Nat, y \in Nat : x = Q[i - 1] /\ y = Len(Bulk(args[i]))  BY <3>3
        <5>1. ~(x <= Len(b)) /\ Q[i] = x + y  BY <3>3, <3>5
        <5> QED  BY <1>9, <5>1
      <4> QED  BY <3>1, <3>2, <4>1, <4>2, <4>3
    <3> QED  BY <3>4, <3>5
  <2>5. f[n] = At(n)
    <3> PICK z \in Int : z = 0  OBVIOUS
    <3>1. z \in S /\ n \in Int /\ \A k \in z .. n - 1 : k \in S => k + 1 \in S
      BY <2>3, <2>4
    <3>2. n \in S
      <4> HIDE DEF S
      <4>1. \A k \in z .. n : k \in S  BY <3>1, IntervalInduction
      <4>2. n \in z .. n  OBVIOUS
      <4> QED  BY <4>1, <4>2
    <3> QED  BY <3>2
  <2>6. ParseReq(b) = f[n] /\ SubSeq(args, 1, n) = args  BY DEF Parses
  <2>7. CASE Q[n] <= Len(b)
    <3>1. ParseReq(b) = Packet(args, end)  BY <1>8, <2>5, <2>6, <2>7
    <3>2. end <= Len(b)  BY <1>8, <2>7
    <3> QED  BY <1>13, <3>1, <3>2 DEF end
  <2>8. CASE ~(Q[n] <= Len(b))
    <3>1. ParseReq(b) = NotReady  BY <2>5, <2>6, <2>8
    <3>2. end > Len(b)  BY <1>8, <1>9, <2>8
    <3> QED  BY <3>1, <3>2 DEF end
  <2> QED  BY <2>7, <2>8
<1> QED  BY <1>11, <1>12, <1>13

-----------------------------------------------------------------------------
\* A '*' is neither blank nor a digit.
LEMMA NotStar ==
  /\ \A c \in BLANK : c # STAR /\ c \in Nat
  /\ \A c \in DIGIT : c # STAR
  /\ STAR \notin BLANK /\ STAR \notin DIGIT /\ STAR \in Nat
BY DEF BLANK, DIGIT, STAR, LF, CR

\* The parts of what a peer may send.
LEMMA PacketFields ==
  ASSUME NEW p \in Packets
  PROVE  /\ p.redis \in BOOLEAN /\ p.bodies \in Seq(Seq(Nat)) /\ p.bodies # <<>>
         /\ p.eol \in Eols /\ p.lead \in Seq(BLANK) /\ p.lead \in Seq(Nat)
<1>1. p.bodies \in Seq(Seq(Nat))
  <2>1. Byte \subseteq Nat  BY DEF Byte
  <2>2. \A s \in Seq(Byte) : s \in Seq(Nat)  BY <2>1, WiderSeq
  <2>3. Seq(Byte) \subseteq Seq(Nat)  BY <2>2
  <2>4. p.bodies \in Seq(Seq(Byte))  BY DEF Packets
  <2> PICK S, T : S = Seq(Byte) /\ T = Seq(Nat)  OBVIOUS
  <2>5. S \subseteq T /\ p.bodies \in Seq(S)  BY <2>3, <2>4
  <2>6. p.bodies \in Seq(T)  BY <2>5, WiderSeq
  <2> QED  BY <2>6
<1>2. p.lead \in Seq(Nat)
  <2>1. BLANK \subseteq Nat  BY NotStar
  <2>2. p.lead \in Seq(BLANK)  BY DEF Packets
  <2> QED  BY <2>1, <2>2, WiderSeq
<1> QED  BY <1>1, <1>2 DEF Packets, Eols

\* A request begins with a '*' and a line.
LEMMA RequestBytes ==
  ASSUME NEW args \in Seq(Seq(Nat)), args # <<>>
  PROVE  /\ RedisRequest(args) \in Seq(Nat) /\ Line(STAR, Len(args)) \in Seq(Nat)
         /\ RedisRequest(args) = Line(STAR, Len(args)) \o FlattenSeq(Bulks(args))
         /\ FlattenSeq(Bulks(args)) \in Seq(Nat)
         /\ Len(Line(STAR, Len(args))) \in Nat /\ Len(Line(STAR, Len(args))) >= 1
         /\ Len(RedisRequest(args)) >= Len(Line(STAR, Len(args)))
         /\ Len(RedisRequest(args)) >= 1
         /\ Line(STAR, Len(args))[1] = STAR /\ RedisRequest(args)[1] = STAR
<1> DEFINE l == Line(STAR, Len(args))
           fl == FlattenSeq(Bulks(args))
<1>1. l \in Seq(Nat) /\ Len(l) \in Nat /\ Len(l) >= 1 /\ l[1] = STAR
  <2> PICK n \in Nat : n = Len(args)  OBVIOUS
  <2>1. Line(STAR, n) \in Seq(Nat) /\ Len(Line(STAR, n)) = 1 + Len(Decimal[n]) + Len(CRLF)
        /\ Line(STAR, n)[1] = STAR
    BY LineBytes
  <2> QED  BY <2>1, DecimalBytes, CrlfBytes
<1>2. fl \in Seq(Nat)  BY BulksType, FlattenType
<1>3. RedisRequest(args) = l \o fl  BY DEF RedisRequest, Bulks
<1> HIDE DEF l, fl
<1>4. l \o fl \in Seq(Nat) /\ Len(l \o fl) = Len(l) + Len(fl) /\ (l \o fl)[1] = l[1]
  <2>1. 1 \in 1 .. Len(l)  BY <1>1
  <2> QED  BY <1>1, <1>2, <2>1, Appended
<1>5. Len(l \o fl) >= Len(l) /\ Len(l \o fl) >= 1
  <2> PICK x \in Nat, y \in Nat : x = Len(l) /\ y = Len(fl) /\ x >= 1  BY <1>1, <1>2
  <2>1. x + y >= x /\ x + y >= 1  OBVIOUS
  <2> QED  BY <1>4, <2>1
<1> QED  BY <1>1, <1>2, <1>3, <1>4, <1>5 DEF l, fl

\* recv() takes what begins with a blank line for an SSDB packet.
LEMMA BlankBeforeStar ==
  ASSUME NEW b \in Seq(Nat), NEW lead \in Seq(BLANK), lead # <<>>,
         NEW args \in Seq(Seq(Nat)), args # <<>>,
         NEW e, e = lead \o RedisRequest(args), Holds(b, 0, e)
  PROVE  \/ Recv(b) = NotReady /\ Len(e) > Len(b)
         \/ Recv(b) = BadFormat
<1> DEFINE q == RedisRequest(args)
           l == Line(STAR, Len(args))
           fl == FlattenSeq(Bulks(args))
<1>1. /\ q \in Seq(Nat) /\ l \in Seq(Nat) /\ fl \in Seq(Nat) /\ q = l \o fl
      /\ Len(l) \in Nat /\ Len(l) >= 1 /\ Len(q) >= Len(l) /\ Len(q) >= 1 /\ l[1] = STAR
      /\ Len(q) \in Nat
  <2>1. q \in Seq(Nat)  BY RequestBytes
  <2>2. Len(q) \in Nat
    <3> HIDE DEF q
    <3> QED  BY <2>1
  <2> QED  BY <2>1, <2>2, RequestBytes
<1>2. lead \in Seq(Nat) /\ \A i \in 1 .. Len(lead) : lead[i] \in BLANK
  <2>1. BLANK \subseteq Nat  BY NotStar
  <2>2. lead \in Seq(Nat)  BY <2>1, WiderSeq
  <2> QED  BY <2>2
<1> PICK lp \in Nat : lp = Len(lead) /\ lp # 0  OBVIOUS
<1> HIDE DEF q, fl
<1>3. Holds(b, 0, lead) /\ Holds(b, lp, q) /\ Len(e) = lp + Len(q)
  <2> PICK z \in Nat : z = 0  OBVIOUS
  <2>1. Holds(b, z, lead \o q)  BY DEF q
  <2>2. Holds(b, z, lead) /\ Holds(b, z + Len(lead), q)  BY <1>1, <1>2, <2>1, HoldsParts
  <2>3. Len(lead \o q) = Len(lead) + Len(q)  BY <1>1, <1>2, Appended
  <2> QED  BY <2>2, <2>3 DEF q
<1>4. Holds(b, lp, l)
  <2> HIDE DEF l
  <2> QED  BY <1>1, <1>3, HoldsParts
<1>5. Len(b) \in Nat  OBVIOUS
<1>6. lp + 1 <= Len(b) => b[lp + 1] = STAR
  <2>1. 1 \in 1 .. Len(l)  BY <1>1
  <2> HIDE DEF l
  <2> QED  BY <1>1, <1>4, <2>1 DEF Holds
<1>7. ~IsRedis(b)
  <2> SUFFICES ASSUME b # <<>> PROVE b[1] # STAR
    BY DEF IsRedis
  <2>1. 1 \in 1 .. Len(lead) /\ 0 + 1 <= Len(b)  BY <1>5
  <2>2. b[0 + 1] = lead[1]  BY <1>3, <2>1 DEF Holds
  <2> QED  BY <1>2, <2>1, <2>2, NotStar
<1>8. Recv(b) = SsdbRecv(b)  BY <1>7 DEF Recv
<1>9. RunEnd(b, 0, BLANK) = IF lp <= Len(b) THEN lp ELSE Len(b)
  <2>1. \A i \in 1 .. lp : 0 + i <= Len(b) => b[0 + i] \in BLANK
    BY <1>2, <1>3 DEF Holds
  <2>2. 0 + lp + 1 <= Len(b) => b[0 + lp + 1] \notin BLANK  BY <1>6, NotStar
  <2> PICK z \in 0 .. Len(b) : z = 0  BY <1>5
  <2>3. RunEnd(b, z, BLANK) = IF z + lp <= Len(b) THEN z + lp ELSE Len(b)
    BY <1>5, <2>1, <2>2, RunEndIs
  <2> QED  BY <2>3
<1> PICK f : Scans(b, f)  BY ScanFacts
<1>10. SsdbRecv(b) = f[RunEnd(b, 0, BLANK)]  BY DEF Scans
<1>11. ASSUME NEW x \in 0 .. Len(b), Turn(b, x).kind # "record" PROVE f[x] = Turn(b, x)
  BY <1>11 DEF Scans
<1>12. CASE ~(lp <= Len(b))
  <2>1. RunEnd(b, 0, BLANK) = Len(b) /\ Len(b) \in 0 .. Len(b)  BY <1>5, <1>9, <1>12
  <2>2. Turn(b, Len(b)) = NotReady  BY EndTurn
  <2>3. Turn(b, Len(b)).kind # "record"  BY <2>2 DEF NotReady
  <2>4. Recv(b) = NotReady  BY <1>8, <1>10, <1>11, <2>1, <2>2, <2>3
  <2>5. Len(e) > Len(b)
    <3> PICK x \in Nat : x = Len(q)  BY <1>1
    <3> QED  BY <1>3, <1>5, <1>12
  <2> QED  BY <2>4, <2>5
<1>13. CASE lp <= Len(b)
  <2>1. lp \in 0 .. Len(b) /\ Recv(b) = f[lp]  BY <1>5, <1>8, <1>9, <1>10, <1>13
  <2> DEFINE eoh == NewlineAfter(b, lp)
             header == SubSeq(b, lp + 1, eoh - 1)
  <2>2. CASE eoh = 0
    <3>1. Turn(b, lp) = NotReady  BY <2>2 DEF Turn
    <3>2. Turn(b, lp).kind # "record"  BY <3>1 DEF NotReady
    <3>3. Recv(b) = NotReady  BY <1>11, <2>1, <3>1, <3>2
    <3>4. lp + Len(l) > Len(b)
      <4> PICK n \in Nat, x \in Nat : n = Len(args) /\ x = lp + Len(Line(STAR, n))  BY <1>1
      <4>1. Holds(b, lp, Line(STAR, n)) /\ STAR \in {STAR, DOLLAR}  BY <1>4
      <4>2. IF x <= Len(b) THEN NewlineAfter(b, lp) = x /\ NumberAt(b, lp) = n
            ELSE NewlineAfter(b, lp) = 0
        BY <4>1, LineReads
      <4>3. x # 0
        <5> PICK y \in Nat : y = Len(l)  BY <1>1
        <5>1. x = lp + y /\ lp # 0  OBVIOUS
        <5> QED  BY <5>1
      <4>4. ~(x <= Len(b)) /\ x = lp + Len(l)  BY <2>2, <4>2, <4>3
      <4> HIDE DEF l
      <4> QED  BY <1>5, <4>4
    <3>5. Len(e) > Len(b)
      <4> HIDE DEF l
      <4> PICK x \in Nat, y \in Nat : x = Len(q) /\ y = Len(l) /\ x >= y  BY <1>1
      <4>1. lp + y > Len(b)  BY <3>4
      <4> QED  BY <1>3, <1>5, <4>1
    <3> QED  BY <3>3, <3>5
  <2>3. CASE eoh # 0
    <3>1. eoh \in lp + 1 .. Len(b) /\ b[eoh] = LF  BY <1>5, <2>3, NewlineFacts
    <3>2. b[lp + 1] = STAR  BY <1>5, <1>6, <3>1
    <3>3. eoh # lp + 1  BY <3>1, <3>2 DEF LF, STAR
    <3>4. Len(header) >= 1 /\ header[1] = STAR
      <4> PICK k \in Nat \ {0} : k = lp + 1  OBVIOUS
      <4>1. eoh - 1 \in k - 1 .. Len(b) /\ eoh - 1 >= k
        <5> PICK x \in Nat, n \in Nat : x = eoh /\ n = Len(b)  BY <1>5, <3>1
        <5>1. k <= x /\ x <= n /\ x # k  BY <3>1, <3>3
        <5>2. x - 1 \in k - 1 .. n /\ x - 1 >= k  BY <5>1
        <5> QED  BY <5>2
      <4> PICK x \in Nat : x = eoh - 1  BY <4>1
      <4>2. /\ Len(SubSeq(b, k, x)) = x - k + 1
            /\ \A i \in 1 .. x - k + 1 : SubSeq(b, k, x)[i] = b[k + i - 1]
        BY <4>1, SubSeqFacts
      <4>3. x - k + 1 >= 1 /\ 1 \in 1 .. x - k + 1 /\ k + 1 - 1 = k  BY <4>1
      <4>4. Len(SubSeq(b, k, x)) >= 1 /\ SubSeq(b, k, x)[1] = b[k]  BY <4>2, <4>3
      <4> QED  BY <3>2, <4>4
    <3> HIDE DEF header
    <3>5. header # <<>> /\ header # <<CR>>
      <4>1. header # <<>>  BY <3>4
      <4>2. <<CR>>[1] # STAR  BY DEF CR, STAR
      <4> QED  BY <3>4, <4>1, <4>2
    <3>6. Turn(b, lp) = BadFormat  BY <2>3, <3>4, <3>5, NotStar DEF Turn, header
    <3>7. Turn(b, lp).kind # "record"  BY <3>6 DEF BadFormat
    <3> QED  BY <1>11, <2>1, <3>6, <3>7
  <2> QED  BY <2>2, <2>3
<1> QED  BY <1>12, <1>13

(* recv() on what has arrived of the next request of either protocol: it   *)
(* takes all of it as it was sent, or says "not ready" while some of it is *)
(* to come, or refuses it for one of three reasons (link.cpp:275,          *)
(* link_redis.cpp:509-567).                                                *)
THEOREM RecvReads ==
  ASSUME NEW p \in Packets, NEW b \in Seq(Nat), NEW e, e = Encoded(p), Holds(b, 0, e)
  PROVE  \/ /\ Recv(b) = Packet(p.bodies, Len(e)) /\ Len(e) <= Len(b)
            /\ IsRedis(b) = p.redis /\ (p.redis \/ ~Oversized(p))
         \/ Recv(b) = NotReady /\ Len(e) > Len(b)
         \/ /\ Recv(b) = BadFormat
            /\ \/ ~p.redis /\ Oversized(p)
               \/ p.redis /\ p.lead # <<>>
               \/ p.redis /\ errno = "EINVAL"
<1>1. /\ p.redis \in BOOLEAN /\ p.bodies \in Seq(Seq(Nat)) /\ p.bodies # <<>>
      /\ p.eol \in Eols /\ p.lead \in Seq(BLANK) /\ p.lead \in Seq(Nat) /\ Len(b) \in Nat
  BY PacketFields
<1>2. CASE ~p.redis
  <2>1. e = p.lead \o Send(p.eol, p.bodies)  BY <1>2 DEF Encoded, SsdbPacket
  <2>2. IsRedis(b) = FALSE
    <3> SUFFICES ASSUME b # <<>> PROVE b[1] # STAR
      BY DEF IsRedis
    <3>1. /\ Holds(b, 0, p.lead)
          /\ Len(p.lead) + 1 <= Len(b) => b[Len(p.lead) + 1] \in DIGIT
      BY <1>1, <2>1, LeadReads
    <3>2. CASE p.lead = <<>>
      <4>1. Len(p.lead) + 1 = 1 /\ 1 <= Len(b)  BY <1>1, <3>2
      <4> QED  BY <3>1, <4>1, NotStar
    <3>3. CASE p.lead # <<>>
      <4>1. 1 \in 1 .. Len(p.lead) /\ 0 + 1 <= Len(b)  BY <1>1, <3>3
      <4>2. b[0 + 1] = p.lead[1] /\ p.lead[1] \in BLANK  BY <1>1, <3>1, <4>1 DEF Holds
      <4> QED  BY <4>2, NotStar
    <3> QED  BY <3>2, <3>3
  <2>3. Recv(b) = SsdbRecv(b)  BY <2>2 DEF Recv
  <2>4. \/ SsdbRecv(b) = Packet(p.bodies, Len(e)) /\ Len(e) <= Len(b) /\ ~Oversized(p)
        \/ SsdbRecv(b) = NotReady /\ Len(e) > Len(b)
        \/ SsdbRecv(b) = BadFormat /\ Oversized(p)
    BY <1>1, <2>1, SsdbReads DEF Oversized
  <2> QED  BY <1>1, <1>2, <2>2, <2>3, <2>4
<1>3. CASE p.redis /\ p.lead # <<>>
  <2>1. e = p.lead \o RedisRequest(p.bodies)  BY <1>3 DEF Encoded
  <2>2. \/ Recv(b) = NotReady /\ Len(e) > Len(b)
        \/ Recv(b) = BadFormat
    BY <1>1, <1>3, <2>1, BlankBeforeStar
  <2> QED  BY <1>3, <2>2
<1>4. CASE p.redis /\ p.lead = <<>>
  <2>1. /\ RedisRequest(p.bodies) \in Seq(Nat) /\ RedisRequest(p.bodies)[1] = STAR
        /\ Len(RedisRequest(p.bodies)) >= 1
    BY <1>1, RequestBytes
  <2> PICK q \in Seq(Nat) : q = RedisRequest(p.bodies)  BY <2>1
  <2>2. e = q
    <3>1. e = p.lead \o q  BY <1>4 DEF Encoded
    <3>2. <<>> \o q = q  OBVIOUS
    <3> QED  BY <1>4, <3>1, <3>2
  <2>3. CASE b = <<>>
    <3> PICK z \in 0 .. Len(b) : z = 0  BY <1>1
    <3>1. RunEnd(b, z, BLANK) = Len(b)
      <4>1. Len(b) = 0 /\ RunEnd(b, z, BLANK) \in z .. Len(b)  BY <1>1, <2>3, RunEndFacts
      <4> QED  BY <4>1
    <3> PICK f : Scans(b, f)  BY ScanFacts
    <3>2. SsdbRecv(b) = f[Len(b)]  BY <3>1 DEF Scans
    <3>3. Turn(b, Len(b)) = NotReady /\ Len(b) \in 0 .. Len(b)  BY <1>1, EndTurn
    <3>4. Turn(b, Len(b)).kind # "record"  BY <3>3 DEF NotReady
    <3>5. f[Len(b)] = NotReady  BY <3>3, <3>4 DEF Scans
    <3>6. Recv(b) = NotReady  BY <2>3, <3>2, <3>5 DEF Recv, IsRedis
    <3>7. Len(b) = 0 /\ Len(e) >= 1 /\ Len(e) \in Nat  BY <2>1, <2>2, <2>3
    <3>8. Len(e) > Len(b)  BY <3>7
    <3> QED  BY <3>6, <3>8
  <2>4. CASE b # <<>>
    <3>1. b[1] = STAR
      <4>1. 1 \in 1 .. Len(e) /\ 0 + 1 <= Len(b) /\ e[1] = STAR  BY <1>1, <2>1, <2>2, <2>4
      <4>2. b[0 + 1] = e[1]  BY <4>1 DEF Holds
      <4> QED  BY <4>1, <4>2
    <3>2. IsRedis(b) = TRUE /\ Recv(b) = ParseReq(b)  BY <2>4, <3>1 DEF Recv, IsRedis
    <3>3. \/ ParseReq(b) = Packet(p.bodies, Len(e)) /\ Len(e) <= Len(b) /\ errno # "EINVAL"
          \/ ParseReq(b) = NotReady /\ Len(e) > Len(b)
          \/ ParseReq(b) = BadFormat /\ errno = "EINVAL"
      BY <1>1, <2>2, RequestReads
    <3>4. p.redis = TRUE  BY <1>1, <1>4
    <3> QED  BY <3>2, <3>3, <3>4
  <2> QED  BY <2>3, <2>4
<1> QED  BY <1>1, <1>2, <1>3, <1>4

-----------------------------------------------------------------------------
(* Where the packets of a stream lie.                                       *)

Encs(ps) == [i \in 1 .. Len(ps) |-> Encoded(ps[i])]

\* What a packet is on the wire.
LEMMA EncodedBytes ==
  ASSUME NEW p \in Packets
  PROVE  Encoded(p) \in Seq(Nat)
<1>1. /\ p.redis \in BOOLEAN /\ p.bodies \in Seq(Seq(Nat)) /\ p.bodies # <<>>
      /\ p.eol \in Eols /\ p.lead \in Seq(Nat)
  BY PacketFields
<1>2. CASE p.redis
  <2>1. RedisRequest(p.bodies) \in Seq(Nat)  BY <1>1, RequestBytes
  <2> QED  BY <1>1, <1>2, <2>1, Appended DEF Encoded
<1>3. CASE ~p.redis
  <2>1. FlattenSeq(Records(p.eol, p.bodies)) \in Seq(Nat) /\ p.eol \in Seq(Nat)
    BY <1>1, RecordsType, FlattenType, EolLength
  <2>2. Send(p.eol, p.bodies) = FlattenSeq(Records(p.eol, p.bodies)) \o p.eol
    BY DEF Send, Records
  <2>3. Send(p.eol, p.bodies) \in Seq(Nat)  BY <2>1, <2>2, Appended
  <2> QED  BY <1>1, <1>3, <2>3, Appended DEF Encoded, SsdbPacket
<1> QED  BY <1>1, <1>2, <1>3

\* A stream is its packets, one after the other.
LEMMA EncsType ==
  ASSUME NEW ps \in Seq(Packets)
  PROVE  /\ Encs(ps) \in Seq(Seq(Nat)) /\ Len(Encs(ps)) = Len(ps)
         /\ \A i \in 1 .. Len(ps) : /\ Encs(ps)[i] = Encoded(ps[i])
                                    /\ Encoded(ps[i]) \in Seq(Nat) /\ ps[i] \in Packets
         /\ Stream(ps) = FlattenSeq(Encs(ps)) /\ Stream(ps) \in Seq(Nat)
<1> PICK n \in Nat : n = Len(ps)  OBVIOUS
<1>1. \A i \in 1 .. n : Encoded(ps[i]) \in Seq(Nat) /\ ps[i] \in Packets
  BY Element, EncodedBytes
<1> DEFINE u == [i \in 1 .. n |-> Encoded(ps[i])]
<1>2. u \in Seq(Seq(Nat)) /\ Len(u) = n
  <2>1. u \in [1 .. n -> Seq(Nat)]  BY <1>1
  <2> HIDE DEF u
  <2> QED  BY <2>1, FcnSeq
<1>3. \A i \in 1 .. n : u[i] = Encoded(ps[i])  OBVIOUS
<1>4. Encs(ps) = u  BY DEF Encs
<1>5. Stream(ps) = FlattenSeq(Encs(ps))  BY DEF Stream, Encs
<1>6. FlattenSeq(u) \in Seq(Nat)
  <2> HIDE DEF u
  <2> QED  BY <1>2, FlattenType
<1> HIDE DEF u
<1> QED  BY <1>1, <1>2, <1>3, <1>4, <1>5, <1>6

\* Each packet of a stream lies after those before it.
LEMMA StreamLaid ==
  ASSUME NEW ps \in Seq(Packets)
  PROVE  \E P : /\ Laid(Encs(ps), P)
                /\ \A i \in 0 .. Len(ps) : Len(Stream(SubSeq(ps, 1, i))) = P[i]
<1> DEFINE u == Encs(ps)
<1>1. /\ u \in Seq(Seq(Nat)) /\ Len(u) = Len(ps)
      /\ \A k \in 1 .. Len(ps) : u[k] = Encoded(ps[k])
  BY EncsType
<1> HIDE DEF u
<1> PICK P : Laid(u, P)  BY <1>1, FlattenLaid
<1>2. ASSUME NEW i \in 0 .. Len(ps) PROVE Len(Stream(SubSeq(ps, 1, i))) = P[i]
  <2> DEFINE c == SubSeq(ps, 1, i)
             t == SubSeq(u, 1, i)
             v == Encs(c)
  <2>1. c \in Seq(Packets) /\ Len(c) = i /\ \A k \in 1 .. i : c[k] = ps[k]
    BY FirstOnes
  <2>2. t \in Seq(Seq(Nat)) /\ Len(t) = i /\ \A k \in 1 .. i : t[k] = u[k]
    BY <1>1, FirstOnes
  <2> HIDE DEF c, t
  <2>3. /\ v \in Seq(Seq(Nat)) /\ Len(v) = Len(c) /\ Stream(c) = FlattenSeq(v)
        /\ \A k \in 1 .. Len(c) : v[k] = Encoded(c[k])
    BY <2>1, EncsType
  <2> HIDE DEF v
  <2>4. ASSUME NEW k \in 1 .. Len(v) PROVE v[k] = t[k]
    <3>1. k \in 1 .. i /\ k \in 1 .. Len(ps)  BY <2>1, <2>3
    <3>2. v[k] = Encoded(ps[k])  BY <2>1, <2>3, <3>1
    <3>3. t[k] = Encoded(ps[k])  BY <1>1, <2>2, <3>1
    <3> QED  BY <3>2, <3>3
  <2>5. Len(v) = Len(t)  BY <2>1, <2>2, <2>3
  <2>6. v = t  BY <2>2, <2>3, <2>4, <2>5, SameSeq
  <2>7. P[i] = Len(FlattenSeq(t))  BY <1>1 DEF Laid, t
  <2> QED  BY <2>3, <2>6, <2>7 DEF c
<1> QED  BY <1>2 DEF u

\* b and w are what follows the first a bytes of t.
Rest(b, w, t, a) == b \o w = SubSeq(t, a + 1, Len(t))

\* What is left of a sequence after its front has been taken off.
LEMMA DropFront ==
  ASSUME NEW T, NEW s \in Seq(T), NEW w \in Seq(T), NEW t \in Seq(T),
         NEW a \in 0 .. Len(t), NEW l \in 0 .. Len(s)
  PROVE  Rest(s, w, t, a) =>
           /\ SubSeq(s, l + 1, Len(s)) \in Seq(T)
           /\ a + l <= Len(t)
           /\ Rest(SubSeq(s, l + 1, Len(s)), w, t, a + l)
<1> PICK n \in Nat, m \in Nat, k \in Nat : n = Len(t) /\ m = Len(s) /\ k = Len(w)  OBVIOUS
<1> PICK a1 \in Nat \ {0}, l1 \in Nat \ {0}, al \in Nat \ {0} :
      a1 = a + 1 /\ l1 = l + 1 /\ al = (a + l) + 1
  OBVIOUS
<1>1. /\ s \o w \in Seq(T) /\ Len(s \o w) = m + k /\ \A i \in 1 .. m : (s \o w)[i] = s[i]
      /\ \A i \in 1 .. k : (s \o w)[m + i] = w[i]
  <2>1. /\ s \o w \in Seq(T) /\ Len(s \o w) = Len(s) + Len(w)
        /\ \A i \in 1 .. Len(s) : (s \o w)[i] = s[i]
        /\ \A i \in 1 .. Len(w) : (s \o w)[Len(s) + i] = w[i]
    BY Appended
  <2> QED  BY <2>1
<1>2. /\ Len(SubSeq(t, a1, n)) = n - a1 + 1
      /\ \A i \in 1 .. n - a1 + 1 : SubSeq(t, a1, n)[i] = t[a1 + i - 1]
  <2>1. n \in a1 - 1 .. Len(t)  OBVIOUS
  <2> QED  BY <2>1, SubSeqFacts
<1>7. /\ SubSeq(s, l1, m) \o w \in Seq(T)
      /\ Len(SubSeq(s, l1, m) \o w) = Len(SubSeq(s, l1, m)) + k
      /\ \A i \in 1 .. Len(SubSeq(s, l1, m)) : (SubSeq(s, l1, m) \o w)[i] = SubSeq(s, l1, m)[i]
      /\ \A i \in 1 .. k :
           (SubSeq(s, l1, m) \o w)[Len(SubSeq(s, l1, m)) + i] = w[i]
  <2>1. m \in l1 - 1 .. Len(s)  OBVIOUS
  <2>2. SubSeq(s, l1, m) \in Seq(T)  BY <2>1, SubSeqFacts
  <2> DEFINE x == SubSeq(s, l1, m)
  <2> HIDE DEF x
  <2>3. /\ x \o w \in Seq(T) /\ Len(x \o w) = Len(x) + Len(w)
        /\ \A i \in 1 .. Len(x) : (x \o w)[i] = x[i]
        /\ \A i \in 1 .. Len(w) : (x \o w)[Len(x) + i] = w[i]
    <3>1. x \in Seq(T)  BY <2>2 DEF x
    <3> QED  BY <3>1, Appended
  <2> QED  BY <2>3 DEF x
<1>13. l <= m /\ (a + (m + k) = n => (m - l) + k = n - (a + l))  OBVIOUS
<1> SUFFICES ASSUME s \o w = SubSeq(t, a1, n)
             PROVE  /\ SubSeq(s, l1, m) \in Seq(T) /\ a + l <= n
                    /\ SubSeq(s, l1, m) \o w = SubSeq(t, al, n)
  BY DEF Rest
<1>3. m + k = n - a1 + 1 /\ a + (m + k) = n /\ a + l <= n
  <2>1. m + k = n - a1 + 1  BY <1>1, <1>2
  <2>2. l <= m  OBVIOUS
  <2> QED  BY <2>1, <2>2
<1> DEFINE x == SubSeq(s, l1, m)
           y == SubSeq(t, al, n)
<1>4. x \in Seq(T) /\ Len(x) = m - l /\ \A i \in 1 .. m - l : x[i] = s[l + i]
  <2>1. m \in l1 - 1 .. Len(s) /\ m - l1 + 1 = m - l  OBVIOUS
  <2>2. \A i \in 1 .. m - l : l1 + i - 1 = l + i  OBVIOUS
  <2> HIDE DEF x
  <2>3. x \in Seq(T) /\ Len(x) = m - l1 + 1 /\ \A i \in 1 .. m - l1 + 1 : x[i] = s[l1 + i - 1]
    BY <2>1, SubSeqFacts DEF x
  <2> QED  BY <2>1, <2>2, <2>3
<1>5. y \in Seq(T) /\ Len(y) = n - (a + l) /\ \A i \in 1 .. n - (a + l) : y[i] = t[(a + l) + i]
  <2>1. n \in al - 1 .. Len(t) /\ n - al + 1 = n - (a + l)  BY <1>3
  <2>2. \A i \in 1 .. n - (a + l) : al + i - 1 = (a + l) + i  OBVIOUS
  <2> HIDE DEF y
  <2>3. y \in Seq(T) /\ Len(y) = n - al + 1 /\ \A i \in 1 .. n - al + 1 : y[i] = t[al + i - 1]
    BY <2>1, SubSeqFacts DEF y
  <2> QED  BY <2>1, <2>2, <2>3
<1>6. \A i \in 1 .. m + k : (s \o w)[i] = t[a + i]
  <2>1. \A i \in 1 .. m + k : a1 + i - 1 = a + i  OBVIOUS
  <2> QED  BY <1>2, <1>3, <2>1
<1> HIDE DEF x, y
<1>11. /\ x \o w \in Seq(T) /\ Len(x \o w) = (m - l) + k
       /\ \A i \in 1 .. m - l : (x \o w)[i] = x[i]
       /\ \A i \in 1 .. k : (x \o w)[(m - l) + i] = w[i]
  BY <1>4, <1>7 DEF x
<1>8. Len(x \o w) = Len(y)
  BY <1>3, <1>5, <1>11, <1>13
<1>9. ASSUME NEW i \in 1 .. Len(x \o w) PROVE (x \o w)[i] = y[i]
  <2>0. l <= m /\ i \in 1 .. (m - l) + k /\ i \in 1 .. n - (a + l)  BY <1>5, <1>11, <1>8
  <2>1. l + i \in 1 .. m + k /\ a + (l + i) = (a + l) + i  BY <2>0
  <2>2. y[i] = (s \o w)[l + i]  BY <1>5, <1>6, <2>0, <2>1
  <2>3. CASE i <= m - l
    <3>1. i \in 1 .. m - l /\ l + i \in 1 .. m  BY <2>0, <2>3
    <3> QED  BY <1>1, <1>4, <1>11, <2>2, <3>1
  <2>4. CASE ~(i <= m - l)
    <3> PICK j : j = i - (m - l)  OBVIOUS
    <3>1. j \in 1 .. k /\ i = (m - l) + j /\ l + i = m + j  BY <2>0, <2>4
    <3>2. (x \o w)[i] = w[j]  BY <1>11, <3>1
    <3>3. (s \o w)[l + i] = w[j]  BY <1>1, <3>1
    <3> QED  BY <2>2, <3>2, <3>3
  <2> QED  BY <2>3, <2>4
<1>12. x \o w = y  BY <1>5, <1>11, <1>8, <1>9, SameSeq
<1> QED  BY <1>3, <1>4, <1>12 DEF x, y

-----------------------------------------------------------------------------
(* What is in the buffer and on the wire is the rest of the stream.          *)

Ends(ps, i) == Len(Stream(SubSeq(ps, 1, i)))

\* Where the packets of a stream end, and the bytes of each.
LEMMA EndsFacts ==
  ASSUME NEW ps \in Seq(Packets)
  PROVE  /\ Ends(ps, 0) = 0 /\ Ends(ps, Len(ps)) = Len(Stream(ps))
         /\ \A i \in 0 .. Len(ps) : Ends(ps, i) \in Nat /\ Ends(ps, i) <= Len(Stream(ps))
         /\ \A i, j \in 0 .. Len(ps) : i <= j => Ends(ps, i) <= Ends(ps, j)
         /\ \A i \in 1 .. Len(ps) : Ends(ps, i) = Ends(ps, i - 1) + Len(Encoded(ps[i]))
         /\ \A i \in 1 .. Len(ps) : \A j \in 1 .. Len(Encoded(ps[i])) :
              Stream(ps)[Ends(ps, i - 1) + j] = Encoded(ps[i])[j]
<1> DEFINE u == Encs(ps)
<1>1. /\ u \in Seq(Seq(Nat)) /\ Len(u) = Len(ps)
      /\ \A i \in 1 .. Len(ps) : u[i] = Encoded(ps[i])
      /\ Stream(ps) = FlattenSeq(u)
  BY EncsType
<1> PICK P : Laid(u, P) /\ \A i \in 0 .. Len(ps) : Len(Stream(SubSeq(ps, 1, i))) = P[i]
  BY StreamLaid
<1> HIDE DEF u
<1> PICK n \in Nat : n = Len(ps)  OBVIOUS
<1>2. /\ P \in [0 .. n -> Nat] /\ P[0] = 0
      /\ \A i \in 1 .. n : P[i] = P[i - 1] + Len(u[i])
      /\ \A i \in 1 .. n : \A j \in 1 .. Len(u[i]) : Stream(ps)[P[i - 1] + j] = u[i][j]
      /\ Len(Stream(ps)) = P[n]
  BY <1>1 DEF Laid
<1>3. \A i, j \in 0 .. n : i <= j => P[i] <= P[j]
  BY <1>1, LaidInOrder
<1>4. \A i \in 0 .. n : Ends(ps, i) = P[i]  BY DEF Ends
<1>5. \A i \in 0 .. n : P[i] \in Nat /\ P[i] <= P[n]
  <2>1. \A i \in 0 .. n : i <= n /\ n \in 0 .. n  OBVIOUS
  <2> QED  BY <1>2, <1>3, <2>1
<1>6. \A i \in 1 .. n : i \in 0 .. n /\ i - 1 \in 0 .. n  OBVIOUS
<1>7. 0 \in 0 .. n /\ n \in 0 .. n  OBVIOUS
<1>8. \A i \in 1 .. n : Ends(ps, i) = Ends(ps, i - 1) + Len(Encoded(ps[i]))
  BY <1>1, <1>2, <1>4, <1>6
<1>9. \A i \in 1 .. n : \A j \in 1 .. Len(Encoded(ps[i])) :
        Stream(ps)[Ends(ps, i - 1) + j] = Encoded(ps[i])[j]
  <2> SUFFICES ASSUME NEW i \in 1 .. n, NEW j \in 1 .. Len(Encoded(ps[i]))
               PROVE  Stream(ps)[Ends(ps, i - 1) + j] = Encoded(ps[i])[j]
    OBVIOUS
  <2>1. u[i] = Encoded(ps[i])  BY <1>1
  <2>2. Stream(ps)[P[i - 1] + j] = u[i][j]  BY <1>2, <2>1
  <2>3. Ends(ps, i - 1) = P[i - 1]  BY <1>4, <1>6
  <2> QED  BY <2>1, <2>2, <2>3
<1> QED  BY <1>2, <1>3, <1>4, <1>5, <1>7, <1>8, <1>9

\* How much is left.
LEMMA RestLength ==
  ASSUME NEW t \in Seq(Nat), NEW b \in Seq(Nat), NEW w \in Seq(Nat), NEW a \in 0 .. Len(t)
  PROVE  Rest(b, w, t, a) => Len(b) + Len(w) = Len(t) - a
<1> PICK n \in Nat, a1 \in Nat \ {0} : n = Len(t) /\ a1 = a + 1  OBVIOUS
<1>1. Len(b \o w) = Len(b) + Len(w)  OBVIOUS
<1>2. Len(SubSeq(t, a1, n)) = n - a
  <2>1. n \in a1 - 1 .. Len(t) /\ n - a1 + 1 = n - a  OBVIOUS
  <2>2. Len(SubSeq(t, a1, n)) = n - a1 + 1  BY <2>1, SubSeqFacts
  <2> QED  BY <2>1, <2>2
<1> QED  BY <1>1, <1>2 DEF Rest

\* What the buffer begins with, when the rest of the stream begins with it.
LEMMA NextHeld ==
  ASSUME NEW t \in Seq(Nat), NEW b \in Seq(Nat), NEW w \in Seq(Nat), NEW a \in 0 .. Len(t),
         NEW e, \A j \in 1 .. Len(e) : t[a + j] = e[j]
  PROVE  Rest(b, w, t, a) =>
           Holds(b, 0, e) /\ Len(b) + Len(w) = Len(t) - a
<1> PICK n \in Nat, m \in Nat, k \in Nat : n = Len(t) /\ m = Len(b) /\ k = Len(w)  OBVIOUS
<1> PICK a1 \in Nat \ {0} : a1 = a + 1  OBVIOUS
<1>1. Len(b \o w) = m + k /\ \A i \in 1 .. m : (b \o w)[i] = b[i]
  <2>1. Len(b \o w) = Len(b) + Len(w) /\ \A i \in 1 .. Len(b) : (b \o w)[i] = b[i]
    BY Appended
  <2> QED  BY <2>1
<1>2. /\ Len(SubSeq(t, a1, n)) = n - a
      /\ \A i \in 1 .. n - a : SubSeq(t, a1, n)[i] = t[a + i]
  <2>1. n \in a1 - 1 .. Len(t) /\ n - a1 + 1 = n - a  OBVIOUS
  <2>2. /\ Len(SubSeq(t, a1, n)) = n - a1 + 1
        /\ \A i \in 1 .. n - a1 + 1 : SubSeq(t, a1, n)[i] = t[a1 + i - 1]
    BY <2>1, SubSeqFacts
  <2>3. \A i \in 1 .. n - a : a1 + i - 1 = a + i  OBVIOUS
  <2> QED  BY <2>1, <2>2, <2>3
<1> SUFFICES ASSUME b \o w = SubSeq(t, a1, n)
             PROVE  Holds(b, 0, e) /\ m + k = n - a
  BY DEF Rest
<1>3. m + k = n - a  BY <1>1, <1>2
<1>4. ASSUME NEW i \in 1 .. Len(e), i <= m PROVE b[i] = e[i]
  <2>1. i \in 1 .. m /\ i \in 1 .. m + k  BY <1>4
  <2>2. b[i] = t[a + i]  BY <1>1, <1>2, <1>3, <2>1
  <2> QED  BY <2>2
<1>5. Holds(b, 0, e)
  <2> SUFFICES ASSUME NEW i \in 1 .. Len(e), 0 + i <= Len(b) PROVE b[0 + i] = e[i]
    BY DEF Holds
  <2>1. 0 + i = i  OBVIOUS
  <2> QED  BY <1>4, <2>1
<1> QED  BY <1>3, <1>5

\* After the whole stream there is nothing in the buffer.
LEMMA NothingLeft ==
  ASSUME NEW t \in Seq(Nat), NEW b \in Seq(Nat), NEW w \in Seq(Nat)
  PROVE  Rest(b, w, t, Len(t)) => b = <<>>
<1> SUFFICES ASSUME Rest(b, w, t, Len(t)) PROVE b = <<>>
  OBVIOUS
<1> PICK a \in 0 .. Len(t) : a = Len(t)  OBVIOUS
<1>1. Rest(b, w, t, a)  OBVIOUS
<1>2. Len(b) + Len(w) = Len(t) - a  BY <1>1, RestLength
<1>3. Len(b) = 0  BY <1>2
<1> QED  BY <1>3

\* recv() of an empty buffer.
LEMMA EmptyRecv == Recv(<<>>) = NotReady
<1>0. <<>> \in Seq(Nat)  OBVIOUS
<1> PICK b \in Seq(Nat) : b = <<>>  BY <1>0
<1> PICK z \in 0 .. Len(b) : z = 0 /\ Len(b) = z  OBVIOUS
<1>1. RunEnd(b, z, BLANK) = Len(b)
  <2>1. RunEnd(b, z, BLANK) \in z .. Len(b)  BY RunEndFacts
  <2> QED  BY <2>1
<1> PICK f : Scans(b, f)  BY ScanFacts
<1>2. SsdbRecv(b) = f[Len(b)]  BY <1>1 DEF Scans
<1>3. Turn(b, Len(b)) = NotReady /\ Len(b) \in 0 .. Len(b)  BY EndTurn
<1>4. Turn(b, Len(b)).kind # "record"  BY <1>3 DEF NotReady
<1>5. f[Len(b)] = NotReady  BY <1>3, <1>4 DEF Scans
<1> QED  BY <1>2, <1>5 DEF Recv, IsRedis

Joined(x, y, w) == x \in Seq(Nat) /\ y \in Seq(Nat) /\ x \o y = w

Regrouped(b, x, y, w) == b \o x \in Seq(Nat) /\ (b \o x) \o y = b \o w

\* Two pieces put after the buffer one by one, or both at once.
LEMMA Regroup ==
  \A b \in Seq(Nat) : \A x, y, w : Joined(x, y, w) => Regrouped(b, x, y, w)
<1> SUFFICES ASSUME NEW b \in Seq(Nat), NEW x, NEW y, NEW w, Joined(x, y, w)
             PROVE  b \o x \in Seq(Nat) /\ (b \o x) \o y = b \o w
  BY DEF Regrouped
<1>1. \A x1, y1 \in Seq(Nat) : (b \o x1) \o y1 = b \o (x1 \o y1)
  <2> TAKE x1, y1 \in Seq(Nat)
  <2> QED  OBVIOUS
<1>2. (b \o x) \o y = b \o (x \o y)  BY <1>1, Zenon DEF Joined
<1>3. b \o (x \o y) = b \o w  BY Zenon DEF Joined
<1>4. b \o x \in Seq(Nat)  BY Appended DEF Joined
<1> QED  BY <1>2, <1>3, <1>4, Zenon

\* read() moves bytes from the wire to the buffer.
LEMMA ReadPart ==
  ASSUME NEW b \in Seq(Nat), NEW w \in Seq(Nat), NEW k \in 1 .. Len(w)
  PROVE  /\ b \o SubSeq(w, 1, k) \in Seq(Nat) /\ SubSeq(w, k + 1, Len(w)) \in Seq(Nat)
         /\ (b \o SubSeq(w, 1, k)) \o SubSeq(w, k + 1, Len(w)) = b \o w
<1> DEFINE x == SubSeq(w, 1, k)
           y == SubSeq(w, k + 1, Len(w))
<1>1. Joined(x, y, w)  BY SplitSeq DEF Joined
<1>2. y \in Seq(Nat)  BY <1>1 DEF Joined
<1> HIDE DEF x, y
<1>3. Regrouped(b, x, y, w)  BY <1>1, Regroup, Zenon
<1> QED  BY <1>2, <1>3 DEF x, y, Regrouped

-----------------------------------------------------------------------------
(* What the conversions of earlier requests leave in errno.                  *)

Readers(g) == { i \in 1 .. Len(g) : ReadsNumber(g[i]) }

BadNumber(g) == Readers(g) # {} /\ ~WholeNumber(LastNumber(g[Max(Readers(g))]))

LEMMA BadNumberIs == BadNumberBehind <=> BadNumber(got)
BY DEF BadNumberBehind, BadNumber, Readers

\* A request without a number leaves what the last number did.
LEMMA KeepsBadNumber ==
  ASSUME NEW T, NEW g \in Seq(T), NEW p \in T, ~ReadsNumber(p), BadNumber(g)
  PROVE  BadNumber(Append(g, p))
<1> PICK n \in Nat, n1 \in Nat : n = Len(g) /\ n1 = n + 1  OBVIOUS
<1> DEFINE h == Append(g, p)
<1>1. Len(h) = n1 /\ h[n1] = p /\ \A i \in 1 .. n : h[i] = g[i]
  BY AppendFacts
<1> HIDE DEF h
<1>2. Readers(h) = Readers(g)
  <2>1. Readers(h) = { i \in 1 .. n1 : ReadsNumber(h[i]) }  BY <1>1 DEF Readers
  <2>2. Readers(g) = { i \in 1 .. n : ReadsNumber(g[i]) }  BY DEF Readers
  <2>3. \A i \in 1 .. n1 : i \in 1 .. n \/ i = n1  OBVIOUS
  <2>4. \A i \in 1 .. n : i \in 1 .. n1  OBVIOUS
  <2> QED  BY <1>1, <2>1, <2>2, <2>3, <2>4
<1>3. Max(Readers(g)) \in 1 .. n
  <2>1. Readers(g) \subseteq 1 .. n /\ Readers(g) # {}  BY DEF Readers, BadNumber
  <2> QED  BY <2>1, Greatest
<1>4. h[Max(Readers(h))] = g[Max(Readers(g))]  BY <1>1, <1>2, <1>3
<1> QED  BY <1>2, <1>4 DEF h, BadNumber

\* A request whose last number is none has the last one so far.
LEMMA NewBadNumber ==
  ASSUME NEW T, NEW g \in Seq(T), NEW p \in T, ReadsNumber(p), ~WholeNumber(LastNumber(p))
  PROVE  BadNumber(Append(g, p))
<1> PICK n1 \in Nat : n1 = Len(g) + 1  OBVIOUS
<1> DEFINE h == Append(g, p)
<1>1. Len(h) = n1 /\ h[n1] = p
  BY AppendFacts
<1> HIDE DEF h
<1>2. Readers(h) \subseteq 1 .. n1 /\ n1 \in Readers(h)
  <2>1. n1 \in 1 .. n1  OBVIOUS
  <2> QED  BY <1>1, <2>1 DEF Readers
<1>3. Max(Readers(h)) = n1
  <2> PICK m : m = Max(Readers(h))  OBVIOUS
  <2>1. m \in Readers(h) /\ \A y \in Readers(h) : y <= m  BY <1>2, Greatest
  <2>2. m \in 1 .. n1 /\ n1 <= m  BY <1>2, <2>1
  <2> QED  BY <2>2
<1> QED  BY <1>1, <1>2, <1>3 DEF h, BadNumber

\* One number leaves EINVAL only when it is none.
LEMMA NumberErrno ==
  ASSUME NEW e \in {"none", "EINVAL", "ERANGE", "EAGAIN"}, NEW s
  PROVE  /\ AfterNumber(e, s) \in {"none", "EINVAL", "ERANGE", "EAGAIN"}
         /\ AfterNumber(e, s) = "EINVAL" => ~WholeNumber(s)
BY DEF AfterNumber

\* A conversion leaves EINVAL only for the last number it read.
LEMMA ConvertedErrno ==
  ASSUME NEW e \in {"none", "EINVAL", "ERANGE", "EAGAIN"}, NEW p
  PROVE  /\ AfterConvert(e, p) \in {"none", "EINVAL", "ERANGE", "EAGAIN"}
         /\ AfterConvert(e, p) = "EINVAL" =>
              IF ReadsNumber(p) THEN ~WholeNumber(LastNumber(p)) ELSE e = "EINVAL"
<1> DEFINE b3 == p.bodies[3]
           b4 == p.bodies[4]
<1>0. ~(HasWindow(p) /\ HasScores(p))  BY NamesAssumption DEF HasWindow, HasScores
<1>1. CASE HasWindow(p)
  <2>1. AfterConvert(e, p) = AfterNumber(AfterNumber(e, b3), b4)
    BY <1>0, <1>1 DEF AfterConvert
  <2>2. ReadsNumber(p) /\ LastNumber(p) = b4  BY <1>1 DEF ReadsNumber, LastNumber
  <2> HIDE DEF b3, b4
  <2> QED  BY <2>1, <2>2, NumberErrno
<1>2. CASE HasScores(p)
  <2>1. AfterConvert(e, p) = AfterScore(AfterScore(e, b3), b4)
    BY <1>0, <1>2 DEF AfterConvert
  <2>2. ReadsNumber(p) <=> (Exclusive(b3) \/ Exclusive(b4))  BY <1>0, <1>2 DEF ReadsNumber
  <2>3. LastNumber(p) = Tail(IF Exclusive(b4) THEN b4 ELSE b3)  BY <1>0, <1>2 DEF LastNumber
  <2> HIDE DEF b3, b4
  <2>4. CASE Exclusive(b4)
    <3>1. AfterScore(e, b3) \in {"none", "EINVAL", "ERANGE", "EAGAIN"}
      BY NumberErrno DEF AfterScore
    <3>2. AfterConvert(e, p) = AfterNumber(AfterScore(e, b3), Tail(b4))
      BY <2>1, <2>4 DEF AfterScore
    <3>3. ReadsNumber(p) /\ LastNumber(p) = Tail(b4)  BY <2>2, <2>3, <2>4
    <3> QED  BY <3>1, <3>2, <3>3, NumberErrno
  <2>5. CASE Exclusive(b3) /\ ~Exclusive(b4)
    <3>1. AfterConvert(e, p) = AfterNumber(e, Tail(b3))  BY <2>1, <2>5 DEF AfterScore
    <3>2. ReadsNumber(p) /\ LastNumber(p) = Tail(b3)  BY <2>2, <2>3, <2>5
    <3> QED  BY <3>1, <3>2, NumberErrno
  <2>6. CASE ~Exclusive(b3) /\ ~Exclusive(b4)
    BY <2>1, <2>2, <2>6 DEF AfterScore
  <2> QED  BY <2>4, <2>5, <2>6
<1>3. CASE ~HasWindow(p) /\ ~HasScores(p)
  BY <1>3 DEF AfterConvert, ReadsNumber
<1> QED  BY <1>1, <1>2, <1>3

-----------------------------------------------------------------------------
(* The inductive invariant.                                                  *)

Plains == [redis : BOOLEAN, bodies : Seq(Seq(Byte))]

\* What recv() returned are the first packets of the stream.
Prefixed == got \in Seq(Plains) /\ \A i \in 1 .. Len(got) : got[i] = Plain(sent[i])

BytesOnly == buf \in Seq(Nat) /\ wire \in Seq(Nat)

\* recv() waits only while the next packet is not all there.
WaitsForMore ==
  state = "wait" /\ Len(got) < Len(sent) => Len(buf) < Len(Encoded(sent[Len(got) + 1]))

ErrnoExplained == errno = "EINVAL" => BadNumberBehind

FInv == /\ TypeOK /\ BytesOnly /\ Prefixed /\ WaitsForMore
        /\ ErrnoExplained /\ RefusedForAReason

\* The streams are of packets.
LEMMA SentType == TypeOK => sent \in Seq(Packets)
BY StreamsAssumption DEF TypeOK

\* What recv() returns of a packet.
LEMMA PlainType ==
  ASSUME NEW p \in Packets
  PROVE  Plain(p) \in Plains
<1>1. p.redis \in BOOLEAN /\ p.bodies \in Seq(Seq(Byte))  BY DEF Packets
<1> QED  BY <1>1 DEF Plain, Plains

LEMMA FInit == Init => FInv
<1> SUFFICES ASSUME Init PROVE FInv
  OBVIOUS
<1>1. sent \in Seq(Packets)  BY StreamsAssumption DEF Init
<1>2. got = <<>> /\ Len(got) = 0 /\ buf = <<>>  BY DEF Init
<1>3. wire = Stream(sent) /\ wire \in Seq(Nat)  BY <1>1, EncsType DEF Init
<1>4. Ends(sent, 0) = 0  BY <1>1, EndsFacts
<1>5. buf \o wire = SubSeq(Stream(sent), EndOf(Len(got)) + 1, Len(Stream(sent)))
  <2>1. EndOf(Len(got)) + 1 = 1  BY <1>2, <1>4 DEF EndOf, Ends
  <2>2. SubSeq(wire, 1, Len(wire)) = wire /\ <<>> \o wire = wire  BY <1>3
  <2> QED  BY <1>2, <1>3, <2>1, <2>2
<1>6. TypeOK
  <2>1. Len(sent) \in Nat /\ Len(got) <= Len(sent)  BY <1>1, <1>2
  <2> QED  BY <1>2, <1>5, <2>1 DEF TypeOK, Init
<1>7. BytesOnly  BY <1>2, <1>3 DEF BytesOnly
<1>8. Prefixed  BY <1>2 DEF Prefixed
<1>9. WaitsForMore /\ ErrnoExplained  BY DEF Init, WaitsForMore, ErrnoExplained
<1>10. RefusedForAReason  BY <1>2 DEF Init, RefusedForAReason
<1> QED  BY <1>6, <1>7, <1>8, <1>9, <1>10 DEF FInv

LEMMA FRead ==
  ASSUME FInv, NEW k \in 1 .. Len(wire), Read(k)
  PROVE  FInv'
<1>1. /\ state' = "call" /\ sent' = sent /\ got' = got /\ errno' \in {errno, "EAGAIN"}
      /\ buf' = buf \o SubSeq(wire, 1, k) /\ wire' = SubSeq(wire, k + 1, Len(wire))
  BY DEF Read
<1>2. buf' \in Seq(Nat) /\ wire' \in Seq(Nat) /\ buf' \o wire' = buf \o wire
  BY <1>1, ReadPart DEF FInv, BytesOnly
<1>3. TypeOK'
  <2>1. EndOf(Len(got))' = EndOf(Len(got)) /\ Stream(sent)' = Stream(sent)
    BY <1>1 DEF EndOf
  <2> QED  BY <1>1, <1>2, <2>1 DEF TypeOK, FInv
<1>4. BytesOnly'  BY <1>2 DEF BytesOnly
<1>5. Prefixed'  BY <1>1 DEF Prefixed, FInv
<1>6. WaitsForMore'  BY <1>1 DEF WaitsForMore
<1>7. ErrnoExplained'
  <2>1. BadNumberBehind' <=> BadNumberBehind  BY <1>1 DEF BadNumberBehind
  <2>2. errno' = "EINVAL" => errno = "EINVAL"  BY <1>1
  <2> QED  BY <2>1, <2>2 DEF ErrnoExplained, FInv
<1>8. RefusedForAReason'  BY <1>1 DEF RefusedForAReason, FInv
<1> QED  BY <1>3, <1>4, <1>5, <1>6, <1>7, <1>8 DEF FInv

\* What recv() makes of the buffer in a state of the invariant.
LEMMA NextRecv ==
  ASSUME FInv
  PROVE  /\ Len(got) \in Nat /\ Len(sent) \in Nat /\ sent \in Seq(Packets)
         /\ Len(got) = Len(sent) => Recv(buf) = NotReady
         /\ Len(got) < Len(sent) =>
              LET p == sent[Len(got) + 1]
                  e == Encoded(p)
              IN  /\ p \in Packets /\ e \in Seq(Nat)
                  /\ EndOf(Len(got) + 1) = EndOf(Len(got)) + Len(e)
                  /\ \/ /\ Recv(buf) = Packet(p.bodies, Len(e)) /\ Len(e) <= Len(buf)
                        /\ IsRedis(buf) = p.redis /\ (p.redis \/ ~Oversized(p))
                     \/ Recv(buf) = NotReady /\ Len(e) > Len(buf)
                     \/ /\ Recv(buf) = BadFormat
                        /\ \/ ~p.redis /\ Oversized(p)
                           \/ p.redis /\ p.lead # <<>>
                           \/ p.redis /\ errno = "EINVAL"
<1> PICK n : n = Len(got)  OBVIOUS
<1>1. /\ sent \in Seq(Packets) /\ n \in Nat /\ Len(sent) \in Nat /\ n <= Len(sent)
      /\ buf \in Seq(Nat) /\ wire \in Seq(Nat) /\ Stream(sent) \in Seq(Nat)
      /\ Rest(buf, wire, Stream(sent), Ends(sent, n))
  <2>1. sent \in Seq(Packets)  BY SentType DEF FInv
  <2>2. Stream(sent) \in Seq(Nat)  BY <2>1, EncsType
  <2>3. got \in Seq(Plains)  BY DEF FInv, Prefixed
  <2> QED  BY <2>1, <2>2, <2>3 DEF FInv, BytesOnly, TypeOK, EndOf, Ends, Rest
<1> PICK a \in 0 .. Len(Stream(sent)) : a = Ends(sent, n)
  <2>1. n \in 0 .. Len(sent)  BY <1>1
  <2>2. Ends(sent, n) \in Nat /\ Ends(sent, n) <= Len(Stream(sent))  BY <1>1, <2>1, EndsFacts
  <2> QED  BY <1>1, <2>2
<1>2. CASE n = Len(sent)
  <2>1. a = Len(Stream(sent))  BY <1>1, <1>2, EndsFacts
  <2>2. buf = <<>>  BY <1>1, <2>1, NothingLeft
  <2> QED  BY <1>1, <1>2, <2>2, EmptyRecv
<1>3. CASE n < Len(sent)
  <2> PICK n1 \in 1 .. Len(sent) : n1 = n + 1 /\ n = n1 - 1
    <3>1. n \in Nat /\ Len(sent) \in Nat  BY <1>1
    <3> PICK m \in Nat : m = Len(sent)  BY <3>1
    <3>2. n + 1 \in 1 .. m /\ n = (n + 1) - 1  BY <1>3, <3>1
    <3> QED  BY <3>2
  <2> DEFINE p == sent[n1]
             e == Encoded(p)
  <2>1. p \in Packets  BY <1>1
  <2>2. e \in Seq(Nat)  BY <2>1, EncodedBytes
  <2>3. /\ Ends(sent, n1) = a + Len(e)
        /\ \A j \in 1 .. Len(e) : Stream(sent)[a + j] = e[j]
    <3>1. /\ Ends(sent, n1) = Ends(sent, n1 - 1) + Len(Encoded(sent[n1]))
          /\ \A j \in 1 .. Len(Encoded(sent[n1])) :
               Stream(sent)[Ends(sent, n1 - 1) + j] = Encoded(sent[n1])[j]
      BY <1>1, EndsFacts
    <3> QED  BY <3>1
  <2> HIDE DEF e, p
  <2>4. Holds(buf, 0, e)  BY <1>1, <2>2, <2>3, NextHeld
  <2>5. e = Encoded(p)  BY DEF e
  <2>6. \/ /\ Recv(buf) = Packet(p.bodies, Len(e)) /\ Len(e) <= Len(buf)
           /\ IsRedis(buf) = p.redis /\ (p.redis \/ ~Oversized(p))
        \/ Recv(buf) = NotReady /\ Len(e) > Len(buf)
        \/ /\ Recv(buf) = BadFormat
           /\ \/ ~p.redis /\ Oversized(p)
              \/ p.redis /\ p.lead # <<>>
              \/ p.redis /\ errno = "EINVAL"
    BY <1>1, <2>1, <2>4, <2>5, RecvReads
  <2>7. EndOf(Len(got) + 1) = EndOf(Len(got)) + Len(e)
    <3>1. EndOf(Len(got) + 1) = Ends(sent, n1) /\ EndOf(Len(got)) = a  BY DEF EndOf, Ends
    <3> QED  BY <2>3, <3>1
  <2>8. Len(got) + 1 = n1 /\ Len(got) # Len(sent)  BY <1>1, <1>3
  <2> QED  BY <1>1, <2>1, <2>2, <2>6, <2>7, <2>8 DEF p, e
<1> QED  BY <1>1, <1>2, <1>3

-----------------------------------------------------------------------------
\* A packet is taken: what stays in the buffer follows it in the stream.
LEMMA FTakes ==
  ASSUME FInv, Len(got) < Len(sent), NEW p \in Packets, p = sent[Len(got) + 1],
         NEW l \in Nat, l = Len(Encoded(p)), l <= Len(buf), p.redis \/ ~Oversized(p),
         EndOf(Len(got) + 1) = EndOf(Len(got)) + l,
         got' = Append(got, Plain(p)), buf' = SubSeq(buf, l + 1, Len(buf)),
         errno' = AfterConvert(errno, Plain(p)), state' = "call",
         UNCHANGED <<sent, wire>>
  PROVE  FInv'
<1> PICK n : n = Len(got)  OBVIOUS
<1>1. /\ got \in Seq(Plains) /\ \A i \in 1 .. n : got[i] = Plain(sent[i])
      /\ n \in Nat /\ buf \in Seq(Nat) /\ wire \in Seq(Nat) /\ errno \in {"none", "EINVAL", "ERANGE", "EAGAIN"}
  BY DEF FInv, Prefixed, BytesOnly, TypeOK
<1>2. sent \in Seq(Packets) /\ Stream(sent) \in Seq(Nat) /\ Len(sent) \in Nat
  BY SentType, EncsType DEF FInv
<1> PICK q \in Plains : q = Plain(p)  BY PlainType
<1> PICK n1 \in 1 .. Len(sent) : n1 = n + 1
  <2> PICK m \in Nat : m = Len(sent)  BY <1>2
  <2>1. n < m  OBVIOUS
  <2>2. n + 1 \in 1 .. m  BY <1>1, <2>1
  <2> QED  BY <2>2
<1>3. /\ got' \in Seq(Plains) /\ Len(got') = n1 /\ got'[n1] = q
      /\ \A i \in 1 .. n : got'[i] = got[i]
  <2>1. got' = Append(got, q)  OBVIOUS
  <2> QED  BY <1>1, <2>1, AppendFacts
<1>4. \A i \in 1 .. n1 : i \in 1 .. n \/ i = n1  BY <1>1
<1>5. \A i \in 1 .. n1 : got'[i] = Plain(sent[i])
  BY <1>1, <1>3, <1>4
<1>6. Prefixed'  BY <1>3, <1>5 DEF Prefixed
<1>7. buf' \in Seq(Nat) /\ Rest(buf', wire, Stream(sent), EndOf(n1))
  <2>1. Rest(buf, wire, Stream(sent), EndOf(n))  BY DEF FInv, TypeOK, Rest
  <2>2. EndOf(n) \in Nat /\ EndOf(n) <= Len(Stream(sent))
    <3>1. n \in 0 .. Len(sent)  BY <1>1, <1>2
    <3> QED  BY <1>2, <3>1, EndsFacts DEF EndOf, Ends
  <2>3. EndOf(n) \in 0 .. Len(Stream(sent)) /\ l \in 0 .. Len(buf)  BY <1>1, <1>2, <2>2
  <2> PICK a \in 0 .. Len(Stream(sent)) : a = EndOf(n)  BY <2>3
  <2>4. Rest(buf, wire, Stream(sent), a)  BY <2>1
  <2>5. /\ SubSeq(buf, l + 1, Len(buf)) \in Seq(Nat)
        /\ Rest(SubSeq(buf, l + 1, Len(buf)), wire, Stream(sent), a + l)
    BY <1>1, <1>2, <2>3, <2>4, DropFront
  <2>6. EndOf(n1) = a + l  OBVIOUS
  <2> QED  BY <2>5, <2>6
<1>8. BytesOnly'  BY <1>1, <1>7 DEF BytesOnly
<1>9. TypeOK'
  <2>1. sent' \in Streams /\ state' \in {"call", "wait", "null"}
    BY DEF FInv, TypeOK
  <2>2. Len(got)' <= Len(sent)'
    <3> PICK m \in Nat : m = Len(sent)  BY <1>2
    <3>1. n1 <= m  OBVIOUS
    <3> QED  BY <1>3, <3>1
  <2>3. (buf \o wire = SubSeq(Stream(sent), EndOf(Len(got)) + 1, Len(Stream(sent))))'
    <3>1. EndOf(Len(got))' = EndOf(n1) /\ Stream(sent)' = Stream(sent)  BY <1>3 DEF EndOf
    <3> QED  BY <1>7, <3>1 DEF Rest
  <2>4. \A i \in 1 .. Len(got') : got'[i] \in [redis : BOOLEAN, bodies : Seq(Seq(Byte))]
    BY <1>3, Element DEF Plains
  <2>5. errno' \in {"none", "EINVAL", "ERANGE", "EAGAIN"}  BY <1>1, ConvertedErrno
  <2> QED  BY <2>1, <2>2, <2>3, <2>4, <2>5 DEF TypeOK
<1>10. WaitsForMore'  BY DEF WaitsForMore
<1>11. ErrnoExplained'
  <2> SUFFICES ASSUME errno' = "EINVAL" PROVE BadNumber(got')
    BY DEF ErrnoExplained, BadNumberBehind, BadNumber, Readers
  <2>1. got' = Append(got, q)  OBVIOUS
  <2>2. IF ReadsNumber(q) THEN ~WholeNumber(LastNumber(q)) ELSE errno = "EINVAL"
    BY <1>1, ConvertedErrno
  <2>3. CASE ReadsNumber(q)  BY <1>1, <2>1, <2>2, <2>3, NewBadNumber
  <2>4. CASE ~ReadsNumber(q)
    <3>1. BadNumber(got)  BY <2>2, <2>4, BadNumberIs DEF FInv, ErrnoExplained
    <3> QED  BY <1>1, <2>1, <2>4, <3>1, KeepsBadNumber
  <2> QED  BY <2>3, <2>4
<1>12. RefusedForAReason'
  <2>1. state' # "null"  OBVIOUS
  <2>2. \A i \in 1 .. n : got[i].redis \/ ~Oversized(sent[i])
    BY DEF FInv, RefusedForAReason
  <2>3. q.redis = p.redis  BY DEF Plain
  <2>4. \A i \in 1 .. n1 : got'[i].redis \/ ~Oversized(sent[i])
    BY <1>3, <1>4, <2>2, <2>3
  <2>5. Len(got') = n1 /\ sent' = sent  BY <1>3
  <2> QED  BY <2>1, <2>4, <2>5 DEF RefusedForAReason
<1> QED  BY <1>6, <1>8, <1>9, <1>10, <1>11, <1>12 DEF FInv

\* recv() takes nothing: it waits, or refuses what the buffer begins with.
LEMMA FStays ==
  ASSUME FInv, UNCHANGED <<sent, wire, buf, got, errno>>,
         \/ state' = "wait" /\ (Len(got) < Len(sent) =>
                                  Len(buf) < Len(Encoded(sent[Len(got) + 1])))
         \/ /\ state' = "null"
            /\ LET p == sent[Len(got) + 1]
               IN  \/ ~p.redis /\ Oversized(p)
                   \/ p.redis /\ p.lead # <<>>
                   \/ p.redis /\ errno = "EINVAL"
  PROVE  FInv'
<1>1. TypeOK'
  <2>1. EndOf(Len(got))' = EndOf(Len(got)) /\ Stream(sent)' = Stream(sent)  BY DEF EndOf
  <2>2. state' \in {"call", "wait", "null"}  OBVIOUS
  <2> QED  BY <2>1, <2>2 DEF TypeOK, FInv
<1>2. BytesOnly' /\ Prefixed'  BY DEF FInv, BytesOnly, Prefixed
<1>3. BadNumberBehind' <=> BadNumberBehind  BY DEF BadNumberBehind
<1>4. ErrnoExplained'  BY <1>3 DEF FInv, ErrnoExplained
<1>5. WaitsForMore'  BY DEF WaitsForMore
<1>6. RefusedForAReason'
  <2>1. \A i \in 1 .. Len(got) : got[i].redis \/ ~Oversized(sent[i])
    BY DEF FInv, RefusedForAReason
  <2>2. CASE state' = "wait"  BY <2>1, <2>2 DEF RefusedForAReason
  <2>3. CASE state' = "null"
    <3>1. errno = "EINVAL" => BadNumberBehind  BY DEF FInv, ErrnoExplained
    <3> QED  BY <1>3, <2>1, <2>3, <3>1 DEF RefusedForAReason
  <2> QED  BY <2>2, <2>3
<1> QED  BY <1>1, <1>2, <1>4, <1>5, <1>6 DEF FInv

LEMMA FCallRecv ==
  ASSUME FInv, CallRecv
  PROVE  FInv'
<1> DEFINE r == Recv(buf)
           p == sent[Len(got) + 1]
           e == Encoded(p)
<1>1. /\ state' = CASE r.kind = "packet" -> "call"
                    [] r.kind = "empty"  -> "wait"
                    [] r.kind = "null"   -> "null"
      /\ IF r.kind = "packet"
           THEN /\ got' = Append(got, [redis |-> IsRedis(buf), bodies |-> r.bodies])
                /\ buf' = SubSeq(buf, r.consumed + 1, Len(buf))
                /\ errno' = AfterConvert(errno, [redis |-> IsRedis(buf), bodies |-> r.bodies])
           ELSE UNCHANGED <<got, buf, errno>>
      /\ UNCHANGED <<sent, wire>>
  BY DEF CallRecv
<1>2. /\ Len(got) \in Nat /\ Len(sent) \in Nat
      /\ Len(got) = Len(sent) => r = NotReady
      /\ Len(got) < Len(sent) =>
           /\ p \in Packets /\ e \in Seq(Nat)
           /\ EndOf(Len(got) + 1) = EndOf(Len(got)) + Len(e)
           /\ \/ /\ r = Packet(p.bodies, Len(e)) /\ Len(e) <= Len(buf)
                 /\ IsRedis(buf) = p.redis /\ (p.redis \/ ~Oversized(p))
              \/ r = NotReady /\ Len(e) > Len(buf)
              \/ /\ r = BadFormat
                 /\ \/ ~p.redis /\ Oversized(p)
                    \/ p.redis /\ p.lead # <<>>
                    \/ p.redis /\ errno = "EINVAL"
  BY NextRecv
<1> HIDE DEF r
<1>3. Len(got) = Len(sent) \/ Len(got) < Len(sent)
  <2>1. Len(got) <= Len(sent)  BY DEF FInv, TypeOK
  <2> QED  BY <1>2, <2>1
<1>4. CASE r = NotReady
  <2>1. r.kind = "empty"  BY <1>4 DEF NotReady
  <2>2. state' = "wait" /\ UNCHANGED <<sent, wire, buf, got, errno>>  BY <1>1, <2>1
  <2>3. Len(got) < Len(sent) => Len(buf) < Len(e)
    <3> SUFFICES ASSUME Len(got) < Len(sent) PROVE Len(buf) < Len(e)
      OBVIOUS
    <3>1. r.kind # "packet" /\ r.kind # "null"  BY <2>1
    <3>2. r # Packet(p.bodies, Len(e)) /\ r # BadFormat  BY <3>1 DEF Packet, BadFormat
    <3>3. Len(e) > Len(buf) /\ e \in Seq(Nat)  BY <1>2, <3>2
    <3>4. buf \in Seq(Nat)  BY DEF FInv, BytesOnly
    <3> PICK x \in Nat, y \in Nat : x = Len(e) /\ y = Len(buf)  BY <3>3, <3>4
    <3>5. x > y  BY <3>3
    <3> QED  BY <3>5
  <2> QED  BY <2>2, <2>3, FStays
<1>5. CASE r = BadFormat
  <2>1. r.kind = "null"  BY <1>5 DEF BadFormat
  <2>2. r # NotReady /\ r # Packet(p.bodies, Len(e))  BY <2>1 DEF NotReady, Packet
  <2>3. \/ ~p.redis /\ Oversized(p)
        \/ p.redis /\ p.lead # <<>>
        \/ p.redis /\ errno = "EINVAL"
    BY <1>2, <1>3, <2>2
  <2>4. state' = "null" /\ UNCHANGED <<sent, wire, buf, got, errno>>  BY <1>1, <2>1
  <2> QED  BY <2>3, <2>4, FStays
<1>6. CASE r # NotReady /\ r # BadFormat
  <2>1. /\ Len(got) < Len(sent) /\ p \in Packets /\ e \in Seq(Nat)
        /\ EndOf(Len(got) + 1) = EndOf(Len(got)) + Len(e)
        /\ r = Packet(p.bodies, Len(e)) /\ Len(e) <= Len(buf)
        /\ IsRedis(buf) = p.redis /\ (p.redis \/ ~Oversized(p))
    BY <1>2, <1>3, <1>6
  <2>2. r.kind = "packet" /\ r.bodies = p.bodies /\ r.consumed = Len(e)
    BY <2>1 DEF Packet
  <2>3. [redis |-> IsRedis(buf), bodies |-> r.bodies] = Plain(p)
    BY <2>1, <2>2 DEF Plain
  <2>4. /\ state' = "call" /\ got' = Append(got, Plain(p))
        /\ buf' = SubSeq(buf, Len(e) + 1, Len(buf))
        /\ errno' = AfterConvert(errno, Plain(p)) /\ UNCHANGED <<sent, wire>>
    BY <1>1, <2>2, <2>3
  <2>5. Len(e) \in Nat  BY <2>1
  <2> QED  BY <2>1, <2>4, <2>5, FTakes
<1> QED  BY <1>4, <1>5, <1>6

-----------------------------------------------------------------------------
\* A step that changes nothing.
LEMMA FStutter ==
  ASSUME FInv, UNCHANGED vars
  PROVE  FInv'
<1>1. UNCHANGED <<sent, wire, buf, got, state, errno>>  BY DEF vars
<1>2. EndOf(Len(got))' = EndOf(Len(got)) /\ Stream(sent)' = Stream(sent)  BY <1>1 DEF EndOf
<1>3. TypeOK'  BY <1>1, <1>2 DEF FInv, TypeOK
<1>4. BytesOnly' /\ Prefixed' /\ WaitsForMore'
  BY <1>1 DEF FInv, BytesOnly, Prefixed, WaitsForMore
<1>5. BadNumberBehind' <=> BadNumberBehind  BY <1>1 DEF BadNumberBehind
<1>6. ErrnoExplained' /\ RefusedForAReason'
  BY <1>1, <1>5 DEF FInv, ErrnoExplained, RefusedForAReason
<1> QED  BY <1>3, <1>4, <1>6 DEF FInv

(* The inductive invariant holds of every run.                              *)
THEOREM FramingInvariant == Spec => []FInv
<1>1. FInv /\ [Next]_vars => FInv'
  <2> SUFFICES ASSUME FInv, [Next]_vars PROVE FInv'
    OBVIOUS
  <2>1. CASE CallRecv  BY <2>1, FCallRecv
  <2>2. ASSUME NEW k \in 1 .. Len(wire), Read(k) PROVE FInv'
    BY <2>2, FRead
  <2>3. CASE UNCHANGED vars  BY <2>3, FStutter
  <2> QED  BY <2>1, <2>2, <2>3 DEF Next
<1> QED  BY FInit, <1>1, PTL DEF Spec

\* What was returned, pointwise, is a prefix.
LEMMA FInOrder == FInv => InOrder
<1> SUFFICES ASSUME FInv PROVE InOrder
  OBVIOUS
<1>1. /\ got \in Seq(Plains) /\ sent \in Seq(Packets)
      /\ \A i \in 1 .. Len(got) : got[i] = Plain(sent[i])
      /\ Len(got) <= Len(sent)
  BY SentType DEF FInv, Prefixed, TypeOK
<1> PICK n \in Nat, k \in Nat : n = Len(sent) /\ k = Len(got)  BY <1>1
<1> DEFINE u == [i \in 1 .. n |-> Plain(sent[i])]
<1>2. u \in Seq(Plains) /\ Len(u) = n
  <2>1. \A i \in 1 .. n : Plain(sent[i]) \in Plains  BY <1>1, Element, PlainType
  <2>2. u \in [1 .. n -> Plains]  BY <2>1
  <2> HIDE DEF u
  <2> QED  BY <2>2, FcnSeq
<1>3. \A i \in 1 .. k : u[i] = got[i]
  <2>1. k <= n /\ \A i \in 1 .. k : i \in 1 .. n  BY <1>1
  <2> QED  BY <1>1, <2>1
<1> HIDE DEF u
<1>4. got = SubSeq(u, 1, k)
  <2>1. k \in 0 .. Len(u)  BY <1>1, <1>2
  <2>2. /\ SubSeq(u, 1, k) \in Seq(Plains) /\ Len(SubSeq(u, 1, k)) = k
        /\ \A i \in 1 .. k : SubSeq(u, 1, k)[i] = u[i]
    BY <1>2, <2>1, FirstOnes
  <2> DEFINE v == SubSeq(u, 1, k)
  <2> HIDE DEF v
  <2>3. v \in Seq(Plains) /\ Len(v) = Len(got) /\ \A i \in 1 .. Len(got) : got[i] = v[i]
    BY <1>3, <2>2 DEF v
  <2>4. got = v  BY <1>1, <2>3, SameSeq
  <2> QED  BY <2>4 DEF v
<1>5. SubSeq(got, 1, k) = got  BY <1>1
<1>6. IsPrefix(got, u)
  <2>1. Len(got) <= Len(u)  BY <1>1, <1>2
  <2> QED  BY <1>4, <1>5, <2>1 DEF IsPrefix
<1> QED  BY <1>6 DEF u, InOrder

\* What has not been taken is in the buffer or on the wire.
LEMMA FLengths ==
  ASSUME FInv
  PROVE  \E lb, lw, ls, en \in Nat :
           /\ lb = Len(buf) /\ lw = Len(wire) /\ ls = Len(Stream(sent)) /\ en = EndOf(Len(got))
           /\ lb + lw = ls - en
<1>1. /\ sent \in Seq(Packets) /\ Len(got) \in Nat /\ Len(sent) \in Nat /\ Len(got) <= Len(sent)
      /\ buf \in Seq(Nat) /\ wire \in Seq(Nat) /\ Stream(sent) \in Seq(Nat)
      /\ Rest(buf, wire, Stream(sent), EndOf(Len(got)))
  BY NextRecv, EncsType DEF FInv, BytesOnly, TypeOK, Rest
<1>2. EndOf(Len(got)) \in Nat /\ EndOf(Len(got)) <= Len(Stream(sent))
  <2>1. Len(got) \in 0 .. Len(sent)  BY <1>1
  <2> QED  BY <1>1, <2>1, EndsFacts DEF EndOf, Ends
<1>3. Len(buf) \in Nat /\ Len(wire) \in Nat /\ Len(Stream(sent)) \in Nat  BY <1>1
<1>4. EndOf(Len(got)) \in 0 .. Len(Stream(sent))  BY <1>2, <1>3
<1>5. Len(buf) + Len(wire) = Len(Stream(sent)) - EndOf(Len(got))
  BY <1>1, <1>4, RestLength
<1> QED  BY <1>2, <1>3, <1>5

\* What has arrived ends before a request of which some is still to come.
LEMMA ArrivedShort ==
  \A lb, lw, ls, en, le, ei \in Nat :
    lb + lw = ls - en /\ lb < le /\ en + le <= ei => ~(ei <= ls - lw)
OBVIOUS

\* A request that had arrived would have been taken.
LEMMA FReady == FInv => ReadyWhenComplete
<1> SUFFICES ASSUME FInv, state = "wait", NEW i \in 1 .. Len(sent),
                    EndOf(i) <= Len(Stream(sent)) - Len(wire)
             PROVE  i <= Len(got)
  BY DEF ReadyWhenComplete
<1> PICK lb \in Nat, lw \in Nat, ls \in Nat, en \in Nat :
      /\ lb = Len(buf) /\ lw = Len(wire) /\ ls = Len(Stream(sent)) /\ en = EndOf(Len(got))
      /\ lb + lw = ls - en
  BY FLengths
<1>1. sent \in Seq(Packets) /\ Len(got) \in Nat /\ Len(sent) \in Nat
  BY NextRecv
<1> PICK n \in Nat, m \in Nat : n = Len(got) /\ m = Len(sent)  BY <1>1
<1>2. CASE i <= n  BY <1>2
<1>3. CASE ~(i <= n)
  <2>1. n + 1 \in 1 .. m /\ n + 1 \in 0 .. m /\ n + 1 <= i /\ n < m /\ i \in 0 .. m
    BY <1>3
  <2> PICK n1 : n1 = n + 1  OBVIOUS
  <2>2. n1 \in 0 .. m /\ n1 <= i /\ n < m /\ i \in 0 .. m  BY <2>1
  <2>3. EndOf(n1) \in Nat /\ EndOf(i) \in Nat /\ EndOf(n1) <= EndOf(i)
    BY <1>1, <2>2, EndsFacts DEF EndOf, Ends
  <2>4. Encoded(sent[n1]) \in Seq(Nat) /\ EndOf(n1) = en + Len(Encoded(sent[n1]))
    BY <2>2, NextRecv
  <2>5. lb < Len(Encoded(sent[n1]))  BY <2>2 DEF FInv, WaitsForMore
  <2> PICK le \in Nat : le = Len(Encoded(sent[n1]))  BY <2>4
  <2> PICK ei \in Nat : ei = EndOf(i)  BY <2>3
  <2>6. lb < le /\ en + le <= ei /\ ei <= ls - lw  BY <2>3, <2>4, <2>5
  <2> QED  BY <2>6, ArrivedShort, Zenon
<1> QED  BY <1>2, <1>3

(* The buffer and the wire together are what follows the requests taken:    *)
(* no byte is lost, repeated or kept behind (link.cpp:302-306,              *)
(* link_redis.cpp:567).                                                     *)
THEOREM FramingTypeCorrect == Spec => []TypeOK
<1>1. FInv => TypeOK  BY DEF FInv
<1> QED  BY <1>1, FramingInvariant, PTL

(* Requests of both protocols come out of one stream whole, unaltered and   *)
(* in order, for any bodies and wherever read() cuts the stream.            *)
THEOREM RequestsComeOutInOrder == Spec => []InOrder
BY FInOrder, FramingInvariant, PTL

(* recv() says "not ready" only while a byte of the next request is still   *)
(* to come, so an event loop that then waits for input does not starve one. *)
THEOREM NoRequestLeftWaiting == Spec => []ReadyWhenComplete
BY FReady, FramingInvariant, PTL

(* A well-formed stream is refused only for an SSDB packet over the limit,  *)
(* a blank line before a '*', or the errno an earlier bound left behind     *)
(* (link_redis.cpp:533); and no SSDB packet over the limit is ever taken.   *)
THEOREM OnlyRefusedForAReason == Spec => []RefusedForAReason
<1>1. FInv => RefusedForAReason  BY DEF FInv
<1> QED  BY <1>1, FramingInvariant, PTL
=============================================================================
