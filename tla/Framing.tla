------------------------------ MODULE Framing -------------------------------
(***************************************************************************)
(* The wire format, byte by byte: Buffer::append_record and Link::send     *)
(* build packets, Link::recv finds them again in whatever pieces read()    *)
(* delivers.  recv() keeps no parser state between calls (its TODO): each  *)
(* call scans the unconsumed input from its start and consumes a packet    *)
(* only when all of it is there.                                           *)
(*                                                                         *)
(* The module has what both ends compute; module RedisFraming runs it over *)
(* a stream.  A packet may also come from a peer that ends its lines with  *)
(* "\r\n" or sends blank lines first, which recv() accepts.  Bytes are     *)
(* ASCII codes.                                                            *)
(***************************************************************************)
EXTENDS Integers, SequencesExt

CONSTANT MaxPacket     \* MAX_PACKET_SIZE, 32 MB

\* A header of 18 characters can tell any length below it.
ASSUME FramingAssumption == MaxPacket \in Nat /\ MaxPacket < 1000000000

LF == 10
CR == 13
DIGIT == 48 .. 57
BLANK == {LF, CR}
-----------------------------------------------------------------------------
(* Sending *)

\* sprintf("%d")
Decimal[n \in Nat] ==
  IF n < 10 THEN <<48 + n>> ELSE Append(Decimal[n \div 10], 48 + (n % 10))

AppendRecord(eol, body) == Decimal[Len(body)] \o eol \o body \o eol

Send(eol, bodies) == FlattenSeq([i \in 1..Len(bodies) |-> AppendRecord(eol, bodies[i])]) \o eol

\* This code ends its lines with <<LF>>; the other formats are a peer's.
SsdbPacket(p) == p.lead \o Send(p.eol, p.bodies)
-----------------------------------------------------------------------------
(* Receiving *)

\* The last of the bytes from C that follow position `at`.
RunEnd(s, at, C) == Min({ i \in at .. Len(s) : i = Len(s) \/ s[i + 1] \notin C })

\* atoi(): the value of the digits that follow position `at`.
Atoi(s, at) ==
  LET end == RunEnd(s, at, DIGIT)
      value[i \in at .. end] == IF i = at THEN 0 ELSE 10 * value[i - 1] + (s[i] - 48)
  IN  value[end]

\* The position of the first '\n' after position `at`, 0 if there is none.
NewlineAfter(s, at) ==
  LET nl == { i \in at + 1 .. Len(s) : s[i] = LF }
  IN  IF nl = {} THEN 0 ELSE Min(nl)

NotReady == [kind |-> "empty"]
BadFormat == [kind |-> "null"]
Packet(bodies, n) == [kind |-> "packet", bodies |-> bodies, consumed |-> n]

\* Mutant of AfterNewline: only the line ends this code writes itself.
AfterLineFeed(s, at) == IF at < Len(s) /\ s[at + 1] = LF THEN at + 1 ELSE 0

\* The newline that must follow the body that ends at `at`: the position after
\* it, 0 when it is not (all) there.
AfterNewline(s, at) ==
  CASE at < Len(s) /\ s[at + 1] = LF -> at + 1
    [] at + 1 < Len(s) /\ s[at + 1] = CR /\ s[at + 2] = LF -> at + 2
    [] OTHER -> 0

Exceeds(parsed) == parsed > MaxPacket

\* One turn of the loop of recv(), with `parsed` bytes behind it: a record and
\* the position after it, or the end of the loop.
Turn(s, parsed) ==
  LET eoh    == NewlineAfter(s, parsed)
      header == SubSeq(s, parsed + 1, eoh - 1)
      end    == eoh + Atoi(s, parsed)
      next   == AfterNewline(s, end)
  IN  IF eoh = 0 THEN NotReady
      ELSE IF header \in {<<>>, <<CR>>} THEN Packet(<<>>, eoh)
      ELSE IF header[1] \notin DIGIT \/ Len(header) > 18 THEN BadFormat
      ELSE IF end > Len(s) \/ next = 0 THEN NotReady
      ELSE IF Exceeds(next) THEN BadFormat
      ELSE [kind |-> "record", body |-> SubSeq(s, eoh + 1, end), next |-> next]

\* A packet begins with the record before it.
Preceded(body, r) == IF r.kind = "packet" THEN Packet(<<body>> \o r.bodies, r.consumed) ELSE r

SsdbRecv(s) ==
  LET scan[parsed \in 0 .. Len(s)] ==
        LET t == Turn(s, parsed)
        IN  IF t.kind = "record" THEN Preceded(t.body, scan[t.next]) ELSE t
  IN  scan[RunEnd(s, 0, BLANK)]

\* Some record of the packet ends more than MaxPacket bytes after the packet
\* before it.
Oversized(p) ==
  \E i \in 1..Len(p.bodies) :
    Len(p.lead) + Len(Send(p.eol, SubSeq(p.bodies, 1, i))) - Len(p.eol) > MaxPacket
=============================================================================
