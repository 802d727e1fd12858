------------------------------- MODULE Numbers -------------------------------
(***************************************************************************)
(* What becomes of a Lua number on its way to the server and back, through *)
(* DB.lua, the C API and ClientImpl.  A Lua number is a double.  DB.lua    *)
(* passes it on in one of three ways:                                      *)
(*     as an int        set, setx             then sprintf("%d")           *)
(*     as text          multi_set, hset, multi_hset: val .. "", "%.14g"    *)
(*     as an int64_t    zset, multi_zset and the incr wrappers, then str() *)
(* and an int64_t that comes back is made a double again by tonumber().    *)
(*                                                                         *)
(* The widths are constants, in the order the real ones have: an int holds *)
(* less than 14 digits, these less than the 53 bits of a double, these     *)
(* less than an int64_t.  To have fractions, a number is counted in halves.*)
(***************************************************************************)
EXTENDS Integers

CONSTANTS IntMax,      \* the largest int, 2^31 - 1
          TextMax,     \* the largest number of 14 digits, 10^14 - 1
          DoubleMax,   \* 2^53: doubles are exact up to here
          LongMax,     \* the largest int64_t, 2^63 - 1
          LuaNumbers   \* bound: the numbers the program uses, in halves

ASSUME NumbersAssumption ==
  /\ {IntMax, TextMax, DoubleMax, LongMax} \subseteq Nat
  /\ IntMax < TextMax /\ TextMax < DoubleMax /\ DoubleMax < LongMax
  /\ DoubleMax % 2 = 0 /\ LongMax < 1024 * DoubleMax
  /\ LuaNumbers \subseteq Int

VARIABLES
  kind,        \* what the key under study is: "kv", "hash" field or "zset" member
  server,      \* the value the server keeps
  last,        \* the last call: its name, whether the server did it, the number
               \* passed and the number returned
  given,       \* history: the number in halves the program has put there,
  exact        \* history: ... as long as each call can carry its number

vars == <<kind, server, last, given, exact>>

Abs(n) == IF n < 0 THEN -n ELSE n
Whole(h) == h % 2 = 0

\* A C conversion cuts the fraction off, and is undefined out of range.
Trunc(h) == IF h < 0 THEN -((-h) \div 2) ELSE h \div 2

Signed(max) == (-max - 1) .. max
Cut(h, max) == IF Trunc(h) \in Signed(max) THEN {Trunc(h)} ELSE Signed(max)

\* Mutant of ToLong: a number out of range is taken to be in range.
ToLongUnchecked(h) == {Trunc(h)}

ToInt(h) == Cut(h, IntMax)
ToLong(h) == Cut(h, LongMax)

\* The texts that become a server's value: a whole number in digits, one with
\* a fraction, and 1e+15, no integer to the server, whose digits are left out.
Forms == {"missing", "integer", "fraction", "exponent"}

Decimal(n) == [num |-> 2 * n, form |-> "integer"]
Missing == [num |-> 0, form |-> "missing"]
Exponent == [num |-> 0, form |-> "exponent"]

\* The digits that "%.14g" keeps are enough for a number without a fraction, and
\* for a half when one of them is left for it.
Carries(h) ==
  /\ Abs(h) <= 2 * TextMax
  /\ Whole(h) \/ 10 * Abs(h) < 2 * (TextMax + 1)

\* A half that has no digit left for it goes up or down: a tie.
Digits(h) == IF Whole(h) \/ Carries(h) THEN {h} ELSE {h - 1, h + 1}

Printed(h) ==
  IF Abs(h) > 2 * TextMax THEN Exponent
  ELSE [num |-> h, form |-> IF Whole(h) THEN "integer" ELSE "fraction"]

Text(h) == { Printed(d) : d \in Digits(h) }

\* The double nearest to n, to an even significand when two are as near.
\* Beyond 2^53 doubles are 2 apart, beyond 2^54 4 apart, and so on.
Ulps == {2, 4, 8, 16, 32, 64, 128, 256, 512, 1024}

Ulp(n) == CHOOSE u \in Ulps :
            DoubleMax * (u \div 2) < Abs(n) /\ Abs(n) <= DoubleMax * u

NearestMultiple(n, u) ==
  LET q == n \div u
      r == n % u
      up == 2 * r > u \/ (2 * r = u /\ q % 2 = 1)
  IN u * (IF up THEN q + 1 ELSE q)

\* Mutant of ToNumber: the cell is read as an int32_t.
ToNumberOfInt(n) == ((n + IntMax + 1) % (2 * IntMax + 2)) - IntMax - 1

ToNumber(n) == IF Abs(n) <= DoubleMax THEN n ELSE NearestMultiple(n, Ulp(n))
-----------------------------------------------------------------------------
Called(op, arg, done, answer) ==
  last' = [op |-> op, arg |-> arg, done |-> done, answer |-> answer]

\* The program puts h there by a call that carries it exactly, or not.
Puts(h, carried) == /\ exact' = carried
                    /\ given' = IF carried THEN h ELSE 0

Set(h) ==
  /\ kind = "kv"
  /\ \E i \in ToInt(h) : server' = Decimal(i)
  /\ Puts(h, Whole(h) /\ Trunc(h) \in Signed(IntMax))
  /\ Called("set", h, TRUE, 1)
  /\ UNCHANGED kind

\* Mutant of PutText: the number goes through an int, like set's.
PutInt(h) ==
  /\ kind \in {"kv", "hash"}
  /\ \E i \in ToInt(h) : server' = Decimal(i)
  /\ Puts(h, Carries(h))
  /\ Called("put", h, TRUE, 1)
  /\ UNCHANGED kind

PutText(h) ==
  /\ kind \in {"kv", "hash"}
  /\ server' \in Text(h)
  /\ Puts(h, Carries(h))
  /\ Called("put", h, TRUE, 1)
  /\ UNCHANGED kind

ZSet(h) ==
  /\ kind = "zset"
  /\ \E i \in ToLong(h) : server' = Decimal(i)
  /\ Puts(h, Whole(h) /\ Trunc(h) \in Signed(LongMax))
  /\ Called("zset", h, TRUE, 1)
  /\ UNCHANGED kind

\* The server counts in int64_t, from 0 where there is nothing, and refuses
\* what is no integer and what would overflow (it is not under src/).
Countable == server.form \in {"missing", "integer"}

IncrDone(h) ==
  \E d \in ToLong(h) :
    LET sum == Trunc(server.num) + d
    IN /\ Countable /\ sum \in Signed(LongMax)
       /\ server' = Decimal(sum)
       /\ Called("incr", h, TRUE, ToNumber(sum))
       /\ exact' = (exact /\ Whole(h) /\ Trunc(h) \in Signed(LongMax))
       /\ given' = IF exact' THEN given + h ELSE 0
       /\ UNCHANGED kind

\* The cell of ffi.new("int64_t[1]") still holds its 0.
IncrRefused(h) ==
  \E d \in ToLong(h) :
    /\ ~Countable \/ Trunc(server.num) + d \notin Signed(LongMax)
    /\ Called("incr", h, FALSE, 0)
    /\ UNCHANGED <<kind, server, given, exact>>

ZGet ==
  /\ kind = "zset"
  /\ LET found == server # Missing
     IN Called("zget", 0, found, IF found THEN ToNumber(Trunc(server.num)) ELSE 0)
  /\ UNCHANGED <<kind, server, given, exact>>
-----------------------------------------------------------------------------
Init ==
  /\ kind \in {"kv", "hash", "zset"}
  /\ server = Missing
  /\ last = [op |-> "none", arg |-> 0, done |-> FALSE, answer |-> 0]
  /\ given = 0 /\ exact = TRUE

Next ==
  \/ \E h \in LuaNumbers :
       Set(h) \/ PutText(h) \/ ZSet(h) \/ IncrDone(h) \/ IncrRefused(h)
  \/ ZGet

Spec == Init /\ [][Next]_vars
-----------------------------------------------------------------------------
Values == [num : Int, form : Forms]

TypeOK ==
  /\ kind \in {"kv", "hash", "zset"}
  /\ server \in Values
  /\ server.form = "missing" => server.num = 0
  /\ server.form = "integer" => server.num \in { 2 * n : n \in Signed(LongMax) }
  /\ last \in [op : {"none", "set", "put", "zset", "incr", "zget"},
               arg : Int, done : BOOLEAN, answer : Int]
  /\ given \in Int /\ exact \in BOOLEAN

(* A number is kept as it was given, however it travels and however often  *)
(* it is counted up afterwards: as long as each call was given what its    *)
(* own conversion carries (an int for set, 14 significant digits for hset, *)
(* the one after the point among them, an int64_t for the rest), the server*)
(* holds the sum, even where tonumber() no longer shows it                 *)
(* (DB.lua:105-136, 285-347, 514-563).                                     *)
KeptAsGiven == exact => server.num = given

(* What a counting wrapper or zget returns is the server's number, up to   *)
(* 2^53; the double nearest to it beyond (DB.lua:250, 346, 541, 562).      *)
Counts(l) == l.op \in {"incr", "zget"} /\ l.done

AnswerIsTheNumber ==
  Counts(last) /\ Abs(last.answer) < DoubleMax => server.num = 2 * last.answer

(* Rounding may hide that a counter moved, but only where doubles are no   *)
(* longer exact, and it never shows it moving the other way: of two        *)
(* successive answers the later is the greater when the server's number    *)
(* grew, or both are 2^53 and more.                                        *)
AnswersFollow ==
  [][ Counts(last) /\ Counts(last') /\ server.num < server'.num =>
        \/ last.answer < last'.answer
        \/ last.answer = last'.answer /\ Abs(last.answer) >= DoubleMax ]_vars
=============================================================================
