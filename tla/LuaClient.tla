----------------------------- MODULE LuaClient ------------------------------
(***************************************************************************)
(* DB.lua over the C API of module Dbss.  A wrapper allocates fresh output *)
(* parameters, calls one C function, and turns the int or the parameters   *)
(* into its result.  Most wrappers drop the int, so what a Lua program     *)
(* learns of a failure is in the value alone.                              *)
(***************************************************************************)
EXTENDS Dbss

CONSTANT MaxKeys         \* bound: keys passed to a multi_ wrapper

VARIABLES stage,         \* "idle", "begun" (parameters made) or "called"
          wrapper,       \* the wrapper running, or the last one that ran
          nkeys,         \* #keys, of a multi_ wrapper
          lua            \* its result: the int, the values, unwritten slots read

luaVars == <<stage, wrapper, nkeys, lua>>
-----------------------------------------------------------------------------
(* What each wrapper makes of the call: the int; nothing; the int64 cell;  *)
(* the string; a table of the strings; a table of pairs; or the pairs of a *)
(* multi_ wrapper.                                                         *)

KvWrappers == [
  int   |-> {"set", "setx", "del", "multi_set", "multi_del"},
  none  |-> {},
  cell  |-> {"incr"},
  str   |-> {"get"},
  flat  |-> {"keys"},
  pairs |-> {"scan", "rscan"},
  multi |-> {"multi_get"} ]

HashWrappers == [
  int   |-> {"hset", "hdel", "multi_hset", "multi_hdel"},
  none  |-> {},
  cell  |-> {"hincr", "hsize", "hclear"},
  str   |-> {"hget"},
  flat  |-> {"hkeys"},
  pairs |-> {"hgetall", "hscan", "hrscan"},
  multi |-> {"multi_hget"} ]

ZsetWrappers == [
  int   |-> {"zdel", "multi_zset", "multi_zdel"},
  none  |-> {"zset"},
  cell  |-> {"zget", "zincr", "zsize", "zclear", "zrank", "zrrank"},
  str   |-> {},
  flat  |-> {"zkeys", "zscan", "zrscan"},
  pairs |-> {"zrange", "zrrange"},
  multi |-> {"multi_zget"} ]

QueueWrappers == [
  int   |-> {"qpush"},
  none  |-> {},
  cell  |-> {},
  str   |-> {"qpop"},
  flat  |-> {},
  pairs |-> {},
  multi |-> {} ]

Makes(w, kind) ==
  \E f \in {KvWrappers, HashWrappers, ZsetWrappers, QueueWrappers} : w \in f[kind]

Wrappers ==
  { w \in Methods :
      \E kind \in {"int", "none", "cell", "str", "flat", "pairs", "multi"} :
        Makes(w, kind) }

\* A multi_ wrapper asked for one key is the wrapper for one key.
ForOneKey == [multi_get |-> "get", multi_hget |-> "hget", multi_zget |-> "zget"]

Target(w, n) == IF Makes(w, "multi") /\ n = 1 THEN ForOneKey[w] ELSE w

\* Every wrapper has its method, and a reply may have a value in it.
ASSUME LuaAssumption ==
  /\ MaxKeys \in Nat /\ MaxValues > 0
  /\ \A w \in Wrappers, n \in 0..MaxKeys : Target(w, n) \in Methods

\* The wrappers that pass NULL on for bounds left out or, where no check of
\* the name comes first, for a nil name (zrange, zrrange and the z-scans).
Optional == {"keys", "scan", "rscan", "hkeys", "hscan", "hrscan",
             "zrange", "zrrange", "zkeys", "zscan", "zrscan"}

\* Mutant of SlotsRead: a list is read up to its limit, here MaxValues.
SlotsUpToLimit(w, n) == IF Makes(w, "multi") THEN 2 * n ELSE MaxValues

\* The slots of the vector a wrapper reads: as many as were filled, in pairs
\* or not; but two for every key passed to a multi_ wrapper.
SlotsRead(w, n) ==
  IF Makes(w, "multi") THEN 2 * n
  ELSE IF Makes(w, "pairs") THEN 2 * ((Len(vec) + 1) \div 2)
  ELSE Len(vec)
-----------------------------------------------------------------------------
\* Mutant of Begin: the output parameters are kept from call to call.
BeginReusing(w, n) ==
  /\ alive /\ stage = "idle"
  /\ n = 0 \/ Makes(w, "multi")
  /\ stage' = "begun" /\ wrapper' = w /\ nkeys' = n
  /\ UNCHANGED <<chanVars, link, alive, answer, s, method, requested, ret, got,
                 outVars, lua>>

Begin(w, n) ==
  /\ alive /\ stage = "idle"
  /\ n = 0 \/ Makes(w, "multi")
  /\ stage' = "begun" /\ wrapper' = w /\ nkeys' = n
  /\ num' = 0 /\ str' = 0 /\ vec' = <<>>
  /\ UNCHANGED <<chanVars, link, alive, answer, s, method, requested, ret, got, lua>>

Invoke ==
  /\ stage = "begun"
  /\ LET m == Target(wrapper, nkeys)
     IN  \/ Call(m)
         \/ CallUnconnected(m)
         \/ wrapper \in Optional /\ Throws(m)
  /\ stage' = "called"
  /\ UNCHANGED <<wrapper, nkeys, lua>>

\* A server answers a list of pairs with pairs, and a multi_ command with no
\* more of them than there were keys.
Server(a) ==
  /\ Execute(a)
  /\ Makes(wrapper, "pairs") => a.n % 2 = 0
  /\ Makes(wrapper, "multi") /\ nkeys # 1 => a.n \in {2 * k : k \in 0..nkeys}
  /\ UNCHANGED luaVars

Complete == Return /\ UNCHANGED luaVars

Result ==
  LET m == Target(wrapper, nkeys)
      read == SlotsRead(m, nkeys)
      filled == IF read < Len(vec) THEN read ELSE Len(vec)
  IN  [ int       |-> IF Makes(m, "int") THEN ret ELSE 0,
        values    |-> IF Makes(m, "cell") THEN <<num>>
                      ELSE IF Makes(m, "str") THEN <<str>>
                      ELSE [i \in 1..filled |-> vec[i]],
        unwritten |-> /\ Makes(m, "flat") \/ Makes(m, "pairs") \/ Makes(m, "multi")
                      /\ read > Len(vec) ]

\* ffi.string() of a slot nobody wrote gives some string or ends the process.
Convert ==
  /\ alive /\ stage = "called" /\ ~busy
  /\ stage' = "idle"
  /\ lua' = Result
  /\ alive' \in IF Result.unwritten THEN BOOLEAN ELSE {TRUE}
  /\ UNCHANGED <<chanVars, link, answer, s, method, requested, ret, got, outVars,
                 wrapper, nkeys>>

LuaInit ==
  /\ Init
  /\ stage = "idle" /\ wrapper = "none" /\ nkeys = 0
  /\ lua = [int |-> 0, values |-> <<>>, unwritten |-> FALSE]

LuaNext ==
  \/ \E w \in Wrappers, n \in 0..MaxKeys : Begin(w, n)
  \/ Invoke
  \/ \E a \in Answers : Server(a)
  \/ Complete
  \/ Convert

LuaSpec == LuaInit /\ [][LuaNext]_<<vars, luaVars>>
-----------------------------------------------------------------------------
LuaTypeOK ==
  /\ TypeOK
  /\ stage \in {"idle", "begun", "called"}
  /\ wrapper \in Wrappers \cup {"none"} /\ nkeys \in 0..MaxKeys
  /\ lua.int \in {-1, 0, 1} /\ lua.unwritten \in BOOLEAN
  /\ Len(lua.values) <= MaxValues
  /\ \A i \in 1..Len(lua.values) : lua.values[i] \in 0..issued

LuaReturned == alive /\ stage = "idle"

(* A result other than a failure's (0, -1, "", an empty table) is real: the*)
(* server executed the request of this very call and answered "ok", and    *)
(* all of the result comes from that answer.  So although get reports      *)
(* success always and the list methods may report an old one, neither      *)
(* reaches a Lua program, which sees the values only.  DB:multi_set is the *)
(* exception: its 1 is DBSS::multi_set's (DB.lua:293, DBSS.cc:218).        *)
LuaResultIsReal ==
  /\ LuaReturned /\ ~lua.unwritten /\ wrapper # "multi_set"
  /\ \/ lua.int = 1
     \/ \E i \in 1..Len(lua.values) : lua.values[i] # 0
  => /\ requested /\ executed = issued /\ result.reply = issued
     /\ got.code = "ok"
     /\ \A i \in 1..Len(lua.values) : lua.values[i] = issued

(* Slots that nobody wrote are read by the multi_ wrappers alone, and only *)
(* when the answer lacks one of the keys or never came (DB.lua:275): a     *)
(* program that asks for keys it knows to exist, over a connection that    *)
(* works, is safe.                                                         *)
UnwrittenOnlyWhenMissing ==
  LuaReturned /\ lua.unwritten =>
    /\ Makes(wrapper, "multi") /\ nkeys > 1
    /\ broken \/ got.code # "ok" \/ got.n < 2 * nkeys
=============================================================================
