-------------------------------- MODULE Dbss --------------------------------
(***************************************************************************)
(* class DBSS and its C API (DBSS.cc) over ClientImpl's commands           *)
(* (SSDB_impl.cpp) over one connection.  The connection is module Channel: *)
(* every request goes through Channel's actions, and module Link shows     *)
(* that the real connection implements them.                               *)
(*                                                                         *)
(* Each of the methods is: build the request, wait for the reply, read     *)
(* the reply with the reader of the command, keep the Status in the member *)
(* s, copy what was read to the caller's output parameter and return an    *)
(* int.  What is read is abstracted to where it comes from: a value is the *)
(* number of the call whose reply it was in, 0 when no reply has written   *)
(* it (the caller's initial value, the empty string).  The caller is a C   *)
(* program that passes the same output parameters to every call.           *)
(***************************************************************************)
EXTENDS Naturals, Integers, Sequences

CONSTANTS Methods,       \* the methods the caller uses
          Absent,        \* whether it may pass NULL for a string: {} or {TRUE}
          MaxValues,     \* bound: values in a reply
          MaxIssued      \* bound: requests on the connection

ASSUME DbssAssumption == MaxValues \in Nat /\ MaxIssued \in Nat

VARIABLES issued, executed, busy, broken, result,   \* see module Channel
          link,          \* ClientImpl::link: "open", or "null" (connect failed)
          alive,         \* the process has not dereferenced a NULL link
          answer,        \* the server's last answer: a code and n values
          s,             \* DBSS::s, the code of the last Status
          method,        \* the method running, or the last one that ran
          requested,     \* ... and whether it made a request
          ret,           \* ... and the int it returned
          got,           \* history: the reply to the last request, or Null
          num, str, vec  \* the caller's output parameters

Chan == INSTANCE Channel

chanVars == <<issued, executed, busy, broken, result>>
outVars == <<num, str, vec>>
vars == <<chanVars, link, alive, answer, s, method, requested, ret, got, outVars>>
-----------------------------------------------------------------------------
(* ClientImpl: the reader each command's reply goes through *)

KvCommands == [
  status |-> {"set", "setx", "del", "multi_set", "multi_del"},
  int64  |-> {"incr"},
  str    |-> {"get"},
  list   |-> {"keys", "scan", "rscan", "multi_get"} ]

HashCommands == [
  status |-> {"hset", "hdel", "multi_hset", "multi_hdel"},
  int64  |-> {"hincr", "hsize", "hclear"},
  str    |-> {"hget"},
  list   |-> {"hkeys", "hgetall", "hscan", "hrscan", "multi_hget"} ]

ZsetCommands == [
  status |-> {"zset", "zdel", "multi_zset", "multi_zdel"},
  int64  |-> {"zget", "zincr", "zsize", "zclear", "zrank", "zrrank"},
  str    |-> {},
  list   |-> {"zrange", "zrrange", "zkeys", "zscan", "zrscan", "multi_zget"} ]

QueueCommands == [
  status |-> {"qpush"},
  int64  |-> {},
  str    |-> {"qpop"},
  list   |-> {"qslice"} ]

Reads(m, kind) ==
  \E f \in {KvCommands, HashCommands, ZsetCommands, QueueCommands} : m \in f[kind]

Codes == {"ok", "not_found", "error"}
Answers == [code : Codes, n : 0..MaxValues]
Null == [code |-> "null", n |-> 0]

\* Mutant of Status: a missing reply leaves the code as it was.
StatusKept(resp) == IF resp = Null THEN s ELSE resp.code

\* Status(resp): the first record of the reply, "error" when there is no reply.
Status(resp) == IF resp = Null THEN "error" ELSE resp.code

\* Mutant of ReadStatus: an "ok" is enough, with or without a value.
ReadStatusUnchecked(m, resp) == Status(resp)

\* _read_int64 and _read_str turn an "ok" without a value into "server_error".
ReadStatus(m, resp) ==
  IF (Reads(m, "int64") \/ Reads(m, "str")) /\ Status(resp) = "ok" /\ resp.n = 0
    THEN "server_error"
    ELSE Status(resp)

\* Mutant of ReadList: the code is taken for a value as well.
ReadListWithCode(resp) ==
  IF Status(resp) = "ok" THEN [i \in 1..resp.n + 1 |-> issued] ELSE <<>>

\* _read_list: every record after the code.
ReadList(resp) == IF Status(resp) = "ok" THEN [i \in 1..resp.n |-> issued] ELSE <<>>
-----------------------------------------------------------------------------
(* DBSS: what the methods return *)

AlwaysOne == {"get", "multi_set"}
OneOrMinusOne == {"set", "setx"}

ReturnValue(m, code) ==
  IF m \in AlwaysOne \/ code = "ok" THEN 1
  ELSE IF m \in OneOrMinusOne THEN -1 ELSE 0

\* The methods whose body is a try block around the std::string conversions.
InTry == {"keys", "scan", "rscan", "hkeys", "hgetall", "hscan", "hrscan",
          "zrange", "zrrange", "zkeys", "zscan", "zrscan"}

\* Mutant of Outputs: a string is written only when there is one.
OutputsWhenOk(m, resp) ==
  LET value == Status(resp) = "ok" /\ resp.n > 0
  IN  /\ num' = IF Reads(m, "int64") /\ value THEN issued ELSE num
      /\ str' = IF Reads(m, "str") /\ value THEN issued ELSE str
      /\ vec' = IF Reads(m, "list") THEN ReadList(resp) ELSE vec

\* The output parameters after method m has read resp.  An int64 is written by
\* the reader itself; a string is copied from a local that starts empty.
Outputs(m, resp) ==
  LET value == Status(resp) = "ok" /\ resp.n > 0
  IN  /\ num' = IF Reads(m, "int64") /\ value THEN issued ELSE num
      /\ str' = IF ~Reads(m, "str") THEN str ELSE IF value THEN issued ELSE 0
      /\ vec' = IF Reads(m, "list") THEN ReadList(resp) ELSE vec
-----------------------------------------------------------------------------
Call(m) ==
  /\ alive /\ link = "open"
  /\ Chan!Call
  /\ method' = m /\ requested' = TRUE
  /\ UNCHANGED <<link, alive, answer, s, ret, got, outVars>>

\* The constructor ignores that connect() failed; request() then calls
\* link->send() on a NULL link.
CallUnconnected(m) ==
  /\ alive /\ link = "null"
  /\ alive' = FALSE
  /\ method' = m /\ requested' = TRUE
  /\ UNCHANGED <<chanVars, link, answer, s, ret, got, outVars>>

\* std::string(NULL) throws before the request is made; the handler empties
\* the vector and the method returns s.ok().
Throws(m) ==
  /\ alive /\ ~busy
  /\ m \in InTry
  /\ method' = m /\ requested' = FALSE
  /\ vec' = <<>>
  /\ ret' = ReturnValue(m, s)
  /\ UNCHANGED <<chanVars, link, alive, answer, s, got, num, str>>

\* The server executes a request (code that is not under src/).
Execute(a) ==
  /\ alive
  /\ Chan!Execute
  /\ answer' = a
  /\ UNCHANGED <<link, alive, s, method, requested, ret, got, outVars>>

Finish(resp) ==
  /\ got' = resp
  /\ s' = ReadStatus(method, resp)
  /\ ret' = ReturnValue(method, s')
  /\ Outputs(method, resp)
  /\ UNCHANGED <<link, alive, answer, method, requested>>

Return ==
  /\ alive
  /\ \/ Chan!Reply /\ Finish(answer)
     \/ Chan!Fail /\ Finish(Null)

Init ==
  /\ Chan!Init
  /\ link \in {"open", "null"} /\ alive = TRUE
  /\ answer = Null /\ got = Null
  /\ s = "none" /\ method = "none" /\ requested = FALSE /\ ret = 0
  /\ num = 0 /\ str = 0 /\ vec = <<>>

Next ==
  \/ \E m \in Methods : Call(m) \/ CallUnconnected(m)
  \/ \E absent \in Absent, m \in Methods : Throws(m)
  \/ \E a \in Answers : Execute(a)
  \/ Return

Spec == Init /\ [][Next]_vars
-----------------------------------------------------------------------------
TypeOK ==
  /\ Chan!TypeOK
  /\ link \in {"open", "null"} /\ alive \in BOOLEAN
  /\ answer \in Answers \cup {Null} /\ got \in Answers \cup {Null}
  /\ s \in Codes \cup {"none", "server_error"}
  /\ method \in Methods \cup {"none"} /\ requested \in BOOLEAN
  /\ ret \in {-1, 0, 1}
  /\ num \in 0..issued /\ str \in 0..issued
  /\ Len(vec) <= MaxValues /\ \A i \in 1..Len(vec) : vec[i] \in 1..issued

Returned == alive /\ ~busy

(* A method that made its request and reports success tells the truth: the *)
(* server executed this very request and answered "ok", and what the       *)
(* method was to fetch is in the output parameter, all of it from that     *)
(* answer.  DBSS::get and DBSS::multi_set return 1 whatever happened       *)
(* (DBSS.cc:101, 218), so their 1 says nothing.                            *)
SuccessIsReal ==
  Returned /\ requested /\ ret = 1 /\ method \notin AlwaysOne =>
    /\ executed = issued /\ result.reply = issued
    /\ got.code = "ok"
    /\ Reads(method, "int64") => num = issued
    /\ Reads(method, "str") => str = issued
    /\ Reads(method, "list") => Len(vec) = got.n

(* A caller that reuses its string and vector never finds in them what an  *)
(* earlier call put there, however the last call ended.                    *)
NothingStale ==
  Returned =>
    /\ Reads(method, "str") => str \in {0, issued}
    /\ Reads(method, "list") => \A i \in 1..Len(vec) : vec[i] = issued

(* Once the connection has failed nothing reports success any more, not    *)
(* even a method that returns the old status without making a request.     *)
BrokenIsTold ==
  Returned /\ broken => s # "ok" /\ (ret = 1 => method \in AlwaysOne)

(* Status::ok() "Returns true if the request succeeded" (SSDB_impl.h:12):  *)
(* a method that returns s.ok() as 1 has made a request.                   *)
OkHasARequest == Returned /\ ret = 1 /\ method \notin AlwaysOne => requested
=============================================================================
