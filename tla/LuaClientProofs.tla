--------------------------- MODULE LuaClientProofs --------------------------
(***************************************************************************)
(* What the int and the output parameters of class DBSS mean, and what a   *)
(* Lua program may conclude from a wrapper's result, for any methods, any  *)
(* answers, any number of calls and any numbers of keys.                   *)
(***************************************************************************)
EXTENDS LuaClient, TLAPS
-----------------------------------------------------------------------------
(* Class DBSS and the C API.                                               *)

(* Status(resp) is one of the codes, and it is "error" without a reply.    *)
LEMMA StatusType ==
  ASSUME NEW resp \in Answers \cup {Null}
  PROVE  /\ Status(resp) \in Codes
         /\ Status(resp) = "ok" => resp \in Answers /\ resp.code = "ok"
BY DEF Status, Answers, Codes, Null

(* The code a method keeps in s.                                           *)
LEMMA ReadStatusType ==
  ASSUME NEW m, NEW resp \in Answers \cup {Null}
  PROVE  /\ ReadStatus(m, resp) \in Codes \cup {"server_error"}
         /\ ReadStatus(m, resp) = "ok" =>
              /\ Status(resp) = "ok" /\ resp.code = "ok" /\ resp.n \in 0..MaxValues
              /\ Reads(m, "int64") \/ Reads(m, "str") => resp.n > 0
<1>1. Status(resp) \in Codes
  BY StatusType
<1>2. ReadStatus(m, resp) = "ok" => Status(resp) = "ok"
  BY DEF ReadStatus
<1>3. Status(resp) = "ok" => resp.code = "ok" /\ resp.n \in 0..MaxValues
  BY StatusType DEF Answers
<1>4. Reads(m, "int64") \/ Reads(m, "str") =>
        (ReadStatus(m, resp) = "ok" => resp.n # 0)
  BY DEF ReadStatus
<1>5. 0..MaxValues \subseteq Nat
  BY DbssAssumption DEF DbssAssumption
<1> QED
  BY <1>1, <1>2, <1>3, <1>4, <1>5 DEF ReadStatus, Codes

(* An int a method returns, and what 1 means.                              *)
LEMMA ReturnValueType ==
  ASSUME NEW m, NEW code
  PROVE  /\ ReturnValue(m, code) \in {-1, 0, 1}
         /\ ReturnValue(m, code) = 1 => m \in AlwaysOne \/ code = "ok"
BY DEF ReturnValue

(* No method with a handler for NULL strings reads a single string.        *)
LEMMA InTryNotStr == ASSUME NEW m \in InTry PROVE ~Reads(m, "str")
BY DEF InTry, Reads, KvCommands, HashCommands, ZsetCommands, QueueCommands

(* A list is read from this answer only.                                   *)
LEMMA ReadListType ==
  ASSUME NEW resp \in Answers \cup {Null}
  PROVE  /\ ReadList(resp) \in Seq({issued})
         /\ Len(ReadList(resp)) <= MaxValues
         /\ Status(resp) = "ok" => Len(ReadList(resp)) = resp.n
<1>1. CASE Status(resp) = "ok"
  <2>1. resp.n \in 0..MaxValues
    BY <1>1, StatusType DEF Answers
  <2>2. resp.n \in Nat /\ resp.n <= MaxValues
    BY <2>1, DbssAssumption DEF DbssAssumption
  <2>3. ReadList(resp) = [i \in 1..resp.n |-> issued]
    BY <1>1 DEF ReadList
  <2>4. ReadList(resp) \in Seq({issued}) /\ Len(ReadList(resp)) = resp.n
    BY <2>2, <2>3
  <2> QED
    BY <2>2, <2>4
<1>2. CASE Status(resp) # "ok"
  <2>1. ReadList(resp) = <<>>
    BY <1>2 DEF ReadList
  <2> QED
    BY <2>1, <1>2, DbssAssumption DEF DbssAssumption
<1> QED
  BY <1>1, <1>2
-----------------------------------------------------------------------------
(* The type invariant, with what it needs to be inductive. *)
TypeInv ==
  /\ TypeOK
  /\ vec \in Seq(Nat)
  /\ busy => issued > 0

LEMMA TypeInit == Init => TypeInv
<1> SUFFICES ASSUME Init PROVE TypeInv
  OBVIOUS
<1>1. /\ issued = 0 /\ executed = 0 /\ num = 0 /\ str = 0 /\ ret = 0
      /\ vec = <<>> /\ result = [req |-> 0, reply |-> 0]
  BY DEF Init, Chan!Init
<1>2. busy = FALSE /\ broken = FALSE /\ alive = TRUE /\ requested = FALSE
  BY DEF Init, Chan!Init
<1>3. /\ busy \in BOOLEAN /\ broken \in BOOLEAN
      /\ alive \in BOOLEAN /\ requested \in BOOLEAN
  BY <1>2
<1>4. /\ issued \in 0..MaxIssued /\ executed \in 0..issued
      /\ result \in [req : 0..issued, reply : 0..issued]
      /\ ret \in {-1, 0, 1} /\ num \in 0..issued /\ str \in 0..issued
      /\ vec \in Seq(Nat) /\ Len(vec) <= MaxValues
      /\ \A i \in 1..Len(vec) : vec[i] \in 1..issued
  BY <1>1, DbssAssumption DEF DbssAssumption
<1>5. /\ link \in {"open", "null"} /\ answer = Null /\ got = Null
      /\ s = "none" /\ method = "none"
  BY DEF Init
<1>6. Chan!TypeOK
  BY <1>3, <1>4 DEF Chan!TypeOK
<1> QED
  BY <1>2, <1>3, <1>4, <1>5, <1>6 DEF TypeInv, TypeOK

\* How a method that read a reply, or learned that there is none, ends.
LEMMA FinishType ==
  ASSUME TypeInv, NEW resp \in Answers \cup {Null}, Finish(resp), issued' = issued,
         busy
  PROVE  /\ got' \in Answers \cup {Null}
         /\ s' \in Codes \cup {"server_error"}
         /\ ret' \in {-1, 0, 1}
         /\ num' \in 0..issued' /\ str' \in 0..issued'
         /\ vec' \in Seq(Nat) /\ Len(vec') <= MaxValues
         /\ \A i \in 1..Len(vec') : vec'[i] \in 1..issued'
<1>1. issued \in Nat /\ issued > 0 /\ issued' = issued
  BY DbssAssumption DEF DbssAssumption, TypeInv, TypeOK, Chan!TypeOK
<1>2. got' = resp /\ s' = ReadStatus(method, resp) /\ ret' = ReturnValue(method, s')
  BY DEF Finish
<1>3. s' \in Codes \cup {"server_error"} /\ ret' \in {-1, 0, 1}
  BY <1>2, ReadStatusType, ReturnValueType
<1>4. num' \in {num, issued} /\ str' \in {str, 0, issued}
  BY DEF Finish, Outputs
<1>5. num' \in 0..issued' /\ str' \in 0..issued'
  BY <1>1, <1>4 DEF TypeInv, TypeOK
<1>6. CASE vec' = vec
  BY <1>1, <1>2, <1>3, <1>5, <1>6 DEF TypeInv, TypeOK
<1>7. CASE vec' = ReadList(resp)
  <2>1. vec' \in Seq({issued}) /\ Len(vec') <= MaxValues
    BY <1>7, ReadListType
  <2>2. \A i \in 1..Len(vec') : vec'[i] = issued
    BY <2>1
  <2>3. vec' \in Seq(Nat)
    BY <2>1, <1>1
  <2> QED
    BY <1>1, <1>2, <1>3, <1>5, <2>1, <2>2, <2>3
<1> QED
  BY <1>6, <1>7 DEF Finish, Outputs

\* How a method ends that throws before its request.
LEMMA ThrowsType ==
  ASSUME TypeInv, NEW m \in Methods, Throws(m)
  PROVE  TypeInv'
<1>1. ret' \in {-1, 0, 1}
  BY ReturnValueType DEF Throws
<1>2. vec' = <<>> /\ Len(vec') <= MaxValues /\ vec' \in Seq(Nat)
  BY DbssAssumption DEF DbssAssumption, Throws
<1>3. requested' = FALSE /\ requested' \in BOOLEAN
  BY DEF Throws
<1>4. UNCHANGED <<issued, executed, busy, broken, result, link, alive, answer, s,
                  got, num, str>> /\ method' = m /\ ~busy
  BY DEF Throws, chanVars
<1>5. \A i \in 1..Len(vec') : vec'[i] \in 1..issued'
  BY <1>2
<1>6. Chan!TypeOK'
  BY <1>4 DEF TypeInv, TypeOK, Chan!TypeOK
<1> QED
  BY <1>1, <1>2, <1>3, <1>4, <1>5, <1>6 DEF TypeInv, TypeOK

LEMMA TypeStep == TypeInv /\ [Next]_vars => TypeInv'
<1> SUFFICES ASSUME TypeInv, [Next]_vars PROVE TypeInv'
  OBVIOUS
<1>0. issued \in Nat /\ executed \in Nat /\ vec \in Seq(Nat)
  BY DbssAssumption DEF DbssAssumption, TypeInv, TypeOK, Chan!TypeOK
<1>1. ASSUME NEW m \in Methods, Call(m) PROVE TypeInv'
  <2>1. issued' = issued + 1 /\ issued' \in 0..MaxIssued
    BY <1>1, <1>0, DbssAssumption DEF DbssAssumption, Call, Chan!Call
  <2>2. Chan!TypeOK'
    BY <1>1, <1>0, <2>1 DEF Call, Chan!Call, TypeInv, TypeOK, Chan!TypeOK
  <2>3. /\ num' \in 0..issued' /\ str' \in 0..issued'
        /\ Len(vec') <= MaxValues /\ \A i \in 1..Len(vec') : vec'[i] \in 1..issued'
    BY <1>1, <1>0, <2>1 DEF Call, outVars, TypeInv, TypeOK
  <2> QED
    BY <1>1, <1>0, <2>1, <2>2, <2>3 DEF Call, outVars, TypeInv, TypeOK
<1>2. ASSUME NEW m \in Methods, CallUnconnected(m) PROVE TypeInv'
  BY <1>2 DEF CallUnconnected, chanVars, outVars, TypeInv, TypeOK, Chan!TypeOK
<1>3. ASSUME NEW m \in Methods, Throws(m) PROVE TypeInv'
  BY <1>3, ThrowsType
<1>4. ASSUME NEW a \in Answers, Execute(a) PROVE TypeInv'
  <2>1. executed' \in 0..issued'
    BY <1>4, <1>0 DEF Execute, Chan!Execute, TypeInv, TypeOK, Chan!TypeOK
  <2> QED
    BY <1>4, <2>1
    DEF Execute, Chan!Execute, outVars, TypeInv, TypeOK, Chan!TypeOK
<1>5. ASSUME Return PROVE TypeInv'
  <2>1. PICK resp \in Answers \cup {Null} : Finish(resp)
    BY <1>5 DEF Return, TypeInv, TypeOK
  <2>2. issued' = issued /\ executed' = executed /\ busy /\ ~busy'
    BY <1>5 DEF Return, Chan!Reply, Chan!Fail
  <2>3. Chan!TypeOK'
    <3>1. busy' = FALSE /\ (broken' = broken \/ broken' = TRUE)
      BY <1>5 DEF Return, Chan!Reply, Chan!Fail
    <3>2. busy' \in BOOLEAN /\ broken' \in BOOLEAN
      BY <3>1 DEF TypeInv, TypeOK, Chan!TypeOK
    <3>3. result' = [req |-> issued, reply |-> issued]
          \/ result' = [req |-> issued, reply |-> 0]
      BY <1>5 DEF Return, Chan!Reply, Chan!Fail
    <3>4. result' \in [req : 0..issued', reply : 0..issued']
      BY <3>3, <2>2, <1>0
    <3> QED
      BY <2>2, <3>2, <3>4 DEF TypeInv, TypeOK, Chan!TypeOK
  <2>4. UNCHANGED <<link, alive, answer, method, requested>>
    BY <2>1 DEF Finish
  <2>5. /\ got' \in Answers \cup {Null}
        /\ s' \in Codes \cup {"server_error"}
        /\ ret' \in {-1, 0, 1}
        /\ num' \in 0..issued' /\ str' \in 0..issued'
        /\ vec' \in Seq(Nat) /\ Len(vec') <= MaxValues
        /\ \A i \in 1..Len(vec') : vec'[i] \in 1..issued'
    BY <2>1, <2>2, FinishType
  <2> QED
    BY <2>2, <2>3, <2>4, <2>5 DEF TypeInv, TypeOK
<1>6. CASE UNCHANGED vars
  BY <1>6 DEF vars, chanVars, outVars, TypeInv, TypeOK, Chan!TypeOK
<1> QED
  BY <1>1, <1>2, <1>3, <1>4, <1>5, <1>6 DEF Next

(* The outputs and the int of class DBSS stay in their ranges.             *)
THEOREM DbssTypeCorrect == Spec => []TypeOK
<1>1. TypeInv => TypeOK
  BY DEF TypeInv
<1> QED
  BY TypeInit, TypeStep, <1>1, PTL DEF Spec
-----------------------------------------------------------------------------
(* What a method tells.  The three properties are inductive together with  *)
(* the types: between calls nothing but Throws changes the outputs, and it *)
(* neither makes a request nor turns a status that is not "ok" into a 1.   *)
Told == SuccessIsReal /\ NothingStale /\ BrokenIsTold

LEMMA ToldInit == Init => Told
<1> SUFFICES ASSUME Init PROVE Told
  OBVIOUS
<1>1. requested = FALSE /\ broken = FALSE /\ str = 0 /\ vec = <<>>
  BY DEF Init, Chan!Init
<1> QED
  BY <1>1 DEF Told, SuccessIsReal, NothingStale, BrokenIsTold

(* What a method that read a reply, or none, leaves behind.                *)
LEMMA FinishTells ==
  ASSUME answer \in Answers \cup {Null},
         \/ Chan!Reply /\ Finish(answer)
         \/ Chan!Fail /\ Finish(Null)
  PROVE  Told'
<1>1. PICK resp \in Answers \cup {Null} :
        /\ Finish(resp)
        /\ Status(resp) = "ok" => Chan!Reply
        /\ \/ Chan!Reply
           \/ Chan!Fail /\ resp = Null
  <2>1. Status(Null) = "error"
    BY DEF Status
  <2>3. CASE Finish(answer) /\ Chan!Reply
    <3> WITNESS answer \in Answers \cup {Null}
    <3> QED
      BY <2>3
  <2>4. CASE Finish(Null) /\ Chan!Fail
    <3>1. Status(Null) # "ok"
      BY <2>1
    <3> WITNESS Null \in Answers \cup {Null}
    <3> QED
      BY <2>4, <3>1
  <2> QED
    BY <2>3, <2>4
<1>2. /\ got' = resp /\ s' = ReadStatus(method, resp)
      /\ ret' = ReturnValue(method, s') /\ method' = method
      /\ Outputs(method, resp)
  BY <1>1 DEF Finish
<1>3. issued' = issued /\ executed' = executed
  BY <1>1 DEF Chan!Reply, Chan!Fail
<1>4. ret' = 1 => method \in AlwaysOne \/ s' = "ok"
  BY <1>2, ReturnValueType
<1>5. SuccessIsReal'
  <2> SUFFICES ASSUME ret' = 1, method \notin AlwaysOne
               PROVE  /\ executed' = issued' /\ result'.reply = issued'
                      /\ got'.code = "ok"
                      /\ Reads(method, "int64") => num' = issued'
                      /\ Reads(method, "str") => str' = issued'
                      /\ Reads(method, "list") => Len(vec') = got'.n
    BY <1>2 DEF SuccessIsReal
  <2>1. /\ Status(resp) = "ok" /\ resp.code = "ok"
        /\ Reads(method, "int64") \/ Reads(method, "str") => resp.n > 0
    BY <1>2, <1>4, ReadStatusType
  <2>2. executed' = issued' /\ result'.reply = issued'
    BY <1>1, <2>1 DEF Chan!Reply
  <2>3. Reads(method, "int64") => num' = issued
    BY <1>2, <2>1 DEF Outputs
  <2>4. Reads(method, "str") => str' = issued
    BY <1>2, <2>1 DEF Outputs
  <2>5. Reads(method, "list") => Len(vec') = resp.n
    BY <1>2, <2>1, ReadListType DEF Outputs
  <2> QED
    BY <1>2, <1>3, <2>1, <2>2, <2>3, <2>4, <2>5
<1>6. NothingStale'
  <2>1. Reads(method, "str") => str' \in {0, issued}
    BY <1>2 DEF Outputs
  <2>2. \A i \in 1..Len(ReadList(resp)) : ReadList(resp)[i] = issued
    BY ReadListType
  <2>3. Reads(method, "list") => \A i \in 1..Len(vec') : vec'[i] = issued
    BY <1>2, <2>2 DEF Outputs
  <2> QED
    BY <1>2, <1>3, <2>1, <2>3 DEF NothingStale
<1>7. BrokenIsTold'
  <2>1. CASE Chan!Reply
    BY <2>1 DEF Chan!Reply, BrokenIsTold
  <2>2. CASE Chan!Fail /\ resp = Null
    <3>1. Status(resp) = "error"
      BY <2>2 DEF Status
    <3>2. s' = "error"
      BY <1>2, <3>1 DEF ReadStatus
    <3> QED
      BY <1>2, <1>4, <3>2 DEF BrokenIsTold
  <2> QED
    BY <1>1, <2>1, <2>2
<1> QED
  BY <1>5, <1>6, <1>7 DEF Told

LEMMA ToldStep == TypeInv /\ Told /\ [Next]_vars => Told'
<1> SUFFICES ASSUME TypeInv, Told, [Next]_vars PROVE Told'
  OBVIOUS
<1>0. issued \in Nat /\ executed \in Nat
  BY DbssAssumption DEF DbssAssumption, TypeInv, TypeOK, Chan!TypeOK
<1>1. ASSUME NEW m \in Methods, Call(m) PROVE Told'
  <2>1. busy' = TRUE
    BY <1>1 DEF Call, Chan!Call
  <2> QED
    BY <2>1 DEF Told, SuccessIsReal, NothingStale, BrokenIsTold, Returned
<1>2. ASSUME NEW m \in Methods, CallUnconnected(m) PROVE Told'
  <2>1. alive' = FALSE
    BY <1>2 DEF CallUnconnected
  <2> QED
    BY <2>1 DEF Told, SuccessIsReal, NothingStale, BrokenIsTold, Returned
<1>3. ASSUME NEW m \in Methods, Throws(m) PROVE Told'
  <2>1. /\ requested' = FALSE /\ vec' = <<>> /\ method' = m /\ m \in InTry
        /\ ret' = ReturnValue(m, s) /\ s' = s /\ broken' = broken
        /\ alive' = alive /\ alive /\ ~busy
    BY <1>3 DEF Throws, chanVars
  <2>2. SuccessIsReal'
    BY <2>1 DEF SuccessIsReal
  <2>3. NothingStale'
    BY <2>1, InTryNotStr DEF NothingStale
  <2>4. BrokenIsTold'
    BY <2>1, ReturnValueType DEF Told, BrokenIsTold, Returned
  <2> QED
    BY <2>2, <2>3, <2>4 DEF Told
<1>4. ASSUME NEW a \in Answers, Execute(a) PROVE Told'
  <2>1. /\ executed < issued /\ executed' = executed + 1
        /\ UNCHANGED <<issued, busy, broken, result, link, alive, s, method,
                       requested, ret, got, num, str, vec>>
    BY <1>4 DEF Execute, Chan!Execute, outVars
  <2>2. executed # issued
    BY <1>0, <2>1
  <2>3. ~(Returned /\ requested /\ ret = 1 /\ method \notin AlwaysOne)
    BY <2>2 DEF Told, SuccessIsReal
  <2>4. SuccessIsReal'
    BY <2>1, <2>3 DEF SuccessIsReal, Returned
  <2>5. NothingStale' /\ BrokenIsTold'
    BY <2>1 DEF Told, NothingStale, BrokenIsTold, Returned
  <2> QED
    BY <2>4, <2>5 DEF Told
<1>5. ASSUME Return PROVE Told'
  <2>1. answer \in Answers \cup {Null}
    BY DEF TypeInv, TypeOK
  <2> QED
    BY <1>5, <2>1, FinishTells DEF Return
<1>6. CASE UNCHANGED vars
  <2>1. UNCHANGED <<issued, executed, busy, broken, result, alive, s, method,
                    requested, ret, got, num, str, vec>>
    BY <1>6 DEF vars, chanVars, outVars
  <2> QED
    BY <2>1 DEF Told, SuccessIsReal, NothingStale, BrokenIsTold, Returned
<1> QED
  BY <1>1, <1>2, <1>3, <1>4, <1>5, <1>6 DEF Next

LEMMA Tells == Spec => []Told
BY TypeInit, TypeStep, ToldInit, ToldStep, PTL DEF Spec

(* Success is the success of this call's request, with this answer's values*)
(* (DBSS.cc:58-766), whatever the calls before it did.                     *)
THEOREM SuccessesAreReal == Spec => []SuccessIsReal
<1>1. Told => SuccessIsReal
  BY DEF Told
<1> QED
  BY Tells, <1>1, PTL

(* A method never leaves an earlier call's string or list in the caller's  *)
(* output parameters.                                                      *)
THEOREM OutputsAreFresh == Spec => []NothingStale
<1>1. Told => NothingStale
  BY DEF Told
<1> QED
  BY Tells, <1>1, PTL

(* After a failure of the connection nothing reports success, however many *)
(* methods throw before their request and return the old status.           *)
THEOREM FailuresAreTold == Spec => []BrokenIsTold
<1>1. Told => BrokenIsTold
  BY DEF Told
<1> QED
  BY Tells, <1>1, PTL
-----------------------------------------------------------------------------
(* The wrappers of DB.lua.                                                  *)

Empty == num = 0 /\ str = 0 /\ vec = <<>>

\* Nothing in the output parameters comes from another answer.
Cells == /\ num \in {0, issued} /\ str \in {0, issued}
         /\ \A i \in 1..Len(vec) : vec[i] = issued

\* The call made its request, and it was executed and answered "ok".
Real == requested /\ executed = issued /\ result.reply = issued /\ got.code = "ok"

Tellable == /\ Makes(method, "int") /\ method # "multi_set"
            /\ ret = 1

\* What holds when the C function has returned.
Answered ==
  /\ method = Target(wrapper, nkeys)
  /\ Cells
  /\ Empty \/ Real
  /\ Tellable => Real

(* The parameters are empty until the C function writes them, which is what *)
(* makes anything in them new.                                             *)
LuaInv ==
  /\ issued \in Nat /\ executed \in Nat /\ nkeys \in Nat
  /\ vec \in Seq(Nat) /\ answer \in Answers \cup {Null}
  /\ stage # "called" => ~busy
  /\ stage = "begun" => Empty
  /\ stage = "called" /\ busy =>
       Empty /\ requested /\ method = Target(wrapper, nkeys)
  /\ alive /\ stage = "called" /\ ~busy => Answered
  /\ LuaResultIsReal

(* The readers write a reply's values or nothing.                          *)
LEMMA FinishFills ==
  ASSUME answer \in Answers \cup {Null}, Empty, requested,
         \/ Chan!Reply /\ Finish(answer)
         \/ Chan!Fail /\ Finish(Null)
  PROVE  /\ Cells'
         /\ Empty' \/ Real'
         /\ vec' \in Seq({issued})
<1>1. PICK resp \in Answers \cup {Null} :
        /\ Finish(resp)
        /\ Status(resp) = "ok" => Chan!Reply
        /\ Chan!Reply \/ Chan!Fail
  <2>1. Status(Null) # "ok"
    BY DEF Status
  <2>2. CASE Chan!Reply /\ Finish(answer)
    <3> WITNESS answer \in Answers \cup {Null}
    <3> QED
      BY <2>2
  <2>3. CASE Chan!Fail /\ Finish(Null)
    <3> WITNESS Null \in Answers \cup {Null}
    <3> QED
      BY <2>1, <2>3
  <2> QED
    BY <2>2, <2>3
<1>2. /\ got' = resp /\ requested' = requested /\ Outputs(method, resp)
  BY <1>1 DEF Finish
<1>3. issued' = issued /\ executed' = executed
  BY <1>1 DEF Chan!Reply, Chan!Fail
<1>4. ReadList(resp) \in Seq({issued})
  BY ReadListType
<1>5. vec' \in Seq({issued})
  <2>1. <<>> \in Seq({issued})
    OBVIOUS
  <2> QED
    BY <1>2, <1>4, <2>1 DEF Outputs, Empty
<1>6. Cells'
  <2>1. num' \in {0, issued} /\ str' \in {0, issued}
    BY <1>2 DEF Outputs, Empty
  <2>2. \A i \in 1..Len(vec') : vec'[i] = issued
    BY <1>5
  <2> QED
    BY <1>3, <2>1, <2>2 DEF Cells
<1>7. CASE Status(resp) = "ok"
  <2>1. executed' = issued' /\ result'.reply = issued'
    BY <1>1, <1>7 DEF Chan!Reply
  <2>2. got'.code = "ok"
    BY <1>2, <1>7, StatusType
  <2>3. Real'
    BY <1>2, <2>1, <2>2 DEF Real
  <2> QED
    BY <1>5, <1>6, <2>3
<1>8. CASE Status(resp) # "ok"
  <2>1. ReadList(resp) = <<>>
    BY <1>8 DEF ReadList
  <2>2. Empty'
    BY <1>2, <1>8, <2>1 DEF Outputs, Empty
  <2> QED
    BY <1>5, <1>6, <2>2
<1> QED
  BY <1>7, <1>8

(* Every kind of result but the int's is no int's.                         *)
LEMMA KindsDisjoint ==
  ASSUME NEW w
  PROVE  /\ w \in Optional => ~Makes(w, "int") /\ ~Makes(w, "multi")
         /\ Makes(w, "multi") => w \in {"multi_get", "multi_hget", "multi_zget"}
         /\ Makes(w, "int") => ~Makes(w, "cell") /\ ~Makes(w, "str")
         /\ Makes(w, "int") /\ w # "multi_set" => w \notin AlwaysOne
BY DEF Optional, Makes, KvWrappers, HashWrappers, ZsetWrappers, QueueWrappers, AlwaysOne
-----------------------------------------------------------------------------
(* What Convert makes of parameters that hold this call's answer or nothing.*)
LEMMA ConvertTells ==
  ASSUME LuaInv, Convert
  PROVE  LuaResultIsReal'
<1> DEFINE m == Target(wrapper, nkeys)
<1>1. Answered /\ issued \in Nat /\ nkeys \in Nat /\ vec \in Seq(Nat)
  BY DEF LuaInv, Convert
<1>2. /\ lua' = Result /\ method = m
      /\ UNCHANGED <<issued, executed, result, got, requested, wrapper>>
  BY <1>1 DEF Convert, Answered, chanVars
<1> HIDE DEF m
<1>3. lua'.int = (IF Makes(m, "int") THEN ret ELSE 0)
  BY <1>2 DEF Result, m
<1>4. SlotsRead(m, nkeys) \in Nat
  <2>1. Len(vec) \in Nat
    BY <1>1
  <2>2. (Len(vec) + 1) \div 2 \in Nat
    BY <2>1
  <2>3. 2 * ((Len(vec) + 1) \div 2) \in Nat /\ 2 * nkeys \in Nat
    BY <2>2, <1>1
  <2> QED
    BY <2>1, <2>3 DEF SlotsRead
<1>5. PICK filled \in Nat :
        /\ filled <= Len(vec)
        /\ lua'.values = IF Makes(m, "cell") THEN <<num>>
                         ELSE IF Makes(m, "str") THEN <<str>>
                         ELSE [i \in 1..filled |-> vec[i]]
  <2> DEFINE f == IF SlotsRead(m, nkeys) < Len(vec)
                    THEN SlotsRead(m, nkeys) ELSE Len(vec)
  <2>1. f \in Nat /\ f <= Len(vec)
    BY <1>1, <1>4
  <2>2. lua'.values = IF Makes(m, "cell") THEN <<num>>
                      ELSE IF Makes(m, "str") THEN <<str>>
                      ELSE [i \in 1..f |-> vec[i]]
    BY <1>2 DEF Result, m
  <2> QED
    BY <2>1, <2>2
<1>6. \/ \A i \in 1..Len(lua'.values) : lua'.values[i] = issued
      \/ \A i \in 1..Len(lua'.values) : lua'.values[i] = 0
  <2>1. CASE Makes(m, "cell")
    BY <1>1, <1>5, <2>1 DEF Answered, Cells
  <2>2. CASE ~Makes(m, "cell") /\ Makes(m, "str")
    BY <1>1, <1>5, <2>2 DEF Answered, Cells
  <2>3. CASE ~Makes(m, "cell") /\ ~Makes(m, "str")
    <3>1. lua'.values = [i \in 1..filled |-> vec[i]]
      BY <1>5, <2>3
    <3>2. \A i \in 1..filled : vec[i] = issued
      BY <1>1, <1>5 DEF Answered, Cells
    <3> QED
      BY <3>1, <3>2
  <2> QED
    BY <2>1, <2>2, <2>3
<1>7. Empty => \A i \in 1..Len(lua'.values) : lua'.values[i] = 0
  <2> SUFFICES ASSUME Empty PROVE \A i \in 1..Len(lua'.values) : lua'.values[i] = 0
    OBVIOUS
  <2>1. filled = 0
    BY <1>5 DEF Empty
  <2>2. lua'.values \in {<<num>>, <<str>>} \/ lua'.values = [i \in 1..0 |-> vec[i]]
    BY <1>5, <2>1
  <2> QED
    BY <2>2 DEF Empty
<1>8. Makes(m, "int") => \A i \in 1..Len(lua'.values) : lua'.values[i] = issued
  <2> SUFFICES ASSUME Makes(m, "int")
               PROVE  \A i \in 1..Len(lua'.values) : lua'.values[i] = issued
    OBVIOUS
  <2>1. lua'.values = [i \in 1..filled |-> vec[i]]
    BY <1>5, KindsDisjoint
  <2>2. \A i \in 1..filled : vec[i] = issued
    BY <1>1, <1>5 DEF Answered, Cells
  <2> QED
    BY <2>1, <2>2
<1>9. wrapper # "multi_set" => m # "multi_set"
  <2>1. m = wrapper \/ m \in {"get", "hget", "zget"}
    BY KindsDisjoint DEF m, Target, ForOneKey
  <2> QED
    BY <2>1
<1>10. SUFFICES
         ASSUME wrapper' # "multi_set",
                \/ lua'.int = 1
                \/ \E i \in 1..Len(lua'.values) : lua'.values[i] # 0
         PROVE  /\ Real'
                /\ \A i \in 1..Len(lua'.values) : lua'.values[i] = issued'
  BY DEF LuaResultIsReal, Real
<1>11. CASE lua'.int = 1
  <2>1. Makes(m, "int") /\ ret = 1
    BY <1>3, <1>11
  <2>2. Tellable
    BY <1>2, <1>9, <1>10, <2>1 DEF Tellable
  <2>3. Real'
    BY <1>1, <1>2, <2>2 DEF Answered, Real
  <2> QED
    BY <1>2, <1>8, <2>1, <2>3
<1>12. CASE \E i \in 1..Len(lua'.values) : lua'.values[i] # 0
  <2>1. ~Empty
    BY <1>7, <1>12
  <2>2. Real'
    BY <1>1, <1>2, <2>1 DEF Answered, Real
  <2> QED
    BY <1>2, <1>6, <1>12, <2>2
<1> QED
  BY <1>10, <1>11, <1>12
-----------------------------------------------------------------------------
LEMMA LuaInvInit == LuaInit => LuaInv
<1> SUFFICES ASSUME LuaInit PROVE LuaInv
  OBVIOUS
<1>1. /\ issued = 0 /\ executed = 0 /\ nkeys = 0 /\ vec = <<>> /\ answer = Null
      /\ stage = "idle" /\ lua = [int |-> 0, values |-> <<>>, unwritten |-> FALSE]
  BY DEF LuaInit, Init, Chan!Init
<1>2. ~busy
  BY DEF LuaInit, Init, Chan!Init
<1>3. LuaResultIsReal
  BY <1>1 DEF LuaResultIsReal
<1>4. issued \in Nat /\ executed \in Nat /\ nkeys \in Nat /\ vec \in Seq(Nat)
  BY <1>1
<1> QED
  BY <1>1, <1>2, <1>3, <1>4 DEF LuaInv

LEMMA LuaInvStep == LuaInv /\ [LuaNext]_<<vars, luaVars>> => LuaInv'
<1> SUFFICES ASSUME LuaInv, [LuaNext]_<<vars, luaVars>> PROVE LuaInv'
  OBVIOUS
<1>0. /\ issued \in Nat /\ executed \in Nat /\ nkeys \in Nat
      /\ vec \in Seq(Nat) /\ answer \in Answers \cup {Null}
  BY DEF LuaInv
<1>1. ASSUME NEW w \in Wrappers, NEW n \in 0..MaxKeys, Begin(w, n) PROVE LuaInv'
  <2>1. /\ stage' = "begun" /\ Empty' /\ nkeys' \in Nat /\ ~busy
        /\ UNCHANGED <<issued, executed, busy, answer>>
    BY <1>1 DEF Begin, Empty, chanVars, LuaInv
  <2>2. vec' \in Seq(Nat)
    BY <1>1 DEF Begin
  <2>3. LuaResultIsReal'
    BY <2>1 DEF LuaResultIsReal, LuaReturned
  <2> QED
    BY <1>0, <2>1, <2>2, <2>3 DEF LuaInv
<1>2. ASSUME Invoke PROVE LuaInv'
  <2>1. Empty /\ ~busy /\ stage' = "called" /\ UNCHANGED <<wrapper, nkeys>>
    BY <1>2 DEF Invoke, LuaInv
  <2>2. LuaResultIsReal'
    BY <2>1 DEF LuaResultIsReal, LuaReturned
  <2>3. CASE Call(Target(wrapper, nkeys))
    <3>1. /\ issued' = issued + 1 /\ executed' = executed /\ busy' /\ requested'
          /\ method' = Target(wrapper, nkeys)
          /\ UNCHANGED <<answer, num, str, vec>>
      BY <2>3 DEF Call, Chan!Call, outVars
    <3>2. issued' \in Nat
      BY <1>0, <3>1
    <3>3. Empty' /\ method' = Target(wrapper', nkeys')
      BY <2>1, <3>1 DEF Empty
    <3> QED
      BY <1>0, <2>1, <2>2, <3>1, <3>2, <3>3 DEF LuaInv
  <2>4. CASE CallUnconnected(Target(wrapper, nkeys))
    <3>1. ~alive' /\ UNCHANGED <<issued, executed, busy, answer, vec>>
      BY <2>4 DEF CallUnconnected, chanVars, outVars
    <3> QED
      BY <1>0, <2>1, <2>2, <3>1 DEF LuaInv
  <2>5. CASE wrapper \in Optional /\ Throws(Target(wrapper, nkeys))
    <3>1. /\ method' = Target(wrapper, nkeys) /\ vec' = <<>>
          /\ UNCHANGED <<issued, executed, busy, answer, num, str>>
      BY <2>5 DEF Throws, chanVars
    <3>2. Target(wrapper, nkeys) = wrapper /\ ~Makes(wrapper, "int")
      BY <2>5, KindsDisjoint DEF Target
    <3>3. Empty' /\ Cells' /\ ~Tellable'
      BY <2>1, <3>1, <3>2 DEF Empty, Cells, Tellable
    <3>4. Answered'
      BY <2>1, <3>1, <3>3 DEF Answered
    <3>5. vec' \in Seq(Nat)
      BY <3>1
    <3> QED
      BY <1>0, <2>1, <2>2, <3>1, <3>4, <3>5 DEF LuaInv
  <2> QED
    BY <1>2, <2>3, <2>4, <2>5 DEF Invoke
<1>3. ASSUME NEW a \in Answers, Server(a) PROVE LuaInv'
  <2>1. /\ executed < issued /\ executed' = executed + 1 /\ answer' = a
        /\ UNCHANGED <<issued, busy, result, alive, method, requested, ret, got,
                       num, str, vec, stage, wrapper, nkeys, lua>>
    BY <1>3 DEF Server, Execute, Chan!Execute, outVars, luaVars
  <2>2. executed # issued /\ executed' \in Nat
    BY <1>0, <2>1
  <2>3. ~Real
    BY <2>2 DEF Real
  <2>4. UNCHANGED <<Empty, Cells, Tellable>>
    BY <2>1 DEF Empty, Cells, Tellable
  <2>5. Answered => Answered'
    BY <2>1, <2>3, <2>4 DEF Answered
  <2>6. LuaResultIsReal'
    BY <2>1, <2>2 DEF LuaInv, LuaResultIsReal, LuaReturned
  <2> QED
    BY <1>0, <2>1, <2>2, <2>4, <2>5, <2>6 DEF LuaInv
<1>4. ASSUME Complete PROVE LuaInv'
  <2>1. /\ busy /\ ~busy' /\ UNCHANGED <<issued, executed, answer, alive, method,
                                         requested, stage, wrapper, nkeys, lua>>
    BY <1>4 DEF Complete, Return, Chan!Reply, Chan!Fail, Finish, luaVars
  <2>2. stage = "called" /\ Empty /\ requested /\ method = Target(wrapper, nkeys)
    BY <2>1 DEF LuaInv
  <2>3. Cells' /\ (Empty' \/ Real') /\ vec' \in Seq({issued})
    BY <1>0, <1>4, <2>2, FinishFills DEF Complete, Return
  <2>4. Tellable' => Real'
    <3>1. SuccessIsReal'
      BY <1>0, <1>4, FinishTells DEF Complete, Return, Told
    <3>2. alive' /\ requested'
      BY <1>4, <2>1, <2>2 DEF Complete, Return
    <3> QED
      BY <2>1, <3>1, <3>2, KindsDisjoint DEF SuccessIsReal, Returned, Tellable, Real
  <2>5. Answered'
    BY <2>1, <2>2, <2>3, <2>4 DEF Answered
  <2>6. LuaResultIsReal'
    BY <2>1, <2>2 DEF LuaResultIsReal, LuaReturned
  <2>7. vec' \in Seq(Nat)
    BY <1>0, <2>3
  <2> QED
    BY <1>0, <2>1, <2>2, <2>5, <2>6, <2>7 DEF LuaInv
<1>5. ASSUME Convert PROVE LuaInv'
  <2>1. /\ stage' = "idle" /\ ~busy'
        /\ UNCHANGED <<issued, executed, answer, nkeys, vec>>
    BY <1>5 DEF Convert, chanVars, outVars
  <2> QED
    BY <1>0, <1>5, <2>1, ConvertTells DEF LuaInv
<1>6. CASE UNCHANGED <<vars, luaVars>>
  <2>1. UNCHANGED <<issued, executed, busy, result, alive, answer, method,
                    requested, ret, got, num, str, vec, stage, wrapper, nkeys, lua>>
    BY <1>6 DEF vars, chanVars, outVars, luaVars
  <2>2. UNCHANGED <<Empty, Cells, Tellable, Real>>
    BY <2>1 DEF Empty, Cells, Tellable, Real
  <2>3. Answered => Answered'
    BY <2>1, <2>2 DEF Answered
  <2>4. LuaResultIsReal'
    BY <2>1 DEF LuaInv, LuaResultIsReal, LuaReturned
  <2> QED
    BY <1>0, <2>1, <2>2, <2>3, <2>4 DEF LuaInv
<1> QED
  BY <1>1, <1>2, <1>3, <1>4, <1>5, <1>6 DEF LuaNext

(* Although most wrappers drop the int, a result that is not a failure's   *)
(* comes from the answer to this very call (DB.lua:105-795).               *)
THEOREM LuaResultsAreReal == LuaSpec => []LuaResultIsReal
<1>1. LuaInv => LuaResultIsReal
  BY DEF LuaInv
<1> QED
  BY LuaInvInit, LuaInvStep, <1>1, PTL DEF LuaSpec
-----------------------------------------------------------------------------
\* The server's answer suits the wrapper that is waiting for it.
Suits(a) ==
  /\ Makes(wrapper, "pairs") => a.n % 2 = 0
  /\ Makes(wrapper, "multi") /\ nkeys # 1 => a.n \in {2 * k : k \in 0..nkeys}

\* The vector of a wrapper that has been called and not yet converted.
Filled ==
  /\ Makes(wrapper, "pairs") => Len(vec) % 2 = 0
  /\ Makes(wrapper, "multi") /\ nkeys > 1 =>
       broken \/ got.code # "ok" \/ got.n < 2 * nkeys \/ Len(vec) >= 2 * nkeys

(* An answer can only be taken for the call in progress when the server has *)
(* executed all calls, and then it is the answer to this one.               *)
SlotsInv ==
  /\ executed <= issued
  /\ stage = "called" /\ busy /\ executed = issued => Suits(answer)
  /\ alive /\ stage = "called" /\ ~busy => Filled
  /\ UnwrittenOnlyWhenMissing

(* A wrapper that makes pairs or a multi_ table has a list read for it.     *)
LEMMA ListKinds ==
  ASSUME NEW w
  PROVE  /\ Makes(w, "pairs") => Reads(w, "list") /\ ~Makes(w, "multi")
         /\ Makes(w, "multi") => Reads(w, "list") /\ w \notin Optional
         /\ ~Makes(w, "multi") => \A n : Target(w, n) = w
         /\ Makes(w, "multi") => \A n : n # 1 => Target(w, n) = w
         /\ w \in {"get", "hget", "zget"} =>
              ~Makes(w, "flat") /\ ~Makes(w, "pairs") /\ ~Makes(w, "multi")
BY DEF Makes, KvWrappers, HashWrappers, ZsetWrappers, QueueWrappers, Reads,
       KvCommands, HashCommands, ZsetCommands, QueueCommands, Optional, Target

\* What one key asks of a multi_ wrapper is no list at all.
LEMMA OneKey ==
  ASSUME NEW w, Makes(w, "multi")
  PROVE  Target(w, 1) \in {"get", "hget", "zget"}
BY KindsDisjoint DEF Target, ForOneKey

LEMMA ConvertReadsWritten ==
  ASSUME LuaInv, SlotsInv, Convert
  PROVE  UnwrittenOnlyWhenMissing'
<1> DEFINE m == Target(wrapper, nkeys)
<1>1. Filled /\ nkeys \in Nat /\ Len(vec) \in Nat
  BY DEF Convert, SlotsInv, LuaInv
<1>2. lua' = Result /\ UNCHANGED <<wrapper, nkeys, broken, got>>
  BY DEF Convert, chanVars
<1>3. SUFFICES ASSUME Result.unwritten
               PROVE  /\ Makes(wrapper, "multi") /\ nkeys > 1
                      /\ broken \/ got.code # "ok" \/ got.n < 2 * nkeys
  BY <1>2 DEF UnwrittenOnlyWhenMissing
<1> HIDE DEF m
<1>4. /\ Makes(m, "flat") \/ Makes(m, "pairs") \/ Makes(m, "multi")
      /\ SlotsRead(m, nkeys) > Len(vec)
  BY <1>3 DEF Result, m
<1>5. m = wrapper
  <2>1. CASE ~Makes(wrapper, "multi")  BY <2>1, ListKinds DEF m
  <2>2. CASE Makes(wrapper, "multi") /\ nkeys # 1  BY <2>2, ListKinds DEF m
  <2>3. CASE Makes(wrapper, "multi") /\ nkeys = 1
    BY <1>4, <2>3, OneKey, ListKinds DEF m
  <2> QED  BY <2>1, <2>2, <2>3
<1>6. CASE Makes(wrapper, "multi")
  <2>1. 2 * nkeys > Len(vec)  BY <1>4, <1>5, <1>6 DEF SlotsRead
  <2>2. nkeys # 1
    BY <1>4, <1>5, <1>6, OneKey, ListKinds DEF m
  <2>3. nkeys > 1  BY <1>1, <2>1, <2>2
  <2>4. ~(Len(vec) >= 2 * nkeys)  BY <1>1, <2>1
  <2> QED  BY <1>1, <1>6, <2>3, <2>4 DEF Filled
<1>7. CASE ~Makes(wrapper, "multi") /\ Makes(wrapper, "pairs")
  <2>1. 2 * ((Len(vec) + 1) \div 2) > Len(vec)  BY <1>4, <1>5, <1>7 DEF SlotsRead
  <2>2. Len(vec) % 2 = 0  BY <1>1, <1>7 DEF Filled
  <2> QED  BY <1>1, <2>1, <2>2
<1>8. CASE ~Makes(wrapper, "multi") /\ ~Makes(wrapper, "pairs")
  BY <1>1, <1>4, <1>5, <1>8 DEF SlotsRead
<1> QED  BY <1>6, <1>7, <1>8

LEMMA CompleteFills ==
  ASSUME LuaInv, SlotsInv, Complete
  PROVE  Filled'
<1>1. /\ stage = "called" /\ busy /\ method = Target(wrapper, nkeys)
      /\ nkeys \in Nat /\ answer \in Answers \cup {Null}
      /\ UNCHANGED <<wrapper, nkeys>> /\ Empty
  BY DEF Complete, Return, Chan!Reply, Chan!Fail, LuaInv, luaVars
<1>2. CASE Chan!Reply /\ Finish(answer)
  <2>1. Suits(answer)  BY <1>1, <1>2 DEF Chan!Reply, SlotsInv
  <2>2. got' = answer /\ Outputs(method, answer)  BY <1>2 DEF Finish
  <2>3. answer.n \in Nat /\ (Status(answer) = "ok" <=> answer.code = "ok")
    BY <1>1, StatusType, DbssAssumption DEF Answers, Null, Status
  <2>4. Reads(method, "list") =>
          Len(vec') = IF answer.code = "ok" THEN answer.n ELSE 0
    BY <2>2, <2>3 DEF Outputs, ReadList
  <2>5. Makes(wrapper, "pairs") => Len(vec') % 2 = 0
    <3> SUFFICES ASSUME Makes(wrapper, "pairs") PROVE Len(vec') % 2 = 0
      OBVIOUS
    <3>1. Reads(method, "list")  BY <1>1, ListKinds
    <3>2. answer.n % 2 = 0  BY <2>1 DEF Suits
    <3> QED  BY <2>4, <3>1, <3>2
  <2>6. Makes(wrapper, "multi") /\ nkeys > 1 =>
          got'.code # "ok" \/ got'.n < 2 * nkeys \/ Len(vec') >= 2 * nkeys
    <3> SUFFICES ASSUME Makes(wrapper, "multi"), nkeys > 1,
                        answer.code = "ok", ~(answer.n < 2 * nkeys)
                 PROVE  Len(vec') >= 2 * nkeys
      BY <2>2
    <3>1. nkeys # 1  BY <1>1
    <3>2. Reads(method, "list")  BY <1>1, <3>1, ListKinds
    <3> QED  BY <1>1, <2>3, <2>4, <3>2
  <2> QED  BY <1>1, <2>5, <2>6 DEF Filled
<1>3. CASE Chan!Fail /\ Finish(Null)
  <2>1. broken' = TRUE  BY <1>3 DEF Chan!Fail
  <2>2. Outputs(method, Null)  BY <1>3 DEF Finish
  <2>3. Len(vec') = 0
    <3>1. ReadList(Null) = <<>>  BY DEF ReadList, Status
    <3> QED  BY <1>1, <2>2, <3>1 DEF Outputs, Empty
  <2> QED  BY <1>1, <2>1, <2>3 DEF Filled
<1> QED  BY <1>2, <1>3 DEF Complete, Return

LEMMA SlotsInvStep ==
  LuaInv /\ SlotsInv /\ [LuaNext]_<<vars, luaVars>> => SlotsInv'
<1> SUFFICES ASSUME LuaInv, SlotsInv, [LuaNext]_<<vars, luaVars>> PROVE SlotsInv'
  OBVIOUS
<1>0. issued \in Nat /\ executed \in Nat /\ executed <= issued
  BY DEF LuaInv, SlotsInv
<1>1. ASSUME NEW w \in Wrappers, NEW n \in 0..MaxKeys, Begin(w, n) PROVE SlotsInv'
  BY <1>1 DEF Begin, chanVars, SlotsInv, UnwrittenOnlyWhenMissing, LuaReturned
<1>2. ASSUME Invoke PROVE SlotsInv'
  <2>1. /\ stage' = "called" /\ ~busy /\ Empty /\ UNCHANGED <<wrapper, nkeys>>
        /\ UnwrittenOnlyWhenMissing'
    BY <1>2 DEF Invoke, LuaInv, UnwrittenOnlyWhenMissing, LuaReturned
  <2>2. CASE Call(Target(wrapper, nkeys))
    <3>1. busy' /\ issued' = issued + 1 /\ executed' = executed
      BY <2>2 DEF Call, Chan!Call
    <3>2. executed' <= issued' /\ executed' # issued'  BY <1>0, <3>1
    <3> QED  BY <2>1, <3>1, <3>2 DEF SlotsInv
  <2>3. CASE CallUnconnected(Target(wrapper, nkeys))
    <3>1. ~alive' /\ UNCHANGED <<issued, executed, busy>>
      BY <2>3 DEF CallUnconnected, chanVars
    <3> QED  BY <1>0, <2>1, <3>1 DEF SlotsInv
  <2>4. CASE wrapper \in Optional /\ Throws(Target(wrapper, nkeys))
    <3>1. vec' = <<>> /\ UNCHANGED <<issued, executed, busy>>
      BY <2>4 DEF Throws, chanVars
    <3>2. ~Makes(wrapper, "multi")  BY <2>4, ListKinds
    <3>3. Filled'  BY <2>1, <3>1, <3>2 DEF Filled
    <3> QED  BY <1>0, <2>1, <3>1, <3>3 DEF SlotsInv
  <2> QED  BY <1>2, <2>2, <2>3, <2>4 DEF Invoke
<1>3. ASSUME NEW a \in Answers, Server(a) PROVE SlotsInv'
  <2>1. /\ executed < issued /\ executed' = executed + 1 /\ answer' = a /\ Suits(a)
        /\ UNCHANGED <<issued, busy, broken, alive, got, vec, stage, wrapper, nkeys, lua>>
    BY <1>3 DEF Server, Execute, Chan!Execute, outVars, luaVars, Suits
  <2>2. executed' <= issued'  BY <1>0, <2>1
  <2>3. Suits(answer)'  BY <2>1 DEF Suits
  <2>4. Filled => Filled'  BY <2>1 DEF Filled
  <2>5. UnwrittenOnlyWhenMissing'
    BY <2>1 DEF SlotsInv, UnwrittenOnlyWhenMissing, LuaReturned
  <2> QED  BY <2>1, <2>2, <2>3, <2>4, <2>5 DEF SlotsInv
<1>4. ASSUME Complete PROVE SlotsInv'
  <2>1. /\ busy /\ ~busy' /\ UNCHANGED <<issued, executed, alive, stage>>
    BY <1>4 DEF Complete, Return, Chan!Reply, Chan!Fail, Finish, luaVars
  <2>2. stage = "called"  BY <2>1 DEF LuaInv
  <2>3. Filled'  BY <1>4, CompleteFills
  <2> QED
    BY <1>0, <2>1, <2>2, <2>3 DEF SlotsInv, UnwrittenOnlyWhenMissing, LuaReturned
<1>5. ASSUME Convert PROVE SlotsInv'
  <2>1. stage' = "idle" /\ UNCHANGED <<issued, executed>>
    BY <1>5 DEF Convert, chanVars
  <2> QED  BY <1>0, <1>5, <2>1, ConvertReadsWritten DEF SlotsInv
<1>6. CASE UNCHANGED <<vars, luaVars>>
  <2>1. UNCHANGED <<issued, executed, busy, broken, alive, answer, got, vec, stage,
                    wrapper, nkeys, lua>>
    BY <1>6 DEF vars, chanVars, outVars, luaVars
  <2>2. Suits(answer) => Suits(answer)'  BY <2>1 DEF Suits
  <2>3. Filled => Filled'  BY <2>1 DEF Filled
  <2> QED
    BY <1>0, <2>1, <2>2, <2>3 DEF SlotsInv, UnwrittenOnlyWhenMissing, LuaReturned
<1> QED
  BY <1>1, <1>2, <1>3, <1>4, <1>5, <1>6 DEF LuaNext

(* However many calls fail and however late the server executes what it was *)
(* sent, a wrapper reads slots of the vector that nobody wrote only if it is *)
(* a multi_ wrapper whose answer lacks a key or never came (DB.lua:253-283,  *)
(* 482-512, 725-756).                                                        *)
THEOREM UnwrittenSlotsAreMissing == LuaSpec => []UnwrittenOnlyWhenMissing
<1>1. LuaInit => SlotsInv
  BY DEF LuaInit, Init, Chan!Init, SlotsInv, UnwrittenOnlyWhenMissing
<1>2. SlotsInv => UnwrittenOnlyWhenMissing
  BY DEF SlotsInv
<1> QED
  BY LuaInvInit, LuaInvStep, SlotsInvStep, <1>1, <1>2, PTL DEF LuaSpec
-----------------------------------------------------------------------------
LuaTypeInv == TypeInv /\ LuaTypeOK /\ (stage # "idle" => wrapper \in Wrappers)

LEMMA LuaTypeInit == LuaInit => LuaTypeInv
<1> SUFFICES ASSUME LuaInit PROVE LuaTypeInv
  OBVIOUS
<1>1. TypeInv  BY TypeInit DEF LuaInit
<1>2. lua = [int |-> 0, values |-> <<>>, unwritten |-> FALSE]
      /\ stage = "idle" /\ wrapper = "none" /\ nkeys = 0
  BY DEF LuaInit
<1>3. /\ lua.int \in {-1, 0, 1} /\ lua.unwritten \in BOOLEAN
      /\ Len(lua.values) <= MaxValues
      /\ \A i \in 1..Len(lua.values) : lua.values[i] \in 0..issued
  BY <1>2, DbssAssumption DEF DbssAssumption
<1> QED
  BY <1>1, <1>2, <1>3, LuaAssumption DEF LuaAssumption, LuaTypeInv, LuaTypeOK, TypeInv

\* A result has no more values than a reply, and none from a later call.
LEMMA ResultType ==
  ASSUME TypeInv, nkeys \in Nat
  PROVE  /\ Result.int \in {-1, 0, 1} /\ Result.unwritten \in BOOLEAN
         /\ Len(Result.values) <= MaxValues
         /\ \A i \in 1..Len(Result.values) : Result.values[i] \in 0..issued
<1> DEFINE m == Target(wrapper, nkeys)
           read == SlotsRead(m, nkeys)
           filled == IF read < Len(vec) THEN read ELSE Len(vec)
<1>1. /\ Len(vec) \in Nat /\ Len(vec) <= MaxValues /\ 1 <= MaxValues
      /\ \A i \in 1..Len(vec) : vec[i] \in 0..issued
      /\ num \in 0..issued /\ str \in 0..issued /\ ret \in {-1, 0, 1}
  <2>1. /\ vec \in Seq(Nat) /\ Len(vec) <= MaxValues
        /\ \A i \in 1..Len(vec) : vec[i] \in 1..issued
        /\ num \in 0..issued /\ str \in 0..issued /\ ret \in {-1, 0, 1}
    BY DEF TypeInv, TypeOK
  <2>2. issued \in Nat
    BY DbssAssumption DEF DbssAssumption, TypeInv, TypeOK, Chan!TypeOK
  <2>3. 1 <= MaxValues
    BY DbssAssumption, LuaAssumption DEF DbssAssumption, LuaAssumption
  <2> QED
    BY <2>1, <2>2, <2>3
<1>2. read \in Nat
  <2>1. 2 * nkeys \in Nat /\ 2 * ((Len(vec) + 1) \div 2) \in Nat
    BY <1>1
  <2> QED
    BY <1>1, <2>1 DEF SlotsRead
<1>3. filled \in Nat /\ filled <= Len(vec)
  BY <1>1, <1>2
<1> HIDE DEF m, read, filled
<1>4. Result.int = IF Makes(m, "int") THEN ret ELSE 0
  BY DEF Result, m
<1>5. Result.values = IF Makes(m, "cell") THEN <<num>>
                      ELSE IF Makes(m, "str") THEN <<str>>
                      ELSE [i \in 1..filled |-> vec[i]]
  BY DEF Result, m, read, filled
<1>6. Result.unwritten \in BOOLEAN
  BY DEF Result
<1>7. CASE Makes(m, "cell")
  BY <1>1, <1>4, <1>5, <1>6, <1>7
<1>8. CASE ~Makes(m, "cell") /\ Makes(m, "str")
  BY <1>1, <1>4, <1>5, <1>6, <1>8
<1>9. CASE ~Makes(m, "cell") /\ ~Makes(m, "str")
  <2>1. Result.values = [i \in 1..filled |-> vec[i]]
    BY <1>5, <1>9
  <2>2. Len(Result.values) = filled
    BY <1>3, <2>1
  <2>3. filled <= MaxValues
    BY <1>1, <1>3, DbssAssumption DEF DbssAssumption
  <2>4. \A i \in 1..filled : Result.values[i] = vec[i] /\ i \in 1..Len(vec)
    BY <1>1, <1>3, <2>1
  <2> QED
    BY <1>1, <1>4, <1>6, <2>2, <2>3, <2>4
<1> QED
  BY <1>7, <1>8, <1>9

LEMMA LuaTypeStep == LuaTypeInv /\ [LuaNext]_<<vars, luaVars>> => LuaTypeInv'
<1> SUFFICES ASSUME LuaTypeInv, [LuaNext]_<<vars, luaVars>> PROVE LuaTypeInv'
  OBVIOUS
<1>0. /\ TypeInv /\ LuaTypeOK /\ issued \in Nat /\ MaxKeys \in Nat /\ nkeys \in Nat
      /\ vec \in Seq(Nat)
  BY DbssAssumption, LuaAssumption
  DEF DbssAssumption, LuaAssumption, LuaTypeInv, LuaTypeOK, TypeInv, TypeOK, Chan!TypeOK
\* The result stays one of this or an earlier call.
<1>1. ASSUME UNCHANGED lua, issued' = issued \/ issued' = issued + 1
      PROVE  /\ lua'.int \in {-1, 0, 1} /\ lua'.unwritten \in BOOLEAN
             /\ Len(lua'.values) <= MaxValues
             /\ \A i \in 1..Len(lua'.values) : lua'.values[i] \in 0..issued'
  BY <1>0, <1>1 DEF LuaTypeOK
<1>2. ASSUME NEW w \in Wrappers, NEW n \in 0..MaxKeys, Begin(w, n) PROVE LuaTypeInv'
  <2>1. /\ num' = 0 /\ str' = 0 /\ vec' = <<>>
        /\ UNCHANGED <<issued, executed, busy, broken, result, link, alive, answer, s,
                       method, requested, ret, got, lua>>
        /\ stage' = "begun" /\ wrapper' = w /\ nkeys' = n
    BY <1>2 DEF Begin, chanVars
  <2>2. TypeInv'
    <3>1. Chan!TypeOK'  BY <2>1 DEF TypeInv, TypeOK, Chan!TypeOK, LuaTypeInv
    <3>2. /\ num' \in 0..issued' /\ str' \in 0..issued' /\ vec' \in Seq(Nat)
          /\ Len(vec') <= MaxValues /\ \A i \in 1..Len(vec') : vec'[i] \in 1..issued'
      BY <1>0, <2>1, DbssAssumption DEF DbssAssumption
    <3> QED
      BY <1>0, <2>1, <3>1, <3>2 DEF TypeInv, TypeOK
  <2> QED
    BY <1>1, <2>1, <2>2 DEF LuaTypeInv, LuaTypeOK, TypeInv
<1>3. ASSUME Invoke PROVE LuaTypeInv'
  <2> DEFINE m == Target(wrapper, nkeys)
  <2>1. stage' = "called" /\ UNCHANGED <<wrapper, nkeys, lua>>
    BY <1>3 DEF Invoke
  <2>2. wrapper \in Wrappers /\ m \in Methods
    BY <1>0, <1>3, LuaAssumption DEF LuaAssumption, LuaTypeOK, LuaTypeInv, Invoke
  <2> HIDE DEF m
  <2>5. CASE m \in Methods /\ (Call(m) \/ CallUnconnected(m))
    <3>1. TypeInv'
      BY <1>0, <2>5, TypeStep DEF Next
    <3>2. issued' = issued \/ issued' = issued + 1
      BY <2>5 DEF Call, CallUnconnected, Chan!Call, chanVars
    <3> QED
      BY <1>0, <1>1, <2>1, <2>2, <3>1, <3>2 DEF LuaTypeInv, LuaTypeOK, TypeInv
  <2>6. CASE m \in Methods /\ Throws(m)
    <3>1. TypeInv'
      BY <1>0, <2>6, ThrowsType
    <3>2. issued' = issued
      BY <2>6 DEF Throws, chanVars
    <3> QED
      BY <1>0, <1>1, <2>1, <2>2, <3>1, <3>2 DEF LuaTypeInv, LuaTypeOK, TypeInv
  <2> QED
    BY <1>0, <1>3, <2>2, <2>5, <2>6 DEF Invoke, m
<1>4. ASSUME NEW a \in Answers, Server(a) PROVE LuaTypeInv'
  <2>1. TypeInv'
    BY <1>0, <1>4, TypeStep DEF Server, Next
  <2>2. issued' = issued /\ UNCHANGED luaVars
    BY <1>4 DEF Server, Execute, Chan!Execute
  <2> QED
    BY <1>0, <1>1, <2>1, <2>2 DEF luaVars, LuaTypeInv, LuaTypeOK, TypeInv
<1>5. ASSUME Complete PROVE LuaTypeInv'
  <2>1. TypeInv'
    BY <1>0, <1>5, TypeStep DEF Complete, Next
  <2>2. issued' = issued /\ UNCHANGED luaVars
    BY <1>5 DEF Complete, Return, Chan!Reply, Chan!Fail
  <2> QED
    BY <1>0, <1>1, <2>1, <2>2 DEF luaVars, LuaTypeInv, LuaTypeOK, TypeInv
<1>6. ASSUME Convert PROVE LuaTypeInv'
  <2>1. /\ UNCHANGED <<issued, executed, busy, broken, result, link, answer, s, method,
                       requested, ret, got, num, str, vec, wrapper, nkeys>>
        /\ stage' = "idle" /\ lua' = Result /\ alive' \in BOOLEAN
    BY <1>6 DEF Convert, chanVars, outVars
  <2>2. TypeInv'
    BY <1>0, <2>1 DEF TypeInv, TypeOK, Chan!TypeOK
  <2>3. /\ lua'.int \in {-1, 0, 1} /\ lua'.unwritten \in BOOLEAN
        /\ Len(lua'.values) <= MaxValues
        /\ \A i \in 1..Len(lua'.values) : lua'.values[i] \in 0..issued'
    BY <1>0, <2>1, ResultType
  <2> QED
    BY <1>0, <2>1, <2>2, <2>3 DEF LuaTypeInv, LuaTypeOK, TypeInv
<1>7. CASE UNCHANGED <<vars, luaVars>>
  <2>1. TypeInv'
    BY <1>0, <1>7, TypeStep
  <2>2. UNCHANGED <<issued, stage, wrapper, nkeys, lua>>
    BY <1>7 DEF vars, chanVars, luaVars
  <2> QED
    BY <1>0, <1>1, <2>1, <2>2 DEF LuaTypeInv, LuaTypeOK, TypeInv
<1> QED
  BY <1>2, <1>3, <1>4, <1>5, <1>6, <1>7 DEF LuaNext

(* A wrapper's result is an int, or values no more than a reply holds, and  *)
(* none of them is from a call that has not been made (DB.lua:105-795).     *)
THEOREM LuaTypeCorrect == LuaSpec => []LuaTypeOK
<1>1. LuaTypeInv => LuaTypeOK
  BY DEF LuaTypeInv
<1> QED
  BY LuaTypeInit, LuaTypeStep, <1>1, PTL DEF LuaSpec
=============================================================================
