------------------------------- MODULE Channel ------------------------------
(***************************************************************************)
(* What a caller of ClientImpl::request may rely on, without buffers, byte *)
(* streams or sockets: calls are made one at a time, each is executed by   *)
(* the server at most once and in the order of the calls, and a call that  *)
(* returns a reply returns the reply to itself.  A call may fail at any    *)
(* moment, executed or not, and then the channel is broken for good.       *)
(***************************************************************************)
EXTENDS Naturals

CONSTANT MaxIssued       \* bound: calls made on the channel

VARIABLES issued,        \* calls made
          executed,      \* calls the server has executed
          busy,          \* a call is in progress
          broken,        \* some call has failed
          result         \* the last value returned

vars == <<issued, executed, busy, broken, result>>

Init == /\ issued = 0 /\ executed = 0 /\ busy = FALSE /\ broken = FALSE
        /\ result = [req |-> 0, reply |-> 0]

Call == /\ ~busy /\ issued < MaxIssued
        /\ busy' = TRUE /\ issued' = issued + 1
        /\ UNCHANGED <<executed, broken, result>>

Execute == /\ executed < issued
           /\ executed' = executed + 1
           /\ UNCHANGED <<issued, busy, broken, result>>

Reply == /\ busy /\ ~broken /\ executed = issued
         /\ busy' = FALSE
         /\ result' = [req |-> issued, reply |-> issued]
         /\ UNCHANGED <<issued, executed, broken>>

Fail == /\ busy
        /\ busy' = FALSE /\ broken' = TRUE
        /\ result' = [req |-> issued, reply |-> 0]
        /\ UNCHANGED <<issued, executed>>

Next == Call \/ Execute \/ Reply \/ Fail

Spec == Init /\ [][Next]_vars

TypeOK == /\ issued \in 0..MaxIssued /\ executed \in 0..issued
          /\ busy \in BOOLEAN /\ broken \in BOOLEAN
          /\ result \in [req : 0..issued, reply : 0..issued]
=============================================================================
