------------------------------- MODULE MCDbss -------------------------------
(* All the methods, and for the longer runs one of each kind and return    *)
(* convention.                                                             *)
EXTENDS Dbss

AllMethods ==
  UNION { UNION {f[kind] : kind \in {"status", "int64", "str", "list"}} :
            f \in {KvCommands, HashCommands, ZsetCommands, QueueCommands} }

OneOfEachKind ==
  {"set", "del", "multi_set", "incr", "get", "hget", "keys", "multi_get"}
=============================================================================
