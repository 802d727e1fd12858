----------------------------- MODULE MCLuaClient ----------------------------
(* All the wrappers, with up to two keys for those that take several.      *)
EXTENDS LuaClient

AllMethods ==
  UNION { UNION {f[kind] : kind \in {"status", "int64", "str", "list"}} :
            f \in {KvCommands, HashCommands, ZsetCommands, QueueCommands} }
=============================================================================
