------------------------------ MODULE MCAccess ------------------------------
(***************************************************************************)
(* Two agents that can be wired to a chat.                                 *)
(***************************************************************************)
EXTENDS Access

MCOrder == <<"first", "second">>
MCWirings ==
  {Unwired,
   [engage |-> "always",  scope |-> "all", ignored |-> "drop"],
   [engage |-> "mention", scope |-> "known", ignored |-> "accumulate"]}
=============================================================================
