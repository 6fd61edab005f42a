------------------------- MODULE MCChildSupervisor -------------------------
(* Two looks before SIGKILL, every kind of descendant, and for doctor one    *)
(* required and one optional probe.                                          *)
EXTENDS ChildSupervisor

AllKinds == {"killable", "foreign", "stray"}
RequiredThenOptional == <<TRUE, FALSE>>
=============================================================================
