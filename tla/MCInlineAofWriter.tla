-------------------------- MODULE MCInlineAofWriter --------------------------
(* Frames of one to three units over a buffer of two. *)
EXTENDS InlineAofWriter

AllPolicies == {"no", "everysec", "always"}
EverySec    == {"everysec"}
Always      == {"always"}
AllSizes    == {1, 2, 3}
SmallSizes  == {1}
=============================================================================
