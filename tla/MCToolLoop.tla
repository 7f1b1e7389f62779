----------------------------- MODULE MCToolLoop ------------------------------
(***************************************************************************)
(* A small instance of ToolLoop: the three caps are each reached first by  *)
(* some conversation, and calls are cheap or dearer than what is left.     *)
(***************************************************************************)
EXTENDS ToolLoop

MCCallCaps == {3, 5}

MCCallCosts == {1, 3}

MCGrowth == {0, 2}

==============================================================================
