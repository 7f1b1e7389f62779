--------------------------- MODULE MCEventDispatch ---------------------------
(***************************************************************************)
(* EventDispatch on small instances.                                       *)
(***************************************************************************)
EXTENDS EventDispatch

\* The processes are alike, so that it does not matter which one has the subscribers.
MCServer == [s \in Subscribers |-> "p1"]

==============================================================================
