------------------------------ MODULE MCDatabase ------------------------------
(* Database, and the chunker over every small text, window and overlap.  The   *)
(* chunker keeps no state, so it is tried while the database is empty.         *)
EXTENDS Database

MCInit == Init /\ ChunkInit

MCNext ==
    \/ Next /\ ChunkInit /\ UNCHANGED given
    \/ GiveText /\ commands = 0 /\ UNCHANGED vars

MCSpec == MCInit /\ [][MCNext]_<<vars, given>>

=============================================================================
