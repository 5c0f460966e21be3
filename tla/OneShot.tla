------------------------------- MODULE OneShot -------------------------------
(***************************************************************************)
(* The contract between FileManager and a loader or saver: one call of     *)
(* LoadASync (SaveASync) gets one answer, and never a second one.  The     *)
(* answer is the call of handle_read (handle_write), or the exception the  *)
(* call itself leaves by.  FileManager's counter is exact because of it;   *)
(* the devices are checked against it.                                     *)
(***************************************************************************)
CONSTANT Answers   \* what a call can be answered with

VARIABLE answers   \* the answers given so far, oldest first

Init == answers = << >>

Answer(a) == answers = << >> /\ answers' = <<a>>

Next == \E a \in Answers : Answer(a)

Spec == Init /\ [][Next]_answers
=============================================================================
