------------------------------ MODULE MCBoards ------------------------------
(* The instance of Boards that TLC checks.                                 *)
EXTENDS Boards
=============================================================================
