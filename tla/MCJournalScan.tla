---------------------------- MODULE MCJournalScan ----------------------------
(* The instance of JournalScan that TLC checks.                            *)
EXTENDS JournalScan
=============================================================================
