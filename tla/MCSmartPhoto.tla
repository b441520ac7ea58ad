---------------------------- MODULE MCSmartPhoto ----------------------------
(* Instances of SmartPhoto for TLC. *)
EXTENDS SmartPhoto, TLC

CONSTANTS n1, n2

\* Every name is canonical.
RealpathId == [n \in Name |-> n]

\* Every call that changes the database or the scan; a directory of one file stands for
\* ccai_sp_add_file, which PhotoLive has.
ServiceCalls == {"add_dir", "remove_file", "remove_all_file", "move_file",
                 "scan_file_buffer", "scan", "stop_scan", "wait_scan", "release"}

\* A client that adds, scans and awaits the end of the scan.
WaitCalls == {"add_file", "scan", "wait_scan"}

\* Scan threads are interchangeable.
ThreadSymmetry == Permutations(Thread)
=============================================================================
