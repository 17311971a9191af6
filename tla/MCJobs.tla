------------------------------- MODULE MCJobs -------------------------------
(***************************************************************************)
(* Two invocations of one configuration path for TLC: `zfsbackup run` with *)
(* every module, and another with a snapshot and a monitor section.  The   *)
(* file may be replaced before either opens it, and then the two hold      *)
(* locks on different files, as jobs with files of their own do.           *)
(***************************************************************************)
EXTENDS Jobs

CONSTANTS p1, p2, a

OnePath == [p \in Proc |-> a]
TwoJobs == [p \in Proc |-> IF p = p1 THEN Modules ELSE {"snapshot", "monitor"}]
ReplacedOnce == [c \in Conf |-> 1]

\* Each filesystem in a pool of its own.
OwnPools == [f \in Fs |-> f]
=============================================================================
