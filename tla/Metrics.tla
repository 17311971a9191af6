------------------------------- MODULE Metrics -------------------------------
(***************************************************************************)
(* The Prometheus file the monitor publishes (internal/monitor).  Several  *)
(* monitors, of the same or of different configuration files, share one    *)
(* output path.  Each writes a temporary file next to it and renames it    *)
(* into place.                                                             *)
(*                                                                         *)
(* A report is what one monitor collected: by whom, when, whether every    *)
(* query succeeded (MonitorSuccess), and for each filesystem the data its  *)
(* newest snapshot holds (LastSnapTimestamp; 0 when it has none).          *)
(***************************************************************************)
EXTENDS Naturals

CONSTANTS
    Proc,       \* invocations of zfsbackup, in the order of nothing in particular
    Nobody      \* not one of them

VARIABLES
    temp,       \* temporary files by name: NoFile, Unwritten, or a report
    published   \* the content of the output path, likewise

metricsVars == <<temp, published>>

NoFile    == [by |-> Nobody]
Unwritten == [by |-> Nobody, unwritten |-> TRUE]

MetricsInit ==
    /\ temp = [p \in Proc |-> NoFile]
    /\ published = NoFile

\* Faulty: one fixed name, <output>.tmp.
FixedName(p) == CHOOSE q \in Proc : TRUE

\* os.CreateTemp makes a name no other process uses; it is p's own name here.
TempName(p) == p

\* os.CreateTemp: an empty file, which stays so until it is written.
CreateTemp(p) ==
    /\ temp' = [temp EXCEPT ![TempName(p)] = Unwritten]
    /\ UNCHANGED published

\* WriteString and Close.
WriteTemp(p, report) ==
    /\ temp' = [temp EXCEPT ![TempName(p)] = report]
    /\ UNCHANGED published

\* os.Rename replaces what was published; the deferred os.Remove finds nothing.
Rename(p) ==
    /\ published' = temp[TempName(p)]
    /\ temp' = [temp EXCEPT ![TempName(p)] = NoFile]

\* An error after CreateTemp: the deferred os.Remove.
RemoveTemp(p) ==
    /\ temp' = [temp EXCEPT ![TempName(p)] = NoFile]
    /\ UNCHANGED published
=============================================================================
