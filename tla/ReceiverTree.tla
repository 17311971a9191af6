---------------------------- MODULE ReceiverTree ----------------------------
(***************************************************************************)
(* A tree of filesystems sent to one destination.  The sender handles      *)
(* several filesystems at once, in an order that lists parents before      *)
(* children; each receiver makes sure that the parent of its dataset       *)
(* exists, creating what is missing, before it receives.  The receivers    *)
(* share nothing but the destination's datasets.                           *)
(*                                                                         *)
(* Each filesystem has at most one snapshot to send, so its stream is a    *)
(* full one: the tree matters only until every dataset exists.             *)
(***************************************************************************)
EXTENDS Naturals, FiniteSets

CONSTANTS
    Node,           \* datasets below the base dataset
    Base,           \* the base dataset; it exists and is not encrypted
    Parent,         \* of each node, a node or Base
    Position,       \* of each node in the list of all, sorted by name
    Include,        \* the configured roots
    Exclude,        \* nodes left out with all below them
    NoSnaps,        \* nodes without a snapshot that matches snapshot_re
    Encrypted,      \* nodes that are encrypted and sent raw
    ForceOverwrite, \* force_overwrite_datasets of the receiver
    Parallelisms,   \* the values --parallelism may have
    MaxFaults       \* transfers that break, queries that fail

\* The nodes on the way from n up to the base, n included.
Lineage[n \in Node] == {n} \union (IF Parent[n] = Base THEN {} ELSE Lineage[Parent[n]])

ASSUME TreeAssumption ==
    /\ Base \notin Node
    /\ Parent \in [Node -> Node \union {Base}]
    /\ Encrypted \subseteq Node
    /\ NoSnaps \subseteq Node
    /\ Include \subseteq Node
    /\ ForceOverwrite \subseteq Node

\* A name sorts after each of its prefixes.
ASSUME OrderAssumption ==
    /\ IsFiniteSet(Node)
    /\ Position \in [Node -> 1 .. Cardinality(Node)]
    /\ \A m, n \in Node : Position[m] = Position[n] => m = n
    /\ \A n \in Node : Parent[n] # Base => Position[Parent[n]] < Position[n]

ASSUME TreeBoundsAssumption == Parallelisms \subseteq Nat \ {0} /\ MaxFaults \in Nat

VARIABLES
    dest,       \* the datasets of the destination, see DestState
    running,    \* whether a run of the sender is in progress
    queue,      \* the filesystems this run has not started with; a list in
                \* the order of Position
    pc,         \* where the goroutine of each filesystem is
    at,         \* the dataset whose parent checkParent looks at
    par,        \* --parallelism
    first,      \* the first run has not ended
    faults

treeVars == <<dest, running, queue, pc, at, par, first, faults>>

\* "empty": created by checkParent, without a snapshot.  "partial": with a
\* resume token.
DestState == {"absent", "empty", "receiving", "partial", "received"}
PC == {"idle", "ask", "climb", "create", "make", "verify", "stream", "done"}

TypeOK ==
    /\ dest \in [Node -> DestState]
    /\ running \in BOOLEAN
    /\ queue \in SUBSET Node
    /\ pc \in [Node -> PC]
    /\ at \in [Node -> Node]
    /\ par \in Parallelisms
    /\ first \in BOOLEAN
    /\ faults \in 0 .. MaxFaults

Init ==
    /\ dest = [n \in Node |-> "absent"]
    /\ running = FALSE
    /\ queue = {}
    /\ pc = [n \in Node |-> "idle"]
    /\ at = [n \in Node |-> n]
    /\ par \in Parallelisms
    /\ first = TRUE
    /\ faults = 0

Exists(n) == n = Base \/ dest[n] # "absent"

\* The encryption property of a dataset is other than "off".
IsEncrypted(n) == n \in Encrypted /\ dest[n] \in {"receiving", "partial", "received"}

Active == {f \in Node : pc[f] \notin {"idle", "done"}}

-----------------------------------------------------------------------------
(* The sender                                                              *)

\* The filesystems found below the given roots, sorted, each once.
ExpandFsToProcess(roots) ==
    {f \in Node : Lineage[f] \intersect roots # {} /\ Lineage[f] \intersect Exclude = {}}

\* A root that cannot be listed does not keep the others from being processed.
StartRun ==
    /\ ~running
    /\ \E failed \in SUBSET Include :
        /\ faults + Cardinality(failed) <= MaxFaults
        /\ faults' = faults + Cardinality(failed)
        /\ queue' = ExpandFsToProcess(Include \ failed)
    /\ running' = TRUE
    /\ UNCHANGED <<dest, pc, at, par, first>>

\* Faulty: whichever filesystem comes first.
StartAny ==
    /\ running
    /\ Cardinality(Active) < par
    /\ \E f \in queue : pc' = [pc EXCEPT ![f] = "ask"] /\ queue' = queue \ {f}
    /\ UNCHANGED <<dest, running, at, par, first, faults>>

\* The loop waits for the semaphore, then starts the next goroutine.
StartFs ==
    /\ running
    /\ Cardinality(Active) < par
    /\ \E f \in queue :
        /\ \A g \in queue : Position[f] <= Position[g]
        /\ pc' = [pc EXCEPT ![f] = "ask"]
        /\ queue' = queue \ {f}
    /\ UNCHANGED <<dest, running, at, par, first, faults>>

\* wg.Wait
EndRun ==
    /\ running
    /\ queue = {}
    /\ Active = {}
    /\ running' = FALSE
    /\ first' = FALSE
    /\ pc' = [n \in Node |-> "idle"]
    /\ UNCHANGED <<dest, queue, at, par, faults>>

\* A goroutine ends, with an error or without.
Leave(f) == pc' = [pc EXCEPT ![f] = "done"]

\* Faulty: a resume token does not count.
NoBaseOrToken(f) == dest[f] \in {"empty", "partial"} /\ f \notin ForceOverwrite

\* A dataset without a snapshot and without a token is no base for anything.
NoCommonBase(f) == dest[f] = "empty" /\ f \notin ForceOverwrite

\* ProcessFs up to the plan: nothing to send, refused, or a stream to send.
Ask(f) ==
    /\ pc[f] = "ask"
    /\ IF f \in NoSnaps \/ dest[f] = "received" \/ NoCommonBase(f)
       THEN Leave(f) /\ UNCHANGED at
       ELSE /\ pc' = [pc EXCEPT ![f] = "climb"]
            /\ at' = [at EXCEPT ![f] = f]
    /\ UNCHANGED <<dest, running, queue, par, first, faults>>

-----------------------------------------------------------------------------
(* The receiver: checkParent and zfs receive                               *)

\* The dataset after n on the way down to f.
Towards(f, n) == CHOOSE m \in Lineage[f] : Parent[m] = n

\* Faulty: asks for the dataset instead of its parent, and climbs too far.
ClimbTooFar(f) ==
    /\ pc[f] = "climb"
    /\ IF Exists(at[f])
       THEN pc' = [pc EXCEPT ![f] = "create"] /\ UNCHANGED at
       ELSE at' = [at EXCEPT ![f] = Parent[@]] /\ UNCHANGED pc
    /\ UNCHANGED <<dest, running, queue, par, first, faults>>

\* checkParent asks upwards until a parent exists.
Climb(f) ==
    /\ pc[f] = "climb"
    /\ IF Exists(Parent[at[f]])
       THEN pc' = [pc EXCEPT ![f] = "create"] /\ UNCHANGED at
       ELSE at' = [at EXCEPT ![f] = Parent[@]] /\ UNCHANGED pc
    /\ UNCHANGED <<dest, running, queue, par, first, faults>>

\* Faulty: whether the parent is encrypted is not asked.
CreatesAnyway(n) == ~Exists(Parent[n])

\* createNotIfEncrypted refuses, or cannot tell: nothing unencrypted is
\* created below an encrypted dataset.  The base is asked about as well; an
\* encrypted one would have everything refused that is missing right below it.
RefusesToCreate(n) ==
    \/ ~Exists(Parent[n])
    \/ Parent[n] # Base /\ IsEncrypted(Parent[n])

\* On the way back each missing parent is created: createNotIfEncrypted asks
\* for the encryption of the dataset above it.
CheckEncryption(f) ==
    /\ pc[f] = "create"
    /\ at[f] # f
    /\ pc' = [pc EXCEPT ![f] = IF RefusesToCreate(at[f]) THEN "verify" ELSE "make"]
    /\ UNCHANGED <<dest, running, queue, at, par, first, faults>>

\* Faulty: an error of zfs create is final, also when the dataset exists.
CreateOnce(f) ==
    /\ pc[f] = "make"
    /\ dest' = IF Exists(at[f]) \/ ~Exists(Parent[at[f]]) THEN dest
               ELSE [dest EXCEPT ![at[f]] = "empty"]
    /\ IF dest' = dest THEN Leave(f) ELSE pc' = [pc EXCEPT ![f] = "verify"]
    /\ UNCHANGED <<running, queue, at, par, first, faults>>

\* zfs create, which fails when the dataset is there by now.
ZfsCreate(f) ==
    /\ pc[f] = "make"
    /\ dest' = IF Exists(at[f]) \/ ~Exists(Parent[at[f]]) THEN dest
               ELSE [dest EXCEPT ![at[f]] = "empty"]
    /\ pc' = [pc EXCEPT ![f] = "verify"]
    /\ UNCHANGED <<running, queue, at, par, first, faults>>

\* Either of the two commands fails.
CreationFails(f) ==
    /\ \/ pc[f] = "create" /\ at[f] # f
       \/ pc[f] = "make"
    /\ faults < MaxFaults
    /\ faults' = faults + 1
    /\ pc' = [pc EXCEPT ![f] = "verify"]
    /\ UNCHANGED <<dest, running, queue, at, par, first>>

\* Whatever came of it, checkParent asks again whether the dataset exists.
\* Another receiver may have created it; that is as good.
Created(f) ==
    /\ pc[f] = "verify"
    /\ IF Exists(at[f])
       THEN pc' = [pc EXCEPT ![f] = "create"] /\ at' = [at EXCEPT ![f] = Towards(f, @)]
       ELSE Leave(f) /\ UNCHANGED at
    /\ UNCHANGED <<dest, running, queue, par, first, faults>>

\* zfs receive takes a full stream where no dataset is, below one that exists;
\* with -F also over a dataset, unless that would encrypt it.
Receivable(f) ==
    /\ Exists(Parent[f])
    /\ \/ dest[f] \in {"absent", "partial"}
       \/ dest[f] = "empty" /\ f \in ForceOverwrite \ Encrypted

BeginReceive(f) ==
    /\ pc[f] = "create"
    /\ at[f] = f
    /\ IF Receivable(f)
       THEN dest' = [dest EXCEPT ![f] = "receiving"] /\ pc' = [pc EXCEPT ![f] = "stream"]
       ELSE Leave(f) /\ UNCHANGED dest
    /\ UNCHANGED <<running, queue, at, par, first, faults>>

FinishReceive(f) ==
    /\ pc[f] = "stream"
    /\ dest' = [dest EXCEPT ![f] = "received"]
    /\ Leave(f)
    /\ UNCHANGED <<running, queue, at, par, first, faults>>

\* The transfer breaks: zfs receive -s keeps what has arrived, unless nothing
\* has and nothing lies below.
BreakReceive(f) ==
    /\ pc[f] = "stream"
    /\ faults < MaxFaults
    /\ faults' = faults + 1
    /\ \/ dest' = [dest EXCEPT ![f] = "partial"]
       \/ /\ \A n \in Node : Parent[n] = f => dest[n] = "absent"
          /\ dest' = [dest EXCEPT ![f] = "absent"]
    /\ Leave(f)
    /\ UNCHANGED <<running, queue, at, par, first>>

\* A command before the stream fails; what was created stays.
VisitFails(f) ==
    /\ pc[f] \in {"ask", "climb", "create", "make", "verify"}
    /\ faults < MaxFaults
    /\ faults' = faults + 1
    /\ Leave(f)
    /\ UNCHANGED <<dest, running, queue, at, par, first>>

-----------------------------------------------------------------------------

SenderStep == StartRun \/ StartFs \/ EndRun

ReceiverStep(f) ==
    \/ Ask(f) \/ Climb(f)
    \/ CheckEncryption(f) \/ ZfsCreate(f) \/ Created(f)
    \/ BeginReceive(f) \/ FinishReceive(f)

Next ==
    \/ SenderStep
    \/ \E f \in Node : ReceiverStep(f) \/ BreakReceive(f) \/ CreationFails(f) \/ VisitFails(f)

Spec == Init /\ [][Next]_treeVars

\* The timer starts the sender again and again; each goroutine goes on.
FairSpec ==
    /\ Spec
    /\ WF_treeVars(SenderStep)
    /\ \A f \in Node : WF_treeVars(ReceiverStep(f))

-----------------------------------------------------------------------------
(* Properties                                                              *)

\* The filesystems the configuration selects and that have something to send.
Sent == {f \in Node : /\ Lineage[f] \intersect Include # {}
                      /\ Lineage[f] \intersect Exclude = {}
                      /\ f \notin NoSnaps}

Above(f) == Lineage[f] \ {f}
IsLeaf(f) == \A n \in Node : f \notin Above(n)

\* No receiver is asked to create a dataset below an encrypted one for f.
Placeable(f) ==
    \A n \in Above(f) : n \notin Sent => Above(n) \intersect Encrypted = {}

\* checkParent never leaves an unencrypted dataset below an encrypted one,
\* whatever receivers run at the same time.
NothingPlainBelowEncrypted ==
    \A n \in Node : dest[n] = "empty" /\ Parent[n] # Base => ~IsEncrypted(Parent[n])

\* What an encrypted stream can never be received into.
StaysPlain(n) == n \in Encrypted => dest[n] = "empty"

\* Why that is so: a dataset lies below one that exists, only the receiver of a
\* stream changes its dataset, and what was found unencrypted above the one to
\* be created cannot become encrypted before it is.  Proved by induction in
\* ReceiverTreeProofs.
TreeInv ==
    /\ dest \in [Node -> DestState]
    /\ pc \in [Node -> PC]
    /\ DOMAIN at = Node
    /\ NothingPlainBelowEncrypted
    /\ \A n \in Node : Exists(n) => Exists(Parent[n])
    /\ \A f \in Node : pc[f] = "stream" => dest[f] = "receiving"
    /\ \A f \in Node : pc[f] = "make" => StaysPlain(Parent[at[f]])

\* Nobody needs to create anything below an encrypted dataset for f, not even
\* a dataset that is sent itself and may be late.
Unhindered(f) == \A n \in Above(f) : Above(n) \intersect Encrypted = {}

\* What the first run delivers if nothing fails: one at a time, everything;
\* several at a time, what nobody else may create or refuse to create.
DeliveredFirst(f) ==
    \/ par = 1 /\ Placeable(f)
    \/ IsLeaf(f) /\ Unhindered(f)

\* Two receivers that create the same parent do not fail each other, and one
\* at a time nobody is in a parent's way: without a failure the first run
\* delivers every leaf that is not below two encrypted levels, and with
\* parallelism 1 every filesystem.
FirstRunDelivers ==
    faults = 0 /\ ~first => \A f \in Sent : DeliveredFirst(f) => dest[f] = "received"

\* Why that is so, in four parts proved in ReceiverTreeProofs.  A receiver only
\* climbs towards the base, and what it creates lies above its own dataset.
WayInv ==
    \A f \in Node :
        /\ pc[f] \in {"climb", "create", "make", "verify"} => at[f] \in Lineage[f]
        /\ pc[f] \in {"make", "verify"} => at[f] # f

\* The list is worked off in its order, with parallelism 1 one by one.
RunInv ==
    /\ ~running => queue = {} /\ \A f \in Node : pc[f] = "idle"
    /\ \A f \in Node, g \in queue : pc[f] # "idle" => Position[f] < Position[g]
    /\ par = 1 => \A f, g \in Active : f = g

\* What one receiver has found or made, no other takes away.
FoundInv == \A f \in Node : pc[f] \in {"create", "make"} => Exists(Parent[at[f]])

\* Where a filesystem can be in the first run: nobody has created its dataset
\* before it is received.
OnItsWay(f) ==
    \/ dest[f] = "received"
    \/ /\ dest[f] = "absent"
       /\ first
       /\ running => f \in queue \/ pc[f] \in {"ask", "climb", "create", "make", "verify"}
       /\ pc[f] = "verify" => Exists(at[f])
    \/ first /\ running /\ pc[f] = "stream"

FirstRunInv ==
    faults = 0 => FoundInv /\ \A f \in Sent : DeliveredFirst(f) => OnItsWay(f)

\* A leaf is delivered in the end, whatever failed in between; so is any
\* dataset that the receiver may overwrite.
LeavesArrive ==
    \A f \in Sent : Placeable(f) /\ (IsLeaf(f) \/ f \in ForceOverwrite \ Encrypted)
                        => <>[](dest[f] = "received")

\* Every filesystem that is included and has a snapshot is delivered in the end.
EverythingArrives == \A f \in Sent : Placeable(f) => <>[](dest[f] = "received")
=============================================================================
