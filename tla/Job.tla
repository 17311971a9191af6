--------------------------------- MODULE Job ---------------------------------
(***************************************************************************)
(* The configuration of one sender job for one filesystem, and of the      *)
(* receivers it sends to, after initSenderDefaults has accepted it.        *)
(***************************************************************************)
EXTENDS Naturals, FiniteSets

CONSTANTS
    Dst,               \* destinations
    Suffix,            \* placeholder suffixes
    Owner,             \* the destination each suffix belongs to; not one of
                       \*   Dst when another configuration's sender uses it
    Sync,              \* sync_placeholders of each destination
    ForceOverwrite,    \* destinations whose receiver lists the dataset in
                       \*   force_overwrite_datasets
    Resumable,         \* receiver option resumable: zfs receive -s
    SendIntermediate,  \* sender option send_intermediate
    MaxSnap,           \* bound: the number of snapshots ever taken
    Matching           \* the snapshots whose names match snapshot_re

\* A suffix has one owner: initSenderDefaults refuses to share it.  Every
\* destination owns one: without `placeholders`, autoPlaceholderName makes it.
ASSUME OwnerAssumption ==
    /\ DOMAIN Owner = Suffix
    /\ \A d \in Dst : \E p \in Suffix : Owner[p] = d
ASSUME SyncAssumption == Sync \in [Dst -> SUBSET Suffix]
ASSUME ForceAssumption == ForceOverwrite \subseteq Dst
ASSUME OptionAssumption == Resumable \in BOOLEAN /\ SendIntermediate \in BOOLEAN
ASSUME MaxSnapAssumption == MaxSnap \in Nat
ASSUME MatchingAssumption == Matching \subseteq 1 .. MaxSnap

\* Faulty: every suffix of the job, whoever owns it.
EveryPlaceholder(d) == Suffix

\* placeholders of destination d
Placeholders(d) == { p \in Suffix : Owner[p] = d }

\* Suffixes that sync_placeholders may name although none of the destinations
\* owns them.
Foreign == { p \in Suffix : Owner[p] \notin Dst }

\* Snapshots are 1, 2, ... in the order of their createtxg; the number is the
\* GUID too.  0 stands for no snapshot.
Guid == 0 .. MaxSnap
=============================================================================
