----------------------------- MODULE Destination -----------------------------
(***************************************************************************)
(* The destinations of one filesystem: for each, the dataset the receiver  *)
(* writes below its base dataset, and the three receiver operations        *)
(* (internal/receiver): incremental_suggestions, receive and               *)
(* set_placeholders.  zfs receive itself is external: an incremental       *)
(* stream applies only on top of the snapshot it starts from, a full one   *)
(* only where no dataset is, unless -F; with -s an interrupted stream      *)
(* leaves a resume token, and then only the resumed stream is taken.       *)
(***************************************************************************)
EXTENDS Job

VARIABLES
    exists,     \* the destination dataset exists
    held,       \* its snapshots
    token,      \* its receive_resume_token, or NoToken
    mirror      \* the snapshots each suffix marks on it (set_placeholders)

destVars == <<exists, held, token, mirror>>

\* A resume token names the stream's target and the snapshot it starts from
\* (0: a full stream).  NoToken is the "-" of zfs list.
Token == [target : Guid, from : Guid]
NoToken == [target |-> 0, from |-> 0]

DestTypeOK ==
    /\ exists \in [Dst -> BOOLEAN]
    /\ held \in [Dst -> SUBSET (1 .. MaxSnap)]
    /\ token \in [Dst -> Token]
    /\ mirror \in [Dst -> [Suffix -> SUBSET Guid]]

DestInit ==
    /\ exists = [d \in Dst |-> FALSE]
    /\ held = [d \in Dst |-> {}]
    /\ token = [d \in Dst |-> NoToken]
    /\ mirror = [d \in Dst |-> [p \in Suffix |-> {}]]

-----------------------------------------------------------------------------
(* zfs receive                                                             *)

\* A stream carries snapshot `target` as a difference from `from`; `resume`
\* when it was made by zfs send -t.
Stream == [target : 1 .. MaxSnap, from : Guid, resume : BOOLEAN]

\* g is the newest snapshot of d; 0 when d has none.
Newest(d, g) ==
    \/ held[d] = {} /\ g = 0
    \/ g \in held[d] /\ \A h \in held[d] : h <= g

\* Faulty: -F for every zfs receive, and for none.
AlwaysOverwrites(d) == d \in Dst

\* zfs receive -F: only for a dataset in force_overwrite_datasets.
MayOverwrite(d) == d \in ForceOverwrite

\* zfs receive takes the stream r to its end.
Acceptable(d, r) ==
    IF r.resume
    THEN token[d] = [target |-> r.target, from |-> r.from]
    ELSE /\ token[d] = NoToken
         /\ \/ r.from = 0 /\ (exists[d] => MayOverwrite(d))
            \/ r.from # 0 /\ Newest(d, r.from)
            \/ r.from \in held[d] /\ MayOverwrite(d)

\* What is left of the old snapshots: -F replaces the dataset by a full
\* stream and rolls it back to the start of an incremental one.
Kept(d, r) ==
    IF MayOverwrite(d) THEN { h \in held[d] : h <= r.from } ELSE held[d]

ZfsReceive(d, r) ==
    /\ Acceptable(d, r)
    /\ held' = [held EXCEPT ![d] = Kept(d, r) \union {r.target}]
    /\ exists' = [exists EXCEPT ![d] = TRUE]
    /\ token' = [token EXCEPT ![d] = NoToken]
    /\ UNCHANGED mirror

\* The stream breaks off.  With -s the dataset keeps what arrived and a
\* token for the rest; without it zfs receive undoes everything.
ZfsReceivePartly(d, r) ==
    /\ Acceptable(d, r)
    /\ Resumable
    /\ token' = [token EXCEPT ![d] = [target |-> r.target, from |-> r.from]]
    /\ exists' = [exists EXCEPT ![d] = TRUE]
    /\ UNCHANGED <<held, mirror>>

-----------------------------------------------------------------------------
(* set_placeholders                                                        *)

\* Entries whose snapshot, or a bookmark of it, the destination has.
Known(d, g) == g \in held[d] \/ \E p \in Suffix : g \in mirror[d][p]

\* A known entry is bookmarked, unless the suffix has that bookmark already.
ToBookmark(d, entries) ==
    { p \in DOMAIN entries : Known(d, entries[p]) /\ entries[p] \notin mirror[d][p] }

\* entries: a function from suffixes to GUIDs.  ZfsSetPlaceholder removes the
\* other bookmarks of a suffix that gets one, and of no other suffix.
SetPlaceholders(d, entries) ==
    /\ mirror' = [mirror EXCEPT ![d] =
                    [p \in Suffix |-> IF p \in ToBookmark(d, entries)
                                      THEN {entries[p]} ELSE @[p]]]
    /\ UNCHANGED <<exists, held, token>>

\* A command fails, which ends neither the loop over the entries nor what was
\* done before, or the receiver dies: some entries have their bookmark, and of
\* those some keep older ones.
SetPlaceholdersPartly(d, entries) ==
    /\ \E set \in SUBSET ToBookmark(d, entries) :
       \E marks \in [Suffix -> SUBSET Guid] :
          /\ \A p \in Suffix \ set : marks[p] = mirror[d][p]
          /\ \A p \in set : /\ entries[p] \in marks[p]
                            /\ marks[p] \subseteq mirror[d][p] \union {entries[p]}
          /\ mirror' = [mirror EXCEPT ![d] = marks]
    /\ UNCHANGED <<exists, held, token>>
=============================================================================
