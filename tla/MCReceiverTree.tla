--------------------------- MODULE MCReceiverTree ---------------------------
(***************************************************************************)
(* Instances of ReceiverTree for TLC.                                      *)
(*                                                                         *)
(*     pool                      not included, created by checkParent      *)
(*       data                    included                                  *)
(*         one, two              leaves; one is included by its name too   *)
(*       vault                   included, encrypted and sent raw with all *)
(*         bare                  below it, of which bare has no snapshots  *)
(*         inner                                                           *)
(*           deep                two levels below an encrypted dataset     *)
(***************************************************************************)
EXTENDS ReceiverTree

CONSTANTS base, pool, data, one, two, vault, bare, inner, deep

Nodes == {pool, data, one, two, vault, bare, inner, deep}

Parents == [n \in Nodes |->
    CASE n = pool             -> base
      [] n \in {data, vault}  -> pool
      [] n \in {one, two}     -> data
      [] n \in {bare, inner}  -> vault
      [] n = deep             -> inner]

ByName == [n \in Nodes |->
    CASE n = pool -> 1 [] n = data -> 2 [] n = one -> 3 [] n = two -> 4
      [] n = vault -> 5 [] n = bare -> 6 [] n = inner -> 7 [] n = deep -> 8]
=============================================================================
