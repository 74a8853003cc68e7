---------------------------- MODULE MCHashTable ----------------------------
(***************************************************************************)
(* HashTable on a small instance.  Tables, blocks and keys other than the  *)
(* empty one are interchangeable; every property checked is safety.  The   *)
(* digests of the keys differ only behind a zero byte: that of "" has one,  *)
(* its MD5 being d41d8cd98f00b204...                                       *)
(***************************************************************************)
EXTENDS HashTable

MCText == [h \in {"digest", "plain"} \X Key |->
             IF h[1] = "digest" THEN <<"d41d8cd98f">> ELSE h]

Symmetric == Permutations(Tbl) \cup Permutations(Block)

=============================================================================
