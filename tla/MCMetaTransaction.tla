-------------------------- MODULE MCMetaTransaction --------------------------
(***************************************************************************)
(* Instances of MetaTransaction: two registered users, one with a spare    *)
(* device, and a ghost.                                                    *)
(***************************************************************************)
EXTENDS MetaTransaction, TLC

CONSTANTS alice, bob, guest, \* alice and bob are registered, guest is a ghost
          a1, b1, b2,        \* their devices
          t1, t2

MCowner == [d \in Devices |-> IF d = a1 THEN alice ELSE bob]

\* State constraint of the concurrent instance: bob sends to himself, from b1.
OnlyB1Sends == \A t \in Transactions : tx[t].sender_device \in {b1, NoDevice}

\* Transactions are interchangeable, and so are the processes of the pool.
Symmetry == Permutations(Transactions) \union Permutations(Workers)
=============================================================================
