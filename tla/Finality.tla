------------------------------ MODULE Finality ------------------------------
(***************************************************************************)
(* What the finality gadget of core/bft_finality.py promises: a height is  *)
(* finalized at most once, with one block hash, and stays that way.        *)
(***************************************************************************)
CONSTANTS Heights,      \* block heights votes are cast for
          Hashes,       \* block hashes a vote can name
          None          \* no hash

VARIABLE final          \* the hash each height is finalized with, or None

TypeOK == final \in [Heights -> Hashes \cup {None}]

Init == final = [h \in Heights |-> None]

Decide(h, b) == final[h] = None /\ final' = [final EXCEPT ![h] = b]

Next == \E h \in Heights, b \in Hashes : Decide(h, b)

Spec == Init /\ [][Next]_final
=============================================================================
