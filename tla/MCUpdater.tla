------------------------------ MODULE MCUpdater ------------------------------
(* A flash of three partitions of two 2-byte sectors, and images of it: two   *)
(* signed ones (one fills its partition, one ends inside a sector), one with  *)
(* a bad signature, and a text file too long for a partition.                 *)
EXTENDS Updater, TLC

CONSTANTS oldFw, newFw, unsigned, text

ImageLengths == (oldFw :> 3) @@ (newFw :> 4) @@ (unsigned :> 3) @@ (text :> 5)

MCImgLen    == [i \in Images |-> ImageLengths[i]]
MCTears     == SUBSET (0 .. SecSize - 1)
MCShortLen  == [i \in Images |-> 2]
MCWithMagic == Images \ {text}
MCGenuine   == Images \cap {oldFw, newFw}
=============================================================================
