---------------------------- MODULE AtomicUpdate ----------------------------
(* What the two application slots of the device promise, with the bytes of    *)
(* the flash, the buffers and the calls of the updater left out.  A slot      *)
(* holds a whole genuine image or nothing.  An update offers one image; the   *)
(* slot that does not run loses its image, and gets the offered one in a      *)
(* single step or not at all.                                                 *)
EXTENDS Integers

CONSTANTS
    Genuine,          \* the images the boot loader accepts (complete, signed)
    Offers            \* every image a client may offer, Genuine or not

VARIABLES
    slot,             \* slot[p]: the genuine image slot p holds, as a set
    running,          \* the slot the processor executes from
    boot,             \* the slot the OTA data selects for the next reset
    offered           \* the image of the latest update

vars == <<slot, running, boot, offered>>

Slots   == {0, 1}
Content == {{}} \cup {{i} : i \in Genuine}

Init == /\ slot \in [Slots -> Content]
        /\ running \in Slots
        /\ slot[running] # {}
        /\ boot = running
        /\ offered \in Offers

Offer == offered' \in Offers /\ UNCHANGED <<slot, running, boot>>

(* The idle slot is being overwritten.                                        *)
Damage == /\ slot' = [slot EXCEPT ![1 - running] = {}]
          /\ UNCHANGED <<running, boot, offered>>

(* The idle slot holds all of the offered image.                              *)
Install == /\ offered \in Genuine
           /\ slot' = [slot EXCEPT ![1 - running] = {offered}]
           /\ UNCHANGED <<running, boot, offered>>

(* The idle slot, which holds a genuine image, is selected for the next reset *)
Select == /\ slot[1 - running] # {}
          /\ boot' = 1 - running
          /\ UNCHANGED <<slot, running, offered>>

(* A reset, asked for or not: the boot loader starts the selected slot, and   *)
(* the other one when the selected slot holds no genuine image.               *)
Reboot == /\ running' = IF slot[boot] # {} THEN boot ELSE 1 - boot
          /\ UNCHANGED <<slot, boot, offered>>

Next == Offer \/ Damage \/ Install \/ Select \/ Reboot

Spec == Init /\ [][Next]_vars

(* The device always runs, and after any reset runs again, a genuine image.   *)
Alive == slot[running] # {}
=============================================================================
