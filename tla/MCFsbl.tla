------------------------------- MODULE MCFsbl -------------------------------
(* Instances of Fsbl: four cells of main RAM, three of the FSBL's own, three more. *)
EXTENDS Fsbl

MCSize == [f \in Files |-> IF f = "small" THEN 2 ELSE IF f = "big" THEN 3 ELSE 5]
MCRam == 1 .. 4
MCFsblRam == 5 .. 7
MCMemory == 1 .. 10
MCSwitches == SUBSET {0}

E(gpio, path, addr, flag) == [gpio |-> gpio, path |-> path, addr |-> addr, flag |-> flag]

\* Plain, switched, overlapping and refused payloads of every kind
MCEntries == {E(-1, "small", 1, "BOOT"), E(0, "big", 2, "BOOT"),
              E(-1, "big", 1, "FDT"),    E(0, "small", 8, "NXT"),
              E(-1, "small", 2, "none"), E(-1, "big", 3, "BOOT"),
              E(0, "small", 6, "FDT"),
              E(-1, "huge", 4, "BOOT")}   \* reaches from below the FSBL's RAM to beyond it

MCConfigs == UNION {[1 .. n -> MCEntries] : n \in 0 .. 2}

\* That one alone
MCSpanning == {<<E(-1, "huge", 4, "BOOT")>>}

MCOneBoot == {<<E(-1, "small", 1, "BOOT")>>}
MCTwoBoots == {<<E(-1, "small", 1, "BOOT"), E(-1, "small", 2, "BOOT")>>}

\* A kernel and its device tree
MCLinux == {<<E(-1, "small", 2, "BOOT"), E(-1, "small", 8, "FDT")>>}

\* A payload that ends where the FSBL's RAM starts
MCTouching == {<<E(-1, "small", 3, "BOOT")>>}
=============================================================================
