------------------------------ MODULE UpdateFile ------------------------------
(***************************************************************************)
(* What the menu checks before it writes an update (scene/settings/update/ *)
(* checking.c, pin_config.c): the blocks of the .uf2 file, the size of the *)
(* image and the pins it was built for.  Payload bytes are left out, and   *)
(* pin masks are sets of GPIOs: a mask of zero is the empty set.           *)
(***************************************************************************)
EXTENDS Naturals, Sequences

CONSTANTS BlockSize,  \* payload of a block, 256
          AddrSpace   \* 2^32: targetAddr is an u32

ASSUME UpdateFileAssumption ==
    BlockSize \in Nat \ {0} /\ AddrSpace \in Nat /\ AddrSpace > BlockSize

PinGroups == {"data", "ce", "oe", "rst"}

\* A file is read as its blocks, whether its size is a multiple of the size
\* of a block, and the pins that binary info names in the image.  A family of
\* "none" is a block without UF2_FLAG_FAMILY_ID_PRESENT.
Blocks == [magic : BOOLEAN, family : {"none", "rp2040", "other"},
           payload : Nat, addr : 0..(AddrSpace - 1)]
UpdateFiles == [blocks : Seq(Blocks), whole : BOOLEAN,
                pins : [PinGroups -> SUBSET Nat]]

\* is_magic_valid, is_family_id_valid, payloadSize
BlockValid(b) ==
    /\ b.magic
    /\ b.family # "other"
    /\ b.payload = BlockSize

\* Mutant: the blocks may come in any order.
AnyOrder(blocks) == TRUE

\* last_block_addr && (last_block_addr + block_size) != block.targetAddr
Linear(blocks) ==
    \A i \in 2..Len(blocks) :
        LET last == blocks[i - 1].addr
        IN  last # 0 => blocks[i].addr = (last + BlockSize) % AddrSpace

\* The loop over the file comes to its end.
ReadsWell(file) ==
    /\ file.whole
    /\ \A i \in DOMAIN file.blocks : BlockValid(file.blocks[i])
    /\ Linear(file.blocks)

\* update_size
UpdateSize(file) == BlockSize * Len(file.blocks)

\* An update of the firmware has to fit the partition it is written to and the
\* one the bootloader copies it to.  A size that is not known sets no limit.
Targets(type) == IF type = "fw" THEN {"FW", "FW_UPDATE"} ELSE {"APPS"}

Fits(type, size, sizes) ==
    \A p \in Targets(type) \cap DOMAIN sizes : size <= sizes[p]

\* All masks of the image are known, and together they are not those of the
\* board.
PinsDiffer(current, update) ==
    /\ \A g \in PinGroups : update[g] # {}
    /\ UNION {current[g] : g \in PinGroups} # UNION {update[g] : g \in PinGroups}
=============================================================================
