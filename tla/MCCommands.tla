----------------------------- MODULE MCCommands -----------------------------
(***************************************************************************)
(* Instances of Commands for TLC.                                          *)
(***************************************************************************)
EXTENDS Commands

op(cmd, args, tries) == [cmd |-> cmd, args |-> args, data |-> <<>>, tries |-> tries]

\* A checksum of a two byte sector that tells all of them apart.
MCCrc(data) == Value(data)

\* Sectors that hold the command prefix, alone and with the group.
sector(bytes, tries) ==
    [cmd |-> "WRITE_FLASH_SECTOR", args |-> <<1, 0, MCCrc(bytes)>>,
     data |-> bytes, tries |-> tries]

\* Calls of the menu, the loader and fwfs: settings are set without retries
\* (scene/settings.c), everything else with them.  48 and its complement, the
\* prefix, are in the range of the autoboot delay; 300 does not fit its field;
\* the first READ_APP has an offset that begins with prefix and group, the
\* second asks for an app that does not exist; the second READ_EE_STAGE3 asks for
\* no byte and its CRC (a section that is all zeros).
MCAllOps ==
    {op("KV_SET", <<DELAY, 48>>, 1),
     op("KV_SET", <<ITEM_IDX, 300>>, 1),
     op("KV_GET", <<DELAY>>, 3),
     op("READ_APP", <<1, 3279, 5, 1>>, 3),
     op("READ_APP", <<2, 0, 4, 0>>, 3),
     op("READ_EE_STAGE3", <<12, 4, 0>>, 3),
     op("READ_EE_STAGE3", <<0, 0, 1>>, 3),
     op("WRITE_LOCK", <<0>>, 3),
     op("WRITE_LOCK", <<1>>, 3),
     op("ERASE_FLASH_SECTOR", <<1, 0, 1>>, 3),
     sector(<<Prefix, Group1 + 1>>, 3),
     op("DISABLE_NEXT_OSDSYS_HOOK", <<>>, 3),
     op("GET_EE_STAGE2", <<>>, 3),
     op("PIN_CONFIG", <<2>>, 3),
     op("REBOOT", <<1>>, 3),
     op("TEST_STATUS", <<>>, 1),
     op("TEST_BUSY", <<>>, 1),
     op("TEST_STATUS_DATA_CRC", <<>>, 1)}

\* The theorems are about such calls.
ASSUME MCUnmistakable == \A o \in MCAllOps : Unmistakable(o)

\* An upload of a sector whose last byte is that of a command's prefix.
MCPrefixOps == {op("WRITE_LOCK", <<0>>, 3), sector(<<0, Prefix>>, 3)}

MCAppLength == (0 :> 0) @@ (1 :> 3280)
=============================================================================
