------------------------------ MODULE MCDataOut ------------------------------
(***************************************************************************)
(* Instances of DataOut for TLC.  The FIFO and the words have their real    *)
(* sizes.                                                                  *)
(***************************************************************************)
EXTENDS DataOut

request(kind, code_, n, crc) ==
    [kind |-> kind, code |-> code_, data |-> [i \in 1..n |-> <<kind, "d", i>>],
     crc |-> crc]

\* Data shorter and longer than what the FIFO holds behind a status word, with
\* and without a CRC.
MCRequests ==
    {request("status", "ERR", 0, FALSE), request("busy", "OK", 0, FALSE),
     request("busy", "ERR", 0, FALSE), request("patch", "none", 2, FALSE)}
        \cup {request("data", "OK", n, crc) : n \in {1, 4, 9}, crc \in BOOLEAN}
        \cup {request("patch", "none", 9, crc) : crc \in BOOLEAN}

\* A write of a sector, and a setting that is read later.
MCWriteThenRead ==
    {request("write", "OK", 0, FALSE), request("data", "OK", 4, FALSE)}
=============================================================================
