------------------------------ MODULE MCRocksDB ------------------------------
(***************************************************************************)
(* Keys, contents and requests for RocksDB.  Keys are written as their     *)
(* bytes: "," is 44, digits start at 48, letters at 97.                    *)
(***************************************************************************)
EXTENDS RocksDB

a10 == <<97, 44, 49, 48>>
a12 == <<97, 44, 49, 50>>
b11 == <<98, 44, 49, 49>>
ab11 == <<97, 98, 44, 49, 49>>  \* its prefix continues another one's
n == <<110>>                    \* no time stamp

MCKey == {a10, a12, b11}
MCSetKey == {a12}
MCLoaded == {MCKey}
MCMixedKey == {a10, b11, ab11, n}
MCMixed == SUBSET MCMixedKey

MCParams ==
  { [startts |-> 10, endts |-> 11, output |-> "file"],
    [startkey |-> a12],
    [key |-> a12],
    [cf |-> "x", startts |-> -2, output |-> "file"] }
MCTSParams == { [startts |-> 10, endts |-> 11, output |-> "file"], [endts |-> 0] }
=============================================================================
