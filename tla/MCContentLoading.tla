-------------------------- MODULE MCContentLoading --------------------------
(***************************************************************************)
(* Instance of ContentLoading for TLC: an ELF, an exported data file, and  *)
(* one that was renamed, so that its name does not tell what it holds.     *)
(***************************************************************************)
EXTENDS ContentLoading

CONSTANTS elf, esv, renamed, import

MCPaths     == {elf, esv, renamed}
MCDataNames == {esv}
MCDataFiles == {esv, renamed}
MCKeys      == {import}
MCExclusive == {}
MCResults   == [path : MCPaths, version : 1..(MaxChanges + 1)]
=============================================================================
