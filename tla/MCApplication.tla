---------------------------- MODULE MCApplication ----------------------------
(***************************************************************************)
(* Instance of Application for TLC: an ELF that may be opened again and an *)
(* exported data file, one node of each sort, and so few filter settings   *)
(* that two edits may cancel out.                                          *)
(***************************************************************************)
EXTENDS Application

CONSTANTS elf, esv, plain, query, hidden, listed, node, lazyNode,
          label, import, export, json

MCPaths     == {elf, esv}
MCDataNames == {esv}
MCKeys      == {import, export, json}
MCExclusive == {json}
MCDetails   == MCPaths \cup {label}
MCTexts     == {plain, query}
MCFlags     == {hidden, listed}
MCForm      == [text |-> plain, flags |-> hidden]
MCNodes     == {node, lazyNode}
MCLazy      == {lazyNode}
MCResults   == [path : MCPaths, version : 1..(MaxChanges + 1)]
=============================================================================
