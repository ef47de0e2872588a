-------------------------- MODULE MCFilterPipeline --------------------------
(***************************************************************************)
(* Instance of FilterPipeline for TLC: three texts and both settings of    *)
(* one check box.                                                          *)
(***************************************************************************)
EXTENDS FilterPipeline

CONSTANTS plain, query, badRule, shown, hidden

MCTexts == {plain, query, badRule}
MCFlags == {shown, hidden}
MCForm  == [text |-> plain, flags |-> hidden]
=============================================================================
