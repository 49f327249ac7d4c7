----------------------------- MODULE MCServing -----------------------------
(***************************************************************************)
(* Serving on two revisions of the templates: the first has an intent with  *)
(* six templates, of which a quarter is a half to be rounded, one with two  *)
(* and an ambiguous row; the second has other templates.                    *)
(***************************************************************************)
EXTENDS Serving

First  == <<<<"delay", 1>>, <<"refund", 0>>, <<"delay", 2>>, <<"refund", 1>>, <<"refund", 2>>,
            <<"refund", 3>>, <<"refund", 4>>, <<"refund", 5>>, <<"refund", 6>>>>
Second == <<<<"refund", 3>>, <<"delay", 0>>, <<"delay", 1>>, <<"refund", 1>>, <<"delay", 3>>>>

Revisions == <<First, Second>>
=============================================================================
