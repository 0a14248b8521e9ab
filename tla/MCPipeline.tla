----------------------------- MODULE MCPipeline -----------------------------
(***************************************************************************)
(* Programs for Pipeline: sizes of code around the end of a page, and      *)
(* every way a program can fail to come to an end.  A program without      *)
(* tokens has no room for its eleven bytes and no ret.                     *)
(***************************************************************************)
EXTENDS Pipeline

Sizes == {22, PAGE_SIZE - 1, PAGE_SIZE, PAGE_SIZE + 1, 2 * PAGE_SIZE}

Finishing(tokens, size, fate) ==
  [n_tokens |-> tokens, size |-> size, dump_ends |-> TRUE, fill_ends |-> TRUE, fate |-> fate]

SomePrograms ==
  { Finishing(2 * size, size, fate) : size \in Sizes, fate \in Fates }
    \cup { Finishing(0, 11, "wild") }
    \cup { [Finishing(600, 2400, "returns") EXCEPT !.dump_ends = FALSE],
           [Finishing(600, 2400, "returns") EXCEPT !.fill_ends = FALSE] }
=============================================================================
