------------------------- MODULE MCAttachmentSlices -------------------------
(* One message with three copies of a payload, each under a label of its own; *)
(* a release of the parser may find the first only.  Another message carries  *)
(* the payload as a pdf as well.                                              *)
EXTENDS AttachmentSlices, TLC

CONSTANTS p, pdf, text, html

Copies    == 1..3
Bytes     == <<p, p, p>>
Label     == <<pdf, text, html>>
Found     == {{1, 2, 3}, {1}}
Elsewhere == {<<p, pdf>>}

\* A module reads one word, each of its versions another; html finds none.
OneWord ==
    [kv \in {<<p, pdf>>, <<p, text>>, <<p, html>>} \X Versions |->
        IF kv[1][2] = html THEN {} ELSE {<<kv[1], kv[2]>>}]

\* Of three copies two have the same label; the parser may lose all.
TwoLabels == <<pdf, text, pdf>>
FoundLess == {{1, 2, 3}, {2}, {}}
TwoWords  == [kv \in {<<p, pdf>>, <<p, text>>} \X Versions |-> {<<kv[1], kv[2]>>}]
=============================================================================
