------------------------------ MODULE MCReader ------------------------------
(* The reader on short texts, and on such as begin in a string and in a list. *)
EXTENDS Reader

MCTyped  == {"n", "nl", "quo", "bs", ";", "(", ")", "'", "[", "]", "."}
MCTexts  == {[start |-> <<>>, more |-> 4], [start |-> <<"(", "quo", "n">>, more |-> 3],
             [start |-> <<"(", "n", "nl", ".">>, more |-> 3], [start |-> <<"bs", ";", "'">>, more |-> 2]}
MCSlash  == {[start |-> <<"(", "quo", "bs", "bs", "quo", "nl">>, more |-> 3]}
=============================================================================
