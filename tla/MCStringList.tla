---------------------------- MODULE MCStringList ----------------------------
(* Three cells, two words, and two strings to tokenize on "," whose       *)
(* pieces are empty, blank, or a word with spaces around it.              *)
EXTENDS StringList

CONSTANTS a1, a2, a3, a4

MC_Addr == {a1, a2, a3}

\* strlist_copy of a two-cell list needs four cells.
MC_Addr4 == {a1, a2, a3, a4}
MC_Words == {<<"a">>, <<"b">>}
MC_Inputs == {<<"a", ",", " ", ",", " ", "b">>, <<" ", ",", ",">>}

=============================================================================
