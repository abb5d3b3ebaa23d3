------------------------------- MODULE StrSeq -------------------------------
(***************************************************************************)
(* What the string-list helpers of src/common/strlist.c promise, written  *)
(* from the spec (section 4, string list): a program's two list variables  *)
(* as sequences of strings, and each helper as what it does to them.      *)
(* A string is a sequence of characters.                                  *)
(***************************************************************************)
EXTENDS Sequences, SequencesExt

CONSTANTS
    Words,      \* strings the program adds or appends
    Inputs,     \* strings the program tokenizes
    Delim,      \* the delimiter characters given to tokenize
    Space       \* the characters trim_spaces removes

VARIABLES
    seq,        \* the list the program works on
    seq2        \* the list a copy is made into

(* trim_spaces: drop leading and trailing white space.  It is not in this *)
(* repository (common/stringhelp.c); written from the spec.               *)
RECURSIVE TrimLeft(_)
TrimLeft(s) == IF s # <<>> /\ Head(s) \in Space THEN TrimLeft(Tail(s)) ELSE s

Trim(s) == Reverse(TrimLeft(Reverse(TrimLeft(s))))

(* The pieces of S between delimiters.                                    *)
RECURSIVE Pieces(_)
Pieces(s) ==
    IF \E i \in 1..Len(s) : s[i] \in Delim
    THEN LET i == CHOOSE j \in 1..Len(s) : s[j] \in Delim
                                          /\ \A k \in 1..j-1 : s[k] \notin Delim
         IN  <<SubSeq(s, 1, i - 1)>> \o Pieces(SubSeq(s, i + 1, Len(s)))
    ELSE <<s>>

NonEmpty(s) == s # <<>>

(* tokenize: the pieces, trimmed, without the empty ones.                  *)
Tokens(s) == SelectSeq([i \in 1..Len(Pieces(s)) |-> Trim(Pieces(s)[i])], NonEmpty)

Prepend(w) == seq' = <<w>> \o seq /\ UNCHANGED seq2

Add(w) == seq' = Append(seq, w) /\ UNCHANGED seq2

(* tokenize appends all tokens, or nothing when there are none or memory  *)
(* runs out.                                                              *)
AddTokens(s) == seq' = seq \o Tokens(s) /\ UNCHANGED seq2

PopFront == seq # <<>> /\ seq' = Tail(seq) /\ UNCHANGED seq2

Rev == seq' = Reverse(seq) /\ UNCHANGED seq2

FreeAll == seq' = <<>> /\ UNCHANGED seq2

Copy == seq2 = <<>> /\ seq2' = seq /\ UNCHANGED seq

FreeCopy == seq2' = <<>> /\ UNCHANGED seq

Init == seq = <<>> /\ seq2 = <<>>

Next ==
    \/ \E w \in Words : Prepend(w) \/ Add(w)
    \/ \E s \in Inputs : AddTokens(s)
    \/ PopFront \/ Rev \/ FreeAll \/ Copy \/ FreeCopy

Spec == Init /\ [][Next]_<<seq, seq2>>

=============================================================================
