----------------------------- MODULE StringList -----------------------------
(***************************************************************************)
(* The singly linked string lists of src/common/strlist.c over a heap of  *)
(* cells.  A cell is a strlist_t node: its string d and its next pointer  *)
(* (the flags word is always 0 here and no property reads it).  USED is   *)
(* the set of allocated cells; xmalloc/xtrymalloc take a free cell and    *)
(* fail when there is none.  The program keeps two list variables, LIST   *)
(* and OTHER (the target of strlist_copy), and calls one helper at a      *)
(* time: each helper is one step.                                         *)
(***************************************************************************)
EXTENDS Integers, Sequences, SequencesExt, FiniteSets

CONSTANTS
    Addr,       \* the cells the allocator can hand out
    Null,       \* the NULL pointer
    Words, Inputs, Delim, Space

ASSUME Null \notin Addr

VARIABLES
    cell,       \* [Addr -> [d, next]]: the contents of every cell
    used,       \* the allocated cells
    list,       \* the program's list (head pointer)
    other       \* the list strlist_copy returned

vars == <<cell, used, list, other>>

-----------------------------------------------------------------------------
(* The cells of the list at P, following next at most N times (a cycle    *)
(* shows as a walk longer than the heap).                                 *)
RECURSIVE Walk(_, _, _)
Walk(c, p, n) == IF p = Null \/ n = 0 THEN <<>> ELSE <<p>> \o Walk(c, c[p].next, n - 1)

Nodes(c, p) == Walk(c, p, Cardinality(Addr) + 1)

Contents(p) == [i \in 1..Len(Nodes(cell, p)) |-> cell[Nodes(cell, p)[i]].d]

Abs == INSTANCE StrSeq WITH seq <- Contents(list), seq2 <- Contents(other)

Heap == [cell |-> cell, used |-> used]

Fresh(hp) == CHOOSE a \in Addr \ hp.used : TRUE

(* free_strlist: free every cell of the list at P.                        *)
FreeList(hp, p) == [hp EXCEPT !.used = @ \ ToSet(Nodes(hp.cell, p))]

(* do_append_to_strlist: allocate a cell for STR, then walk to the last   *)
(* cell and link it there (or make it the head).                          *)
DoAppend(hp, head, str) ==
    IF hp.used = Addr
    THEN [ok |-> FALSE, hp |-> hp, head |-> head, node |-> Null]
    ELSE LET a == Fresh(hp)
             ns == Nodes(hp.cell, head)
             c1 == [hp.cell EXCEPT ![a] = [d |-> str, next |-> Null]]
             c2 == IF head = Null THEN c1 ELSE [c1 EXCEPT ![Last(ns)].next = a]
         IN  [ok |-> TRUE, hp |-> [cell |-> c2, used |-> hp.used \cup {a}],
              head |-> IF head = Null THEN a ELSE head, node |-> a]

(* strlist_prev: the cell before NODE in the list at HEAD, Null for the   *)
(* first (and the last cell when NODE is not on the list).                *)
Prev(c, head, node) ==
    LET ns == Nodes(c, head)
        i == IF \E j \in 1..Len(ns) : ns[j] = node
             THEN CHOOSE j \in 1..Len(ns) : ns[j] = node ELSE Len(ns) + 1
    IN  IF i = 1 \/ ns = <<>> THEN Null ELSE ns[i - 1]

(* The first delimiter in S (strpbrk), 0 if none.                         *)
FirstDelim(s) ==
    IF \E i \in 1..Len(s) : s[i] \in Delim
    THEN CHOOSE i \in 1..Len(s) : s[i] \in Delim /\ \A k \in 1..i-1 : s[k] \notin Delim
    ELSE 0

(* Mutant: the piece length counts the delimiter.                        *)
PieceLenWithDelim(s, se) == IF se > 0 THEN se ELSE Len(s)

(* The length of the piece before delimiter SE (or of all of S).          *)
PieceLen(s, se) == IF se > 0 THEN se - 1 ELSE Len(s)

(* The do-while loop of tokenize_to_strlist building NEWLIST NL from the  *)
(* rest S of the string: skip an empty piece, append the piece, trim it,  *)
(* and take the cell off again (strlist_prev, free_strlist) when it is    *)
(* empty after trimming; on an allocation failure free NEWLIST and fail.  *)
RECURSIVE TokLoop(_, _, _)
TokLoop(hp, nl, s) ==
    LET se == FirstDelim(s)
        n == PieceLen(s, se)
        Go(hp2, nl2) == IF se > 0 THEN TokLoop(hp2, nl2, SubSeq(s, se + 1, Len(s)))
                        ELSE [ok |-> TRUE, hp |-> hp2, nl |-> nl2]
    IN  IF n = 0 THEN Go(hp, nl)
        ELSE LET ap == DoAppend(hp, nl, SubSeq(s, 1, n)) IN
             IF ~ap.ok THEN [ok |-> FALSE, hp |-> FreeList(hp, nl), nl |-> Null]
             ELSE LET t == Abs!Trim(SubSeq(s, 1, n))
                      hp1 == [ap.hp EXCEPT !.cell[ap.node].d = t]
                      pv == Prev(hp1.cell, ap.head, ap.node)
                  IN  IF t # <<>> THEN Go(hp1, ap.head)
                      ELSE IF pv # Null
                      THEN Go([FreeList(hp1, ap.node) EXCEPT !.cell[pv].next = Null],
                              ap.head)
                      ELSE Go(FreeList(hp1, ap.head), Null)

(* The loop of strlist_copy: LAST points at NEWLIST ("head") or, after    *)
(* the first cell, at the local variable sl ("local"); *last = sl stores  *)
(* into whichever it points at.                                           *)
RECURSIVE CopyLoop(_, _, _, _)
CopyLoop(hp, src, last, newlist) ==
    IF src = <<>> THEN [hp |-> hp, newlist |-> newlist]
    ELSE LET a == Fresh(hp)
             hp1 == [cell |-> [hp.cell EXCEPT ![a] = [d |-> hp.cell[Head(src)].d,
                                                       next |-> Null]],
                     used |-> hp.used \cup {a}]
         IN  CopyLoop(hp1, Tail(src), "local", IF last = "head" THEN a ELSE newlist)

Store(hp) == cell' = hp.cell /\ used' = hp.used

-----------------------------------------------------------------------------
Init ==
    /\ cell = [a \in Addr |-> [d |-> <<>>, next |-> Null]]
    /\ used = {}
    /\ list = Null
    /\ other = Null

(* add_to_strlist (and add_to_strlist2 with UTF-8 input): a new head      *)
(* cell.  xmalloc ends the process when memory is short.                  *)
AddToStrlist ==
    /\ used # Addr
    /\ \E w \in Words :
         LET a == Fresh(Heap) IN
         /\ cell' = [cell EXCEPT ![a] = [d |-> w, next |-> list]]
         /\ used' = used \cup {a}
         /\ list' = a
    /\ UNCHANGED other

(* add_to_strlist_try when memory is short: NULL, the list unchanged.     *)
AddToStrlistTryFail ==
    /\ used = Addr
    /\ UNCHANGED vars

(* append_to_strlist(_try): do_append_to_strlist on the list.             *)
AppendToStrlist ==
    /\ used # Addr
    /\ \E w \in Words :
         LET ap == DoAppend(Heap, list, w) IN Store(ap.hp) /\ list' = ap.head
    /\ UNCHANGED other

(* tokenize_to_strlist: build NEWLIST, then link it after the last cell   *)
(* of the list; NULL with nothing changed when no token was found or an   *)
(* allocation failed (after freeing what was built).                      *)
Tokenize ==
    /\ \E s \in Inputs :
         LET r == TokLoop(Heap, Null, s)
             ns == Nodes(r.hp.cell, list)
         IN  IF r.ok /\ r.nl # Null
             THEN IF list = Null
                  THEN Store(r.hp) /\ list' = r.nl
                  ELSE /\ cell' = [r.hp.cell EXCEPT ![Last(ns)].next = r.nl]
                       /\ used' = r.hp.used
                       /\ UNCHANGED list
             ELSE Store(r.hp) /\ UNCHANGED list
    /\ UNCHANGED other

(* Mutant: the popped cell is not freed.                                  *)
StrlistPopKeep ==
    /\ list # Null
    /\ list' = cell[list].next
    /\ UNCHANGED <<cell, used, other>>

(* strlist_pop: unlink the first cell and free it.                        *)
StrlistPop ==
    /\ list # Null
    /\ list' = cell[list].next
    /\ used' = used \ {list}
    /\ UNCHANGED <<cell, other>>

(* strlist_rev: point every cell at its predecessor; the last cell heads. *)
StrlistRev ==
    LET ns == Nodes(cell, list) IN
    /\ cell' = [a \in Addr |->
                  IF \E i \in 1..Len(ns) : ns[i] = a
                  THEN [cell[a] EXCEPT !.next = Prev(cell, list, a)]
                  ELSE cell[a]]
    /\ list' = IF ns = <<>> THEN Null ELSE Last(ns)
    /\ UNCHANGED <<used, other>>

(* Mutant: the list variable is left pointing at the freed cells.          *)
FreeStrlistDangling ==
    /\ used' = FreeList(Heap, list).used
    /\ UNCHANGED <<cell, list, other>>

(* free_strlist / free_strlist_wipe on the list.                           *)
FreeStrlist ==
    /\ used' = FreeList(Heap, list).used
    /\ list' = Null
    /\ UNCHANGED <<cell, other>>

(* strlist_copy of the list into OTHER (which holds no list).  xmalloc    *)
(* ends the process when memory is short.                                 *)
StrlistCopy ==
    LET ns == Nodes(cell, list)
        r == CopyLoop(Heap, ns, "head", Null)
    IN  /\ other = Null
        /\ Cardinality(Addr \ used) >= Len(ns)
        /\ Store(r.hp) /\ other' = r.newlist
        /\ UNCHANGED list

(* free_strlist on the copy.                                               *)
FreeCopy ==
    /\ used' = FreeList(Heap, other).used
    /\ other' = Null
    /\ UNCHANGED <<cell, list>>

Next ==
    \/ AddToStrlist \/ AddToStrlistTryFail \/ AppendToStrlist \/ Tokenize
    \/ StrlistPop \/ StrlistRev \/ FreeStrlist

Spec == Init /\ [][Next]_vars

(* The program also copies the list and frees the copy.                    *)
NextWithCopy == Next \/ StrlistCopy \/ FreeCopy

SpecWithCopy == Init /\ [][NextWithCopy]_vars

-----------------------------------------------------------------------------
TypeOK ==
    /\ used \subseteq Addr
    /\ list \in used \cup {Null} /\ other \in used \cup {Null}
    /\ \A a \in used : cell[a].next \in Addr \cup {Null}

(* The heap is exactly the two lists: every allocated cell is on exactly  *)
(* one of them, once, the lists end in NULL, and no list reaches a freed  *)
(* cell.  Broken by a leak (a cell no list reaches), a use after free or  *)
(* a cycle left by relinking.                                             *)
HeapExact ==
    LET a == Nodes(cell, list)
        b == Nodes(cell, other)
    IN  /\ Len(a) + Len(b) = Cardinality(used)
        /\ ToSet(a) \cup ToSet(b) = used

(* Every helper does to the lists what the spec says it does to a         *)
(* sequence of strings (refinement of StrSeq).                            *)
Refines == Abs!Spec

=============================================================================
