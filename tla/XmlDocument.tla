---------------------------- MODULE XmlDocument ----------------------------
(***************************************************************************)
(* What it is for a text to be the print of a tree, or the beginning of    *)
(* one: what Xml is held to, stated of positions in the text, whatever     *)
(* reads them. Texts are sequences of symbols as in Xml.                   *)
(*                                                                         *)
(* A document is the sequence of its elements as they end, children before *)
(* their parent. An element has a name; words after it in its tag, the     *)
(* last a slash if there is no other tag; content, or Null; parent, the    *)
(* number of the element it is in, or 0; first, the number of the first    *)
(* element that began after it did, or its own; depth; and where its tags  *)
(* and its content begin: open, close, start.                              *)
(***************************************************************************)
EXTENDS Naturals, Sequences

CONSTANTS Symbols,      (* what texts consist of                           *)
          Assignments,  (* symbols that are attributes                     *)
          Null          (* no content                                      *)

ASSUME SymbolsAssumption == /\ {"<", ">", "/", " "} \subseteq Symbols
                            /\ Null \notin Symbols

Elements ==
    [name    : Seq(Symbols \ {"<", ">", "/", " "}) \ {<<>>},
     words   : Seq(Symbols \ {"<", ">", " "}),
     content : {Null} \cup Seq(Symbols \ {"<"}),
     parent  : Nat,  first : Nat, depth : Nat,
     open    : Nat \ {0}, start : Nat, close : Nat]

Single(e) == e.words # <<>> /\ e.words[Len(e.words)] = "/"

TagLength(e) == Len(e.name) + 2 * Len(e.words)

(* The name, and each word after a space. *)
TagOf(e) ==
    [i \in 1 .. TagLength(e) |->
        LET k == i - Len(e.name)
        IN  IF i <= Len(e.name) THEN e.name[i]
            ELSE IF k % 2 = 1 THEN " " ELSE e.words[k \div 2]]

Body(e) == e.open + TagLength(e) + 2

After(e) == IF Single(e) THEN Body(e) ELSE e.close + Len(e.name) + 3

(* In a text that may end before, or in the middle of it: white space from *)
(* p to q; s at p.                                                         *)
Blank(text, p, q) ==
    p <= q /\ \A r \in p .. q - 1 : r \in DOMAIN text => text[r] = " "

Written(text, p, s) ==
    \A i \in DOMAIN s : p + i - 1 \in DOMAIN text => text[p + i - 1] = s[i]

(* From p on, where the elements up to n have ended: a child of j, or the  *)
(* closing tag of j.                                                       *)
GoesOnAt(d, text, j, n, p) ==
    IF n = j - 1
    THEN Blank(text, p, d[j].close)
    ELSE \E c \in n + 1 .. j - 1 : /\ d[c].parent = j /\ d[c].first = n + 1
                                   /\ Blank(text, p, d[c].open)

Tagged(e, text) ==
    /\ Written(text, e.open, <<"<">> \o TagOf(e) \o <<">">>)
    /\ ~Single(e) => /\ Body(e) <= e.close
                     /\ Written(text, e.close, <<"<", "/">> \o e.name \o <<">">>)

Filled(e, text) ==
    /\ ~Single(e)
    /\ e.content # <<>> /\ e.content[1] # " " /\ e.content[Len(e.content)] # " "
    /\ Blank(text, Body(e), e.start)
    /\ Written(text, e.start, e.content)
    /\ Blank(text, e.start + Len(e.content), e.close)

Nested(d, j) ==
    LET e == d[j]
        p == d[e.parent]
    IN  /\ e.parent \in j + 1 .. Len(d)
        /\ ~Single(p) /\ p.content = Null
        /\ p.first <= e.first /\ p.depth + 1 = e.depth

IsElement(d, j, text) ==
    LET e == d[j]
    IN  /\ e \in Elements /\ e.first \in 1 .. j /\ Tagged(e, text)
        /\ e.content # Null => e.first = j /\ Filled(e, text)
        /\ Single(e) => e.first = j
        /\ e.content = Null /\ ~Single(e) =>
              /\ GoesOnAt(d, text, j, e.first - 1, Body(e))
              /\ \A c \in DOMAIN d :
                    d[c].parent = j => GoesOnAt(d, text, j, c, After(d[c]))
        /\ IF j = Len(d)
           THEN e.parent = 0 /\ e.first = 1 /\ e.depth = 1 /\ Blank(text, 1, e.open)
           ELSE Nested(d, j)

(* text is a print of the document d, or begins with it, or is cut off.    *)
IsPrint(d, text) == /\ d \in Seq(Elements) /\ d # <<>>
                    /\ \A j \in DOMAIN d : IsElement(d, j, text)

Whole(d, text) == \A j \in DOMAIN d : After(d[j]) <= Len(text) + 1

(* The node that stands for an element, its attributes with their places   *)
(* in the tag; and the tree.                                               *)
NodeFor(e) ==
    LET attributes == {k \in DOMAIN e.words : e.words[k] \in Assignments}
    IN  [name       |-> e.name,
         attributes |-> {<<Len(e.name) + 2 * k, e.words[k]>> : k \in attributes},
         content    |-> e.content,
         depth      |-> e.depth]

TreeOf(d) == [j \in DOMAIN d |-> NodeFor(d[j])]

=============================================================================
