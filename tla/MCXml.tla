------------------------------- MODULE MCXml -------------------------------
(* The texts that Xml is checked with: small trees, printed with and       *)
(* without white space, whole, cut off at any place, and with faults.      *)
EXTENDS Xml, SequencesExt

Node(name, attributes, content, children) ==
    [name |-> <<name>>, attributes |-> attributes, content |-> content,
     children |-> children]

Leaves == {Node(name, <<>>, content, <<>>) :
              name \in {"a", "b"}, content \in {Null, <<"x">>, <<"x", " ", "y">>}}
          \cup {Node("a", <<"k">>, Null, <<>>)}

Bare(nodes) == {n \in nodes : n.content = Null}

Parents(nodes) ==
    {Node("a", attributes, Null, <<child>>) :
        attributes \in {<<>>, <<"k", "l">>}, child \in nodes}
    \cup {Node("b", <<>>, Null, <<child, other>>) :
            child \in nodes, other \in Bare(Leaves)}

(* The text and the elements so far, and a node after them. One without    *)
(* content or children has two tags, or, if closed, one. The elements that *)
(* have no parent yet, from the node's first on, are its children.         *)
RECURSIVE Printed(_, _, _, _, _)
Printed(done, node, depth, closed, gap) ==
    LET empty == node.content = Null /\ node.children = <<>>
        element == [name    |-> node.name,
                    words   |-> node.attributes
                                \o IF closed /\ empty THEN <<"/">> ELSE <<>>,
                    content |-> node.content,
                    parent  |-> 0, first |-> Len(done.document) + 1,
                    depth   |-> depth,
                    open    |-> Len(done.text) + 1, start |-> 0, close |-> 0]
        opened == done.text \o <<"<">> \o TagOf(element) \o <<">">> \o gap
        content == IF node.content = Null THEN <<>> ELSE node.content \o gap
        inner == FoldLeft(LAMBDA sofar, child :
                             [Printed(sofar, child, depth + 1, closed, gap)
                                 EXCEPT !.text = @ \o gap],
                          [done EXCEPT !.text = opened \o content], node.children)
        kept(c) == IF c >= element.first /\ inner.document[c].parent = 0
                   THEN [inner.document[c] EXCEPT !.parent = Len(inner.document) + 1]
                   ELSE inner.document[c]
    IN  IF closed /\ empty
        THEN [text     |-> SubSeq(opened, 1, Len(opened) - Len(gap)),
              document |-> Append(done.document, element)]
        ELSE [text     |-> inner.text \o <<"<", "/">> \o node.name \o <<">">>,
              document |-> Append([c \in DOMAIN inner.document |-> kept(c)],
                                  [element EXCEPT !.start = Len(opened) + 1,
                                                  !.close = Len(inner.text) + 1])]

(* Names are one symbol long, and the text has white space around it.      *)
PrintsOf(trees) ==
    UNION {{[text |-> print.text \o gap, document |-> print.document] :
               print \in {Printed([text |-> gap, document |-> <<>>], tree, 1, closed, gap) :
                             tree \in trees, closed \in BOOLEAN}} :
           gap \in {<<>>, <<" ">>}}

Input(text, document, opened) ==
    [text |-> text, document |-> document, opened |-> opened]

Prints == PrintsOf(Leaves \cup Parents(Leaves) \cup Parents(Parents(Bare(Leaves))))

Documents == {Input(p.text, p.document, opened) : p \in Prints, opened \in BOOLEAN}

(* In the caller's buffer. *)
CutOff == UNION {{Input(SubSeq(p.text, 1, n), p.document, FALSE) :
                     n \in 0 .. Len(p.text) - 1} : p \in Prints}

(* Those of two levels, with a byte missing, or a space before the byte.   *)
Faulty == UNION {{Input(text, Unknown, TRUE) :
                     text \in UNION {{RemoveAt(p.text, n), InsertAt(p.text, n, " ")} :
                                        n \in 1 .. Len(p.text)}} :
                 p \in PrintsOf(Parents(Bare(Leaves)))}

SomeInputs == Documents \cup CutOff \cup Faulty

=============================================================================
