-------------------------------- MODULE Xml --------------------------------
(***************************************************************************)
(* xml.c: a recursive descent parser over one buffer, its tree of nodes    *)
(* and what it takes from the heap. The recursion of xml_parse_node is a   *)
(* stack of frames here, one step for each part of a node. (The picture    *)
(* server has a use of it that is compiled out.)                           *)
(*                                                                         *)
(* A text is a sequence of symbols. A letter stands for a run of bytes     *)
(* without space or markup; the members of Assignments for an attribute    *)
(* written key="value". Positions count from 1. A tree is the sequence of  *)
(* its nodes in the order of their creation, children before their parent, *)
(* each with its depth.                                                    *)
(***************************************************************************)
EXTENDS XmlDocument, FiniteSets, FiniteSetsExt

CONSTANTS Inputs,  (* records: a text; the document it is a print of, or   *)
                   (* of which it is the beginning, Unknown if it has a    *)
                   (* fault; whether it is in a file (opened) or in the    *)
                   (* caller's buffer                                      *)
          Unknown

VARIABLES input,     (* the member of Inputs                               *)
          stage,     (* begin, parse, parsed, failed, freed                *)
          position,  (* parser->position                                   *)
          stack,     (* calls of xml_parse_node, the innermost first       *)
          returned,  (* what the last call returned and nobody has kept    *)
                     (* yet: the tree of a node, or <<>> for NULL          *)
          live,      (* allocations not freed                              *)
          leaked     (* history: allocations nothing refers to             *)

vars == <<input, stage, position, stack, returned, live, leaked>>

ASSUME InputsAssumption == /\ \A i \in Inputs : /\ i.text \in Seq(Symbols)
                                                /\ i.opened \in BOOLEAN
                           /\ Null \notin Seq(Symbols)

ASSUME DocumentsAssumption ==
    \A i \in Inputs : i.document # Unknown => IsPrint(i.document, i.text)

Text == input.text

Length == Len(Text)

Init == /\ input \in Inputs
        /\ stage = "begin" /\ position = 1 /\ stack = <<>> /\ returned = <<>>
        /\ live = 0 /\ leaked = 0

-----------------------------------------------------------------------------
(* Reading. *)

Space(p) == Text[p] = " "

(* xml_parser_consume: the position never leaves the buffer, so that the   *)
(* last byte is read again.                                                *)
Clamp(p) == IF p > Length THEN Length ELSE p

(* The next byte that is not white space, or the end. *)
Solid[p \in 1 .. Length + 1] ==
    CHOOSE q \in p .. Length + 1 : /\ q > Length \/ ~Space(q)
                                   /\ \A r \in p .. q - 1 : Space(r)

(* xml_parser_peek for CURRENT_CHARACTER and NEXT_CHARACTER. *)
Peek(p) == IF Solid[p] > Length THEN Null ELSE Text[Solid[p]]

PeekNext(p) == IF Solid[p] > Length THEN Null ELSE Peek(Solid[p] + 1)

(* xml_skip_whitespace: the last byte is not skipped. *)
SkipWhitespace(p) == Clamp(Solid[p])

(* The loops of xml_parse_tag_end and xml_parse_content: bytes consumed    *)
(* from start until the mark is the next to come, or all have been.        *)
Run[start \in 1 .. Length] ==
    [mark \in {"<", ">"} |->
        CHOOSE n \in 0 .. Length + 1 - start :
           /\ start + n > Length \/ Peek(start + n) = mark
           /\ \A m \in 0 .. n - 1 : Peek(start + m) # mark]

(* xml_parse_tag_end: what it consumes after the name is one byte, `>' or  *)
(* the space before it.                                                    *)
TagEnd(start) ==
    LET n == Run[start][">"]
    IN  [ok   |-> Peek(Clamp(start + n)) = ">",
         name |-> SubSeq(Text, start, start + n - 1),
         next |-> Clamp(Clamp(start + n) + 1)]

(* xml_parse_tag_open, xml_parse_tag_close. *)
TagOpen(p) ==
    LET s == SkipWhitespace(p)
    IN  [TagEnd(Clamp(s + 1)) EXCEPT !.ok = @ /\ Peek(s) = "<"]

TagClose(p) ==
    LET s == SkipWhitespace(p)
    IN  [TagEnd(Clamp(s + 2)) EXCEPT !.ok = @ /\ Peek(s) = "<" /\ PeekNext(s) = "/"]

Trimmed(s) == SubSeq(s, 1, Max({0} \cup {i \in DOMAIN s : s[i] # " "}))

(* xml_parse_content. *)
Content(p) ==
    LET s == SkipWhitespace(p)
        n == Run[s]["<"]
    IN  [ok   |-> Peek(Clamp(s + n)) = "<",
         text |-> Trimmed(SubSeq(Text, s, s + n - 1)),
         next |-> Clamp(s + n)]

(* xml_find_attributes: tokens between spaces. The first gives its length  *)
(* to the name, which keeps its start; of the others those of the form     *)
(* key="value" are attributes, which point into the tag.                   *)
Starts(tag) == {i \in DOMAIN tag : tag[i] # " " /\ (i = 1 \/ tag[i - 1] = " ")}

Ends(tag) == {i \in DOMAIN tag : tag[i] # " " /\ (i = Len(tag) \/ tag[i + 1] = " ")}

NameOf(tag) == IF Starts(tag) = {} THEN tag
               ELSE SubSeq(tag, 1, Min(Ends(tag)) - Min(Starts(tag)) + 1)

(* Mutant: the name is taken for an attribute, too. *)
AttributesAll(tag) == {<<i, tag[i]>> : i \in Starts(tag)}

AttributesOf(tag) ==
    LET tokens == Starts(tag)
        first == Min(tokens)
    IN  {<<i, tag[i]>> : i \in {j \in tokens : j # first /\ tag[j] \in Assignments}}

SelfClosing(tag) == NameOf(tag) # <<>> /\ tag[Len(tag)] = "/"

-----------------------------------------------------------------------------
(* The heap: an attribute is three allocations, a node has an array of     *)
(* attributes and one of children.                                         *)

AttributesSize(attributes) == 1 + 3 * Cardinality(attributes)

NodeSize(node) == 3 + (IF node.content = Null THEN 0 ELSE 1)
                    + AttributesSize(node.attributes)

(* The sum of a sequence of numbers.                                       *)
Total(s) ==
    LET sum[i \in 0 .. Len(s)] == IF i = 0 THEN 0 ELSE sum[i - 1] + s[i]
    IN  sum[Len(s)]

(* xml_node_free frees as much. *)
NodesSize(nodes) == Total([i \in DOMAIN nodes |-> NodeSize(nodes[i])])

(* What a call of xml_parse_node holds: its array of children, and after   *)
(* the tag its name and attributes, and the content.                       *)
FrameSize(frame) ==
    1 + NodesSize(frame.children)
    + (IF frame.tag = Null THEN 0
       ELSE 1 + AttributesSize(AttributesOf(frame.tag)))
    + (IF frame.content = Null THEN 0 ELSE 1)

-----------------------------------------------------------------------------
(* The calls. *)

Call == [at |-> "open", tag |-> Null, content |-> Null, children |-> <<>>]

Top == stack[1]

At(point) == stage = "parse" /\ stack # <<>> /\ Top.at = point

Become(frame) == stack' = <<frame>> \o Tail(stack)

(* xml_parse_document, xml_open_document: no root in an empty buffer. *)
Begin == /\ stage = "begin"
         /\ IF Length = 0
            THEN stage' = "failed" /\ UNCHANGED <<stack, live>>
            ELSE /\ stage' = "parse"
                 /\ stack' = <<Call>>
                 /\ live' = live + 1 + (IF input.opened THEN 1 ELSE 0)
         /\ UNCHANGED <<input, position, returned, leaked>>

(* Mutant: exit_failure does not free the children. *)
FailKeepsChildren ==
    /\ stack' = Tail(stack)
    /\ returned' = <<>>
    /\ live' = live - 1
               - (IF Top.tag = Null THEN 0 ELSE 1)
               - (IF Top.content = Null THEN 0 ELSE 1)
    /\ leaked' = leaked + (IF Top.tag = Null THEN 0
                           ELSE AttributesSize(AttributesOf(Top.tag)))
    /\ UNCHANGED <<input, stage>>

(* exit_failure: the children, the tags and the content; not attributes.   *)
Fail ==
    /\ stack' = Tail(stack)
    /\ returned' = <<>>
    /\ live' = live - 1 - NodesSize(Top.children)
               - (IF Top.tag = Null THEN 0 ELSE 1)
               - (IF Top.content = Null THEN 0 ELSE 1)
    /\ leaked' = leaked + (IF Top.tag = Null THEN 0
                           ELSE AttributesSize(AttributesOf(Top.tag)))
    /\ UNCHANGED <<input, stage>>

(* node_creation. *)
Create(content) ==
    /\ stack' = Tail(stack)
    /\ returned' = Append(Top.children,
                   [name       |-> NameOf(Top.tag),
                    attributes |-> AttributesOf(Top.tag),
                    content    |-> content,
                    depth      |-> Len(stack)])
    /\ live' = live + 1
    /\ UNCHANGED <<input, stage, leaked>>

OpenTag ==
    /\ At("open")
    /\ \E tag \in {TagOpen(position)} :
          IF tag.ok
          THEN /\ Become([Top EXCEPT !.at = "body", !.tag = tag.name])
               /\ position' = tag.next
               /\ live' = live + 1 + AttributesSize(AttributesOf(tag.name))
               /\ UNCHANGED <<input, stage, returned, leaked>>
          ELSE Fail /\ UNCHANGED position

ClosesItself == /\ At("body")
                /\ SelfClosing(Top.tag)
                /\ Create(Null)
                /\ UNCHANGED position

ParseContent ==
    /\ At("body")
    /\ ~SelfClosing(Top.tag)
    /\ Peek(position) # "<"
    /\ \E content \in {Content(position)} :
          IF content.ok
          THEN /\ Become([Top EXCEPT !.at = "close", !.content = content.text])
               /\ position' = content.next
               /\ live' = live + 1
               /\ UNCHANGED <<input, stage, returned, leaked>>
          ELSE Fail /\ UNCHANGED position

HasChildren == /\ At("body")
               /\ ~SelfClosing(Top.tag)
               /\ Peek(position) = "<"
               /\ Become([Top EXCEPT !.at = "children"])
               /\ UNCHANGED <<input, stage, position, returned, live, leaked>>

(* while ('/' != NEXT_CHARACTER): a call for each child. *)
CallChild == /\ At("children")
             /\ IF PeekNext(position) = "/"
                THEN /\ Become([Top EXCEPT !.at = "close"])
                     /\ UNCHANGED live
                ELSE /\ stack' = <<Call, [Top EXCEPT !.at = "child"]>> \o Tail(stack)
                     /\ live' = live + 1
             /\ UNCHANGED <<input, stage, position, returned, leaked>>

(* Mutant: a child that fails is passed over. *)
KeepUnchecked == /\ At("child")
                 /\ Become([Top EXCEPT !.at = "children",
                                       !.children = IF returned = <<>> THEN @
                                                    ELSE @ \o returned])
                 /\ returned' = <<>>
                 /\ UNCHANGED <<input, stage, position, live, leaked>>

KeepChild == /\ At("child")
             /\ IF returned # <<>>
                THEN /\ Become([Top EXCEPT !.at = "children",
                                           !.children = @ \o returned])
                     /\ returned' = <<>>
                     /\ UNCHANGED <<input, stage, live, leaked>>
                ELSE Fail
             /\ UNCHANGED position

(* The closing tag has to be equal to the name. It is freed either way. *)
CloseTag ==
    /\ At("close")
    /\ \E tag \in {TagClose(position)} :
          /\ IF tag.ok /\ tag.name = NameOf(Top.tag)
             THEN Create(Top.content)
             ELSE Fail
          /\ position' = IF tag.ok THEN tag.next ELSE position

(* Back in xml_parse_document; xml_open_document frees its buffer. *)
End == /\ stage = "parse"
       /\ stack = <<>>
       /\ IF returned # <<>>
          THEN stage' = "parsed" /\ live' = live + 1
          ELSE stage' = "failed" /\ live' = live - (IF input.opened THEN 1 ELSE 0)
       /\ UNCHANGED <<input, position, stack, returned, leaked>>

(* xml_document_free, with the buffer if it was opened. *)
FreeDocument == /\ stage = "parsed"
                /\ stage' = "freed"
                /\ live' = live - NodesSize(returned) - 1
                           - (IF input.opened THEN 1 ELSE 0)
                /\ UNCHANGED <<input, position, stack, returned, leaked>>

ParseStep == \/ Begin \/ OpenTag \/ ClosesItself \/ ParseContent \/ HasChildren
             \/ CallChild \/ KeepChild \/ CloseTag \/ End

Next == ParseStep \/ FreeDocument

Spec == Init /\ [][Next]_vars

(* One thread runs the parser to its end. *)
FairSpec == Spec /\ WF_vars(ParseStep)

-----------------------------------------------------------------------------

Strings == Seq(Symbols) \cup {Null}

Attributes == {a \in SUBSET (Nat \X Assignments) : IsFiniteSet(a)}

XmlNodes == [name : Seq(Symbols), attributes : Attributes, content : Strings,
             depth : Nat]

Frames == [at : {"open", "body", "children", "child", "close"},
           tag : Strings, content : Strings, children : Seq(XmlNodes)]

(* Types; the position stays inside the buffer.                            *)
TypeOK ==
    /\ input \in Inputs
    /\ stage \in {"begin", "parse", "parsed", "failed", "freed"}
    /\ position = 1 \/ position \in 1 .. Length
    /\ stack \in Seq(Frames) /\ returned \in Seq(XmlNodes)
    /\ leaked \in Nat

(* What the printing of a tree puts into a text the parser gets out of it, *)
(* attributes and white space included; and it takes no text that stops    *)
(* before its end, although the last byte is read more than once.          *)
ParsesDocuments ==
    input.document # Unknown =>
        /\ stage \in {"parsed", "freed"} => /\ Whole(input.document, Text)
                                           /\ returned = TreeOf(input.document)
        /\ stage = "failed" => ~Whole(input.document, Text)

(* Every allocation belongs to a running call, to a node, or to the        *)
(* document, but for the attributes of the calls that fail, which no text  *)
(* that is parsed has; so none is freed twice, and nothing else is left    *)
(* after a failure or xml_document_free.                                   *)
HeapAccounted ==
    LET frames == Total([i \in DOMAIN stack |-> FrameSize(stack[i])])
        nodes == NodesSize(returned)
        buffer == IF input.opened THEN 1 ELSE 0
    IN  /\ live = leaked + CASE stage = "parse"  -> frames + nodes + buffer
                             [] stage = "parsed" -> nodes + 1 + buffer
                             [] OTHER            -> 0
        /\ stage \in {"parsed", "freed"} => leaked = 0

(* How many steps a call has before it, at most, until it is left or the  *)
(* position moves. A child that has returned moved it.                     *)
Rank(frame) == CASE frame.at = "open"     -> 1
                 [] frame.at = "body"     -> 6
                 [] frame.at = "children" -> 5
                 [] frame.at = "child"    -> 3
                 [] frame.at = "close"    -> 4

ToGo == CASE stage = "begin"  -> 6 * Length + 3
          [] stage = "parse"  -> 6 * (Length - position) + 2
                                 + Total([i \in DOMAIN stack |-> Rank(stack[i])])
                                 + (IF returned = <<>> THEN 0 ELSE 3)
          [] stage = "parsed" -> 1
          [] OTHER            -> 0

(* Whatever the text, every step brings the parser nearer to its end: no   *)
(* round of the loop over children, nor a read of the last byte again,     *)
(* leaves it where it was. So it makes 6 * Length + 3 steps at most.       *)
(* XmlProofs proves it.                                                    *)
NearsEnd == [][ToGo' \in 0 .. ToGo - 1]_vars

(* The loops over children and bytes end, whatever the text.               *)
ParseEnds == <>(stage \in {"parsed", "failed"})

=============================================================================
