-------------------------------- MODULE XmlTree --------------------------------
(***************************************************************************)
(* The XML documents of rapidxml.cpp.  A document owns its nodes, which    *)
(* are objects of their own for Lua; nodes are added and removed by any of *)
(* them, also while a loop over children() is under way.                   *)
(***************************************************************************)
EXTENDS Integers, Sequences, SequencesExt, FiniteSets

CONSTANTS
  Names,     \* names of elements
  Texts,     \* values of nodes
  Attributes,    \* values of attributes
  Leaves,    \* the types of nodes that have no name: data, cdata, comment
  MaxNodes   \* bound: the nodes of a document

XmlAssumption ==
  MaxNodes \in Nat \ {0} /\ "data" \in Leaves /\ Leaves \cap {"element", "declaration"} = {}

VARIABLES
  doc,      \* the userdata of the document, and whether it is collected
  using,    \* the program holds a node
  nodes,    \* the nodes that were allocated
  children, \* the children of each node, and of the document
  loop,     \* the loop over children() that is under way
  ended,    \* history: why the program ended
  declared, \* history: the attributes of the declaration that were set last
  source    \* the Lua string that can be parsed

vars == <<doc, using, nodes, children, loop, ended, declared, source>>

Document == 0
None == "none"
Node(type, name, value) == [type |-> type, name |-> name, value |-> value, attr |-> None]
NoLoop == [on |-> FALSE]
TopLevel(list, count) == [p \in 0 .. count |-> IF p = Document THEN list ELSE <<>>]

(* What append, prepend and insert make, and what parse finds. *)
NewNodes ==
  {Node("element", name, value) : name \in Names, value \in Texts \cup {None}}
  \cup {Node(type, None, value) : type \in Leaves, value \in Texts}

AllNodes ==
  [type : Leaves \cup {"element", "declaration"}, name : Names \cup {None},
   value : Texts \cup {None}, attr : Attributes \cup {None}]

ChildLoops ==
  [on : {TRUE}, parent : DOMAIN nodes, name : Names \cup {None}, last : {0} \cup DOMAIN nodes,
   kept : SUBSET DOMAIN nodes, seen : SUBSET DOMAIN nodes]

TypeOK ==
  /\ doc \in {"none", "held", "dropped", "freed"} /\ using \in BOOLEAN
  /\ nodes \in Seq(AllNodes) /\ Len(nodes) <= MaxNodes
  /\ \A n \in DOMAIN nodes : nodes[n].type \in Leaves => nodes[n].name = None /\ nodes[n].value \in Texts
  /\ children \in [0 .. Len(nodes) -> Seq(DOMAIN nodes)]
  /\ loop \in ChildLoops \cup {NoLoop}
  /\ ended \in {"no", "sibling", "root", "string"}
  /\ source \in {"whole", "cut"}

Init ==
  /\ doc = "none" /\ using = FALSE /\ nodes = <<>> /\ children = TopLevel(<<>>, 0)
  /\ loop = NoLoop /\ ended = "no" /\ declared = None /\ source = "whole"

-----------------------------------------------------------------------------
(* Documents. *)

Runs == ended = "no" /\ doc # "freed"
Holds == Runs /\ doc = "held"

Made(tops) ==
  /\ ended = "no" /\ doc = "none"
  /\ doc' = "held" /\ nodes' = tops /\ loop' = NoLoop
  /\ children' = TopLevel([n \in DOMAIN tops |-> n], Len(tops))
  /\ UNCHANGED <<using, ended>>

(* rapidxml.new(name). *)
New(name) == Made(<<Node("element", name, None)>>) /\ UNCHANGED <<declared, source>>

Declaration(attr) == [Node("declaration", None, None) EXCEPT !.attr = attr]

(* rapidxml.parse(data, types) cuts the string of the caller at the ends of *)
(* names and values.  The element is its text, and a child with that text; *)
(* a string that was parsed before is not well-formed any more.            *)
Parse(name, text, attr) ==
  LET element == Node("element", name, text)
      data == Node("data", None, text)
  IN /\ ended = "no" /\ doc = "none" /\ MaxNodes >= 3
     /\ IF source = "cut" THEN ended' = "string" /\ UNCHANGED <<doc, nodes, children, declared, source>>
        ELSE /\ doc' = "held" /\ source' = "cut" /\ declared' = attr
             /\ nodes' = IF attr = None THEN <<element, data>> ELSE <<element, data, Declaration(attr)>>
             /\ children' = [TopLevel(IF attr = None THEN <<1>> ELSE <<3, 1>>, Len(nodes')) EXCEPT ![1] = <<2>>]
             /\ UNCHANGED ended
     /\ UNCHANGED <<using, loop>>

(* The program drops its reference to the document, and __gc frees it; the  *)
(* objects of its nodes do not keep it.                                    *)
Drop ==
  /\ Holds
  /\ doc' = "dropped"
  /\ UNCHANGED <<using, nodes, children, loop, ended, declared, source>>

Collect ==
  /\ Runs /\ doc = "dropped"
  /\ doc' = "freed"
  /\ UNCHANGED <<using, nodes, children, loop, ended, declared, source>>

(* A new document, when the program has done with the last one. *)
Again ==
  /\ ended = "no" /\ doc = "freed" /\ ~using
  /\ doc' = "none" /\ nodes' = <<>> /\ children' = TopLevel(<<>>, 0) /\ declared' = None
  /\ UNCHANGED <<using, loop, ended, source>>

(* The places of a list where there is an element, or a declaration. *)
Elements(list) == {i \in DOMAIN list : nodes[list[i]].type = "element"}
Declarations(list) == {i \in DOMAIN list : nodes[list[i]].type = "declaration"}

(* doc:root() looks for an element and does not test for the end. *)
Root ==
  /\ Holds
  /\ IF Elements(children[Document]) = {} THEN ended' = "root" /\ UNCHANGED using
     ELSE using' = TRUE /\ UNCHANGED ended
  /\ UNCHANGED <<doc, nodes, children, loop, declared, source>>

(* The last declaration is the one that is replaced, or reported. *)
Others(list) ==
  IF Declarations(list) = {} THEN list
  ELSE RemoveAt(list, CHOOSE i \in Declarations(list) : \A j \in Declarations(list) : j <= i)

(* The lists, when a node was allocated and the children of p became list.  *)
Grown(p, list) ==
  [q \in 0 .. Len(nodes) + 1 |-> CASE q = p -> list
                                   [] q # p /\ q <= Len(nodes) -> children[q]
                                   [] OTHER -> <<>>]

(* doc:declaration{...}: the old one is removed, then the attributes are    *)
(* read, then the new one becomes the first node.                          *)
SetDeclaration(attr) ==
  /\ Holds /\ Len(nodes) < MaxNodes
  /\ nodes' = Append(nodes, Declaration(attr))
  /\ children' = Grown(Document, <<Len(nodes')>> \o Others(children[Document]))
  /\ declared' = attr
  /\ UNCHANGED <<doc, using, loop, ended, source>>

(* An attribute has a wrong type: the old declaration is gone. *)
SetDeclarationRaises ==
  /\ Holds
  /\ children' = [children EXCEPT ![Document] = Others(@)] /\ declared' = None
  /\ UNCHANGED <<doc, using, nodes, loop, ended, source>>

-----------------------------------------------------------------------------
(* Nodes. *)

Uses(n) == Runs /\ using /\ n \in DOMAIN nodes
Parents(n) == {p \in DOMAIN children : Contains(children[p], n)}
ParentOf(n) == CHOOSE p \in Parents(n) : TRUE

(* Where in the list of p a new node goes: before it there are `before`.    *)
Adds(p, before, node) ==
  /\ Len(nodes) < MaxNodes /\ node \in NewNodes
  /\ nodes' = Append(nodes, node)
  /\ children' = Grown(p, InsertAt(children[p], before + 1, Len(nodes')))
  /\ UNCHANGED <<doc, using, loop, ended, declared, source>>

AppendNode(p, node) == Uses(p) /\ Adds(p, Len(children[p]), node)

PrependNode(p, node) == Uses(p) /\ Adds(p, 0, node)

MayInsert(n) == Parents(n) # {} /\ ParentOf(n) # Document

Place(n, list) == CHOOSE i \in DOMAIN list : list[i] = n

InsertNode(n, node) ==
  /\ Uses(n) /\ MayInsert(n)
  /\ LET p == ParentOf(n) IN Adds(p, Place(n, children[p]) - 1, node)

(* The declaration that is in force, if n is not it. *)
StillDeclared(n) == IF Contains(children[Document], n) /\ nodes[n].type = "declaration" THEN None ELSE declared

RemoveNode(n) ==
  /\ Uses(n) /\ Parents(n) # {}
  /\ children' = [children EXCEPT ![ParentOf(n)] = RemoveAt(@, Place(n, @))]
  /\ loop' = IF loop.on THEN [loop EXCEPT !.kept = @ \ {n}] ELSE loop
  /\ declared' = StillDeclared(n)
  /\ UNCHANGED <<doc, using, nodes, ended, source>>

(* node:value(text). *)
SetValue(n, text) ==
  /\ Uses(n) /\ nodes[n].type # "declaration"
  /\ nodes' = [nodes EXCEPT ![n].value = text]
  /\ UNCHANGED <<doc, using, children, loop, ended, declared, source>>

(* node:attr(key, value), node:attr{...} and node:delattr(key).             *)
SetAttr(n, attr) ==
  /\ Uses(n)
  /\ nodes' = [nodes EXCEPT ![n].attr = attr]
  /\ declared' = IF StillDeclared(n) = declared THEN declared ELSE attr
  /\ UNCHANGED <<doc, using, children, loop, ended, source>>

(* node:next() and node:prev() of a node that was removed fail an assertion *)
(* of rapidxml.                                                            *)
AskSibling(n) ==
  /\ Uses(n)
  /\ ended' = IF Parents(n) = {} THEN "sibling" ELSE ended
  /\ UNCHANGED <<doc, using, nodes, children, loop, declared, source>>

-----------------------------------------------------------------------------
(* for child in node:children([name]) do ... end, with calls in its body.   *)

Fits(n, name) == name = None \/ nodes[n].name = name

StartLoop(p, name) ==
  /\ Uses(p) /\ ~loop.on
  /\ loop' = [on |-> TRUE, parent |-> p, name |-> name, last |-> 0,
              kept |-> {n \in Range(children[p]) : Fits(n, name)}, seen |-> {}]
  /\ UNCHANGED <<doc, using, nodes, children, ended, declared, source>>

(* A mutant of From: the loop counts instead of following the siblings.    *)
FromCount(list) == Cardinality(loop.seen) + 1

(* The first child, or the sibling after the last node. *)
From(list) == IF loop.last = 0 THEN 1 ELSE Place(loop.last, list) + 1

NextChild ==
  LET siblings == IF loop.last = 0 THEN children[loop.parent] ELSE children[ParentOf(loop.last)]
      rest == {i \in From(siblings) .. Len(siblings) : Fits(siblings[i], loop.name)}
      next == siblings[CHOOSE i \in rest : \A j \in rest : i <= j]
  IN /\ Runs /\ loop.on
     /\ IF loop.last # 0 /\ Parents(loop.last) = {} THEN ended' = "sibling" /\ UNCHANGED loop
        ELSE /\ loop' = IF rest = {} THEN NoLoop
                        ELSE [loop EXCEPT !.last = next, !.seen = @ \cup {next}]
             /\ UNCHANGED ended
     /\ UNCHANGED <<doc, using, nodes, children, declared, source>>

Next ==
  \/ \E name \in Names : New(name) \/ \E text \in Texts, attr \in Attributes \cup {None} : Parse(name, text, attr)
  \/ Drop \/ Collect \/ Again \/ Root \/ SetDeclarationRaises
  \/ \E attr \in Attributes : SetDeclaration(attr)
  \/ \E n \in 1..MaxNodes :
       \/ \E node \in NewNodes : AppendNode(n, node) \/ PrependNode(n, node) \/ InsertNode(n, node)
       \/ RemoveNode(n) \/ AskSibling(n)
       \/ \E text \in Texts : SetValue(n, text)
       \/ \E attr \in Attributes \cup {None} : SetAttr(n, attr)
       \/ \E name \in Names \cup {None} : StartLoop(n, name)
  \/ NextChild

Spec == Init /\ [][Next]_vars

-----------------------------------------------------------------------------
(* Properties. *)

(* The document has one element at its top, which doc:root() finds,        *)
(* whatever was inserted next to it; or none when that was removed.        *)
OneRoot ==
  LET top == children[Document]
  IN Elements(top) = {} \/ \E i \in DOMAIN top : Elements(top) = {i} /\ top[i] = 1

(* What doc:declaration() reports, and dump writes first, is what was set   *)
(* last, by declaration{...} or through the node.                          *)
DeclarationIsSet ==
  declared # None =>
    /\ Declarations(children[Document]) = {1}
    /\ nodes[Head(children[Document])].attr = declared

(* A loop over children() meets each child that is there from its start to  *)
(* its end once, whatever its body adds and removes.                       *)
MetOnce ==
  /\ loop.on /\ loop'.on /\ loop' # loop /\ loop'.last # loop.last => loop'.last \notin loop.seen
  /\ loop.on /\ ~loop'.on => loop.kept \subseteq loop.seen

(* The value of an element is the text that dump writes for it: the value   *)
(* itself, or that of a text that is its only child.                       *)
Dumped(n) ==
  LET list == children[n]
  IN IF list = <<>> THEN nodes[n].value
     ELSE IF Len(list) = 1 /\ nodes[list[1]].type = "data" THEN nodes[list[1]].value ELSE None

(* The value of every element is what dump writes for it.                   *)
(* The code does not keep it: README, "Disagreements".                      *)
ValueIsDumped ==
  \A n \in DOMAIN nodes : nodes[n].type = "element" /\ nodes[n].value # None => Dumped(n) = nodes[n].value

(* A node that the program holds belongs to a document that is not freed.   *)
(* The code does not keep it: README, "Disagreements".                      *)
NodeOfLiveDocument == using => doc # "freed"

(* A well-formed text can be parsed, however often it was parsed before.    *)
(* The code does not keep it: README, "Disagreements".                      *)
ParsesAgain == ended # "string"

(* What every step of the component keeps. *)
SafeStep == MetOnce /\ TypeOK' /\ OneRoot' /\ DeclarationIsSet'
Safety == [][SafeStep]_vars

-----------------------------------------------------------------------------
(* What makes them so: a node is in one list and once in it, the elements   *)
(* and declarations of the document are where the code put them; and while *)
(* a loop is under way the nodes behind the one it met last were not met,  *)
(* and those before it that stayed were.                                   *)

EachNodeOnce ==
  \A p, q \in DOMAIN children : \A i \in DOMAIN children[p], j \in DOMAIN children[q] :
    children[p][i] = children[q][j] => p = q /\ i = j

TopIsOrdered ==
  \A p \in DOMAIN children : \A i \in DOMAIN children[p] :
    /\ nodes[children[p][i]].type = "declaration" => p = Document /\ i = 1
    /\ nodes[children[p][i]].type = "element" /\ p = Document => children[p][i] = 1

NeedsDocument == (doc = "none" => ~using /\ declared = None) /\ (loop.on => using)

Before(list, m, n) == \E i, j \in DOMAIN list : i < j /\ list[i] = m /\ list[j] = n

LoopFollows ==
  LET list == children[loop.parent]
  IN loop.on =>
       /\ loop.last \in loop.seen \cup {0} /\ (loop.last = 0 => loop.seen = {})
       /\ loop.last # 0 /\ Parents(loop.last) # {} => loop.last \in Range(list)
       /\ loop.kept \subseteq Range(list) /\ \A n \in loop.kept : Fits(n, loop.name)
       /\ loop.last # 0 =>
            /\ \A n \in loop.seen : ~Before(list, loop.last, n)
            /\ \A n \in loop.kept : n = loop.last \/ Before(list, n, loop.last) => n \in loop.seen

XmlInv ==
  TypeOK /\ OneRoot /\ DeclarationIsSet /\ EachNodeOnce /\ TopIsOrdered /\ NeedsDocument /\ LoopFollows

=============================================================================
