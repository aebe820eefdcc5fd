------------------------------- MODULE Element -------------------------------
(***************************************************************************)
(* mxml::Element (src/src/mxml/element.cc, element.h): an XML element with *)
(* an attribute list and a child list, as its mutating operations and the  *)
(* loops of removeWhitespace, indent and removeElementChild.  A child is a *)
(* record: an element with a name, a text with one of three contents, or a *)
(* comment with its "indent with LF before" flag.  Text contents are       *)
(* abstracted to what trim_string and string_ok tell apart: "blank" (trims *)
(* to the empty string), "word" (already trimmed) and "padded" (trims to a *)
(* word).  A text also has its mxml_value_type.  Child elements are       *)
(* leaves: the recursion of removeWhitespace and indent into them runs the *)
(* same loops one level down.  An attribute's value type is left out.      *)
(***************************************************************************)
EXTENDS Integers, Sequences, FiniteSets, SequencesExt

CONSTANTS
    Names,        \* element and attribute names
    Values,       \* attribute values
    NULL,         \* the null String (removeElementChild(nullptr, ...))
    ValueTypes,   \* mxml_value_type values, mxml_string_type ("string") among them
    MaxChildren,  \* children appended or inserted by the model, at most
    MaxAttrs      \* attributes added by the model, at most

Texts == {"blank", "word", "padded"}

Nodes ==
    [kind : {"element"}, name : Names]
    \cup [kind : {"text"}, text : Texts, vtype : ValueTypes]
    \cup [kind : {"comment"}, lf : BOOLEAN]

\* The text indent inserts: a newline followed by spaces, made by Text's
\* one-argument constructor (not in the repository), taken to give the
\* default type of every mxml call, mxml_string_type.
IndentText == [kind |-> "text", text |-> "blank", vtype |-> "string"]

VARIABLES
    children,     \* Element::children, in order
    attributes    \* Element::attributes, in order: [name, value] records

vars == <<children, attributes>>

-----------------------------------------------------------------------------
(* Queries *)

\* trim_string of a text's content, and string_ok of the result.
Trim(t) == IF t = "padded" THEN "word" ELSE t
TextOk(t) == Trim(t) # "blank"

\* Positions of the children of a kind ("all" for every child).
OfKind(c, kind) == {i \in 1..Len(c) : kind = "all" \/ c[i].kind = kind}

\* getChild(index, type): the 1-based position of the index-th (0-based)
\* child of the kind, or 0 for nullptr.
ChildPos(c, index, kind) ==
    LET P == {i \in OfKind(c, kind) :
                Cardinality({j \in OfKind(c, kind) : j <= i}) = index + 1}
    IN IF P = {} THEN 0 ELSE CHOOSE i \in P : TRUE

\* getChildIdByName: the first element child with the name (any element
\* for NULL), 0 for -1.
ChildIdByName(c, name) ==
    LET P == {i \in OfKind(c, "element") : name = NULL \/ c[i].name = name}
    IN IF P = {} THEN 0 ELSE CHOOSE i \in P : \A j \in P : i <= j

\* getAttribute(name): the value of the first attribute with the name, or
\* NULL.
GetAttribute(attrs, name) ==
    LET P == {i \in 1..Len(attrs) : attrs[i].name = name}
    IN IF P = {} THEN NULL ELSE attrs[CHOOSE i \in P : \A j \in P : i <= j].value

-----------------------------------------------------------------------------
(* The loops *)

\* One turn of getVTypeText's loop over a text of type t, with the flag
\* someText and the type vt found so far.
VTypeStepNoFirst(some, vt, t) == IF vt # t THEN "string" ELSE vt

VTypeStep(some, vt, t) ==
    IF ~some THEN t ELSE IF vt # t THEN "string" ELSE vt

\* getVTypeText's loop from the index-th text child on.
RECURSIVE VTypeFrom(_, _, _, _)
VTypeFrom(c, i, some, vt) ==
    LET p == ChildPos(c, i, "text")
    IN IF p = 0 THEN vt ELSE VTypeFrom(c, i + 1, TRUE, VTypeStep(some, vt, c[p].vtype))

GetVTypeText(c) == VTypeFrom(c, 0, FALSE, "string")

\* The loop index after removeChild(i--) and the loop's i++.
IndexAfterRemoveForward(i) == i + 1

IndexAfterRemove(i) == i

\* removeWhitespace, from loop index i (0-based) with numChildren = num.
RECURSIVE RemoveWhitespaceFrom(_, _, _)
RemoveWhitespaceFrom(c, i, num) ==
    IF i >= num THEN c
    ELSE LET node == c[i + 1]
         IN IF node.kind = "text" /\ TextOk(node.text)
               THEN RemoveWhitespaceFrom(
                        [c EXCEPT ![i + 1].text = Trim(node.text)], i + 1, num)
            ELSE IF node.kind = "text" /\ num # 1
               THEN RemoveWhitespaceFrom(
                        RemoveAt(c, i + 1), IndexAfterRemove(i), num - 1)
            ELSE RemoveWhitespaceFrom(c, i + 1, num)

RemoveWhitespaceResult(c) == RemoveWhitespaceFrom(c, 0, Len(c))

\* Whether indent puts a newline and indentation before the child.
NewlineBeforeAlways(node) == TRUE

NewlineBefore(node) == node.kind # "comment" \/ node.lf

\* The insertion loop of indent, from loop index i with numChildren = num.
RECURSIVE IndentFrom(_, _, _)
IndentFrom(c, i, num) ==
    IF i >= num THEN c
    ELSE IF NewlineBefore(c[i + 1])
            THEN IndentFrom(InsertAt(c, i + 1, IndentText), i + 2, num + 1)
            ELSE IndentFrom(c, i + 1, num)

\* indent(level): removeWhitespace, then, if no child is a text, the
\* indentation before the children and after the last one.
IndentResult(c) ==
    LET d == RemoveWhitespaceResult(c)
    IN IF d = <<>> \/ OfKind(d, "text") # {} THEN d
       ELSE Append(IndentFrom(d, 0, Len(d)), IndentText)

\* Whether removeElementChild goes on after removing one child.
RemovesAgainNever(removeAll) == FALSE

RemovesAgain(removeAll) == removeAll

\* removeElementChild(name, removeAll): the children it leaves.
RECURSIVE RemoveElementChildResult(_, _, _)
RemoveElementChildResult(c, name, removeAll) ==
    LET id == ChildIdByName(c, name)
    IN IF id = 0 THEN c
       ELSE IF RemovesAgain(removeAll)
               THEN RemoveElementChildResult(RemoveAt(c, id), name, removeAll)
               ELSE RemoveAt(c, id)

-----------------------------------------------------------------------------
(* Operations *)

Init ==
    /\ children = <<>>
    /\ attributes = <<>>

AppendChild(node) ==
    /\ Len(children) < MaxChildren
    /\ children' = Append(children, node)
    /\ UNCHANGED attributes

InsertChild(index, node) ==
    /\ Len(children) < MaxChildren
    /\ index \in 0..Len(children)
    /\ children' = InsertAt(children, index + 1, node)
    /\ UNCHANGED attributes

\* removeChild(index, type): by position, or the index-th child of a kind
\* through getChild(index, type, true), which does nothing if there is none.
RemoveChild(index, kind) ==
    /\ kind = "all" => index \in 0..Len(children) - 1
    /\ children' = IF ChildPos(children, index, kind) = 0 THEN children
                   ELSE RemoveAt(children, ChildPos(children, index, kind))
    /\ UNCHANGED attributes

RemoveElementChild(name, removeAll) ==
    /\ children' = RemoveElementChildResult(children, name, removeAll)
    /\ UNCHANGED attributes

RemoveWhitespace ==
    /\ children' = RemoveWhitespaceResult(children)
    /\ UNCHANGED attributes

Indent ==
    /\ children' = IndentResult(children)
    /\ UNCHANGED attributes

\* setText throws (nothing changes) on more than one child or a non-text
\* only child, replaces the only text child's content (Text::setText keeps
\* the child's type), or appends a text of the type.
SetText(str, type) ==
    /\ \/ /\ Len(children) > 1 \/ (Len(children) = 1 /\ children[1].kind # "text")
          /\ UNCHANGED children
       \/ /\ Len(children) = 1 /\ children[1].kind = "text"
          /\ children' = [children EXCEPT ![1].text = str]
       \/ /\ children = <<>>
          /\ children' = <<[kind |-> "text", text |-> str, vtype |-> type]>>
    /\ UNCHANGED attributes

\* setAttribute updating the last attribute of the name.
SetAttributeLast(name, value) ==
    /\ LET P == {i \in 1..Len(attributes) : attributes[i].name = name}
       IN IF P = {}
             THEN /\ Len(attributes) < MaxAttrs
                  /\ attributes' = Append(attributes, [name |-> name, value |-> value])
             ELSE attributes' = [attributes EXCEPT
                      ![CHOOSE i \in P : \A j \in P : i >= j].value = value]
    /\ UNCHANGED children

\* setAttribute updates the first attribute of the name or appends one.
SetAttribute(name, value) ==
    /\ LET P == {i \in 1..Len(attributes) : attributes[i].name = name}
       IN IF P = {}
             THEN /\ Len(attributes) < MaxAttrs
                  /\ attributes' = Append(attributes, [name |-> name, value |-> value])
             ELSE attributes' = [attributes EXCEPT
                      ![CHOOSE i \in P : \A j \in P : i <= j].value = value]
    /\ UNCHANGED children

\* addAttribute appends, whether or not the name is already there.
AddAttribute(name, value) ==
    /\ Len(attributes) < MaxAttrs
    /\ attributes' = Append(attributes, [name |-> name, value |-> value])
    /\ UNCHANGED children

Next ==
    \/ \E node \in Nodes : AppendChild(node)
    \/ \E node \in Nodes, index \in 0..MaxChildren : InsertChild(index, node)
    \/ \E index \in 0..MaxChildren, kind \in {"all", "element", "text", "comment"} :
          RemoveChild(index, kind)
    \/ \E name \in Names \cup {NULL}, removeAll \in BOOLEAN :
          RemoveElementChild(name, removeAll)
    \/ RemoveWhitespace
    \/ Indent
    \/ \E str \in Texts, type \in ValueTypes : SetText(str, type)
    \/ \E name \in Names, value \in Values :
          SetAttribute(name, value) \/ AddAttribute(name, value)

Spec == Init /\ [][Next]_vars

-----------------------------------------------------------------------------
(* Reference definitions and properties *)

IsWhitespaceText(node) == node.kind = "text" /\ ~TextOk(node.text)

TrimNode(node) ==
    IF node.kind = "text" THEN [node EXCEPT !.text = Trim(node.text)] ELSE node

\* What removeWhitespace is for: drop the whitespace-only texts, trim the
\* other texts, keep the rest in order; an element whose children are all
\* whitespace texts keeps one of them (the last), so it does not lose its
\* text child altogether.
RemoveWhitespaceRef(c) ==
    IF c # <<>> /\ \A i \in 1..Len(c) : IsWhitespaceText(c[i])
       THEN <<c[Len(c)]>>
       ELSE LET kept == SelectSeq(c, LAMBDA node : ~IsWhitespaceText(node))
            IN [i \in 1..Len(kept) |-> TrimNode(kept[i])]

\* What indent is for: on an element without text children (after
\* removeWhitespace), a line break with indentation before every child but
\* a comment that asks for none, and one after the last child.
IndentRef(c) ==
    LET d == RemoveWhitespaceRef(c)
        before(node) == IF node.kind = "comment" /\ ~node.lf
                           THEN <<node>> ELSE <<IndentText, node>>
    IN IF d = <<>> \/ \E i \in 1..Len(d) : d[i].kind = "text" THEN d
       ELSE FlattenSeq([i \in 1..Len(d) |-> before(d[i])]) \o <<IndentText>>

\* removeWhitespace's loop, which removes from the list it walks and steps
\* its index and bound back (removeChild(i--), --numChildren), computes the
\* reference result on every child list the element can have.
RemoveWhitespaceCorrect ==
    RemoveWhitespaceResult(children) = RemoveWhitespaceRef(children)

\* indent's insertion loop, which inserts into the list it walks
\* (insertChild(i++, ...), numChildren++), puts indentation exactly before
\* the children that want it and after the last one, on every child list.
IndentCorrect == IndentResult(children) = IndentRef(children)

\* removeElementChild(name, true), which looks the child up again after
\* every removal, removes exactly the element children with the name (every
\* element child for a null name) and keeps the other children in order.
RemoveAllCorrect ==
    \A name \in Names \cup {NULL} :
        RemoveElementChildResult(children, name, TRUE)
            = SelectSeq(children, LAMBDA node :
                  ~(node.kind = "element" /\ (name = NULL \/ node.name = name)))

\* getVTypeText's loop, which takes the first text's type and falls back to
\* mxml_string_type at the first text of another type, gives the type
\* all text children share, and mxml_string_type when there is none or
\* they differ.
VTypeTextCorrect ==
    LET types == {children[i].vtype : i \in OfKind(children, "text")}
    IN GetVTypeText(children) =
          IF Cardinality(types) = 1 THEN CHOOSE t \in types : TRUE ELSE "string"

\* setAttribute and getAttribute agree on which attribute of a name they
\* use: after setAttribute(name, value), getAttribute(name) is value, also
\* when addAttribute has put several attributes of the name on the list.
SetAttributeRead ==
    [][\A name \in Names, value \in Values :
          SetAttribute(name, value) => GetAttribute(attributes', name) = value]_vars

=============================================================================
