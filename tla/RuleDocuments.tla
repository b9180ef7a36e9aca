--------------------------- MODULE RuleDocuments ---------------------------
(***************************************************************************)
(* segment-rules.util.ts: the segments a rule document refers to.  A       *)
(* document is a JSON value; a string is the id it spells, a number, a     *)
(* Boolean and null are one leaf.                                          *)
(***************************************************************************)
EXTENDS Naturals, Sequences

CONSTANT JsonValues   \* JSON values, with all that they contain

Leaf           == [kind |-> "leaf"]
String(id)     == [kind |-> "string", text |-> id]
Array(items)   == [kind |-> "array", items |-> items]
Object(fields) == [kind |-> "object", fields |-> fields]

Items(node) == {node.items[i] : i \in DOMAIN node.items}

Children(node) ==
    CASE node.kind = "array"  -> Items(node)
      [] node.kind = "object" -> {node.fields[name] : name \in DOMAIN node.fields}
      [] OTHER -> {}

\* JSON values are finite trees: of any values, some contain none of the others.
ASSUME JsonAssumption ==
    /\ \A node \in JsonValues : Children(node) \subseteq JsonValues
    /\ \A S \in SUBSET JsonValues :
          S # {} => \E node \in S : Children(node) \cap S = {}

\* Array.isArray(value) && value.every((entry) => typeof entry === 'string')
StringList(node) ==
    node.kind = "array" /\ \A item \in Items(node) : item.kind = "string"

Texts(nodes) == {node.text : node \in {n \in nodes : n.kind = "string"}}

\* What one entry of an object contributes.
FromEntry(name, value, traverse) ==
    IF name = "segmentId" /\ value.kind = "string" THEN {value.text}
    ELSE IF name = "segmentIds" /\ StringList(value) THEN Texts(Items(value))
    ELSE traverse[value]

FromObject(node, traverse) ==
    UNION {FromEntry(name, node.fields[name], traverse) : name \in DOMAIN node.fields}

\* Mutant of FromNode: arrays are not descended into.
FromObjectsAlone(node, traverse) ==
    IF node.kind = "object" THEN FromObject(node, traverse) ELSE {}

\* One call of traverse, which calls itself on what the node contains.
FromNode(node, traverse) ==
    CASE node.kind = "array"  -> UNION {traverse[item] : item \in Items(node)}
      [] node.kind = "object" -> FromObject(node, traverse)
      [] OTHER -> {}

Traverse[node \in JsonValues] == FromNode(node, Traverse)

ExtractDependencySegmentIds(root) == Traverse[root]

-----------------------------------------------------------------------------
(* The reference: what stands where in a document, without a traversal.    *)

\* The document and all that it contains: what is in every set that has the
\* document and, of each member, what is in it.
Inside(root) ==
    LET closed == {S \in SUBSET JsonValues :
                      root \in S /\ \A node \in S : Children(node) \subseteq S}
    IN  {node \in JsonValues : \A S \in closed : node \in S}

\* The ids at a segmentId key of an object, and those of a list of nothing but
\* strings at a segmentIds key.
NamedBy(node) ==
    IF node.kind # "object" THEN {} ELSE
        Texts({node.fields[name] : name \in DOMAIN node.fields \cap {"segmentId"}})
        \cup UNION {Texts(Items(node.fields[name])) : name \in
                {k \in DOMAIN node.fields \cap {"segmentIds"} : StringList(node.fields[k])}}

\* The ids named wherever in the document.
Mentioned(root) == UNION {NamedBy(node) : node \in Inside(root)}
=============================================================================
