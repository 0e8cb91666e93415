---------------------------- MODULE JsonDocument ----------------------------
(***************************************************************************)
(* A JSON text as the sequence of its nodes in document order, which is    *)
(* what the three token walkers of the repository see: the command guard's *)
(* input, the redactor's structured walker and the reducer's object        *)
(* scanner.  A node is a key or a value; a value follows its key.  Nodes   *)
(* carry the depth of their container plus one and the position of the     *)
(* object that owns them; white space, escapes and number spelling are in  *)
(* nobody's way and are left out.                                          *)
(***************************************************************************)
EXTENDS Integers, Sequences

\* name is a key's text, value what a walker makes of a string; the roles are
\* key, object, array, string, number (any other primitive), broken, where the
\* text is not what the walker accepts, and unclosed, where a closing bracket or
\* the end of the text is missing: the guard's input does not count those tokens.
Node(role, depth, owner, name, value) ==
    [role |-> role, depth |-> depth, owner |-> owner, name |-> name, value |-> value]

\* The key at i names an entry its object already has.
Repeated(doc, i) ==
    \E j \in 1 .. i - 1 :
        doc[j].role = "key" /\ doc[j].owner = doc[i].owner /\ doc[j].name = doc[i].name

\* The node at i is the value of the top-level entry called name.
IsField(doc, i, name) ==
    i > 1 /\ doc[i - 1].role = "key" /\ doc[i - 1].owner = 1 /\ doc[i - 1].name = name

\* The least position at which a walk meets P; Len(doc) + 1 if it never does.
FirstAt(doc, P(_)) ==
    CHOOSE i \in 1 .. Len(doc) + 1 :
        /\ i <= Len(doc) => P(i)
        /\ \A j \in 1 .. i - 1 : ~P(j)
=============================================================================
