-------------------------------- MODULE Json --------------------------------
(***************************************************************************)
(* JSON documents as the configuration uses them: a function from the path *)
(* of each leaf, a sequence of keys, to its value.  An object is what lies *)
(* below a path; one without members is not told from none.  No leaf's     *)
(* path continues another's.  Schemas are documents too: every field of a  *)
(* message, the fields of its structs included, with its default.          *)
(***************************************************************************)
EXTENDS Naturals, Sequences

CONSTANT Null

Empty == <<>>
Leaf(v) == [p \in {<<>>} |-> v]

Under(p, q) == Len(p) <= Len(q) /\ SubSeq(q, 1, Len(p)) = p
Clash(p, q) == Under(p, q) \/ Under(q, p)

\* merge_patch: what the patch has replaces what is there, a null erases it.
MergePatch(target, patch) ==
  LET kept == {p \in DOMAIN target : \A q \in DOMAIN patch : ~Clash(p, q)}
      set == {q \in DOMAIN patch : patch[q] # Null}
  IN  [p \in kept \cup set |-> IF p \in set THEN patch[p] ELSE target[p]]

\* document[pointer] = value: a member of an object or of null, which becomes
\* one; below any other leaf the pointer does not resolve.
Resolves(document, path) ==
  \A p \in DOMAIN document : Under(p, path) /\ p # path => document[p] = Null
Assign(document, path, value) ==
  LET kept == {p \in DOMAIN document : ~Clash(p, path)}
      set == {path \o q : q \in DOMAIN value}
  IN  [p \in kept \cup set |->
         IF p \in set THEN value[SubSeq(p, Len(path) + 1, Len(p))] ELSE document[p]]

Below(document, path) ==
  LET inside == {p \in DOMAIN document : Under(path, p)}
  IN  [q \in {SubSeq(p, Len(path) + 1, Len(p)) : p \in inside} |-> document[path \o q]]

-----------------------------------------------------------------------------
\* encodeAsJson of a schema gives every field its default; decodeFromJson
\* takes the fields the schema has, ignores others and lacks none.
Decodes(document, schema) ==
  \A p \in DOMAIN document, f \in DOMAIN schema : Clash(p, f) => p = f
Decode(document, schema) ==
  [f \in DOMAIN schema |-> IF f \in DOMAIN document THEN document[f] ELSE schema[f]]
=============================================================================
