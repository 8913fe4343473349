------------------------------ MODULE Sanitize ------------------------------
(***************************************************************************)
(* What the parquet writer does to the strings of a message before it is   *)
(* written (pkg/parquet/parquetPoolService.go): bytes that are not UTF-8   *)
(* are replaced in every string the schema's type reaches.  A Go value is  *)
(* a tree of nodes [kind, text, kids]:                                     *)
(*   string  text says which string                                        *)
(*   other   a number, a time's fields, ...                                *)
(*   iface   a value behind an interface type                              *)
(*   ptr, slice, array, map   text "nil" when nil                          *)
(*   pair    an entry of a map, kids <<key, value>>, in iteration order;   *)
(*           Replaced stands where one with the same key came later        *)
(*   struct, field   text of a field "exported" or "hidden"                *)
(* A recursion over values is one over their height here.                  *)
(***************************************************************************)
EXTENDS Integers, Sequences

CONSTANTS
  Strings,        \* the strings of messages
  Valid,          \* those that are UTF-8
  ToValidUTF8,    \* strings.ToValidUTF8
  Height,         \* of the highest value
  Replaced,       \* marker
  Bodies          \* the values of messages

Labels == {"", "nil", "exported", "hidden"}
Kinds == {"string", "other", "iface", "ptr", "slice", "array", "map", "pair", "struct", "field"}

Places(kids) == {i \in DOMAIN kids : kids[i] # Replaced}

\* The kids of a pair are a key and a value, those of a map pairs whose keys differ.
WellFormed(v) ==
  /\ IF v.kind = "string" THEN v.text \in Strings /\ v.kids = <<>> ELSE v.text \in Labels
  /\ v.kind = "pair" => Len(v.kids) = 2
  /\ IF v.kind = "map"
     THEN \A i, j \in Places(v.kids) :
            /\ v.kids[i].kind = "pair" /\ v.kids[j].kind = "pair"
            /\ v.kids[i].kids[1] = v.kids[j].kids[1] => i = j
     ELSE Places(v.kids) = DOMAIN v.kids

Nodes(S) ==
  {v \in [kind : Kinds, text : Strings \cup Labels, kids : Seq(S \cup {Replaced})] : WellFormed(v)}

\* The values of at most a height.
Values[n \in 0 .. Height] == IF n = 0 THEN {} ELSE Nodes(Values[n - 1])

ASSUME SanitizeAssumption ==
  /\ Valid \subseteq Strings
  /\ ToValidUTF8 \in [Strings -> Valid]
  /\ \A s \in Valid : ToValidUTF8[s] = s
  /\ Height \in Nat
  /\ \A n \in 0 .. Height : Replaced \notin Values[n]
  /\ Bodies \subseteq Values[Height]

-----------------------------------------------------------------------------
Repaired(s) == [s EXCEPT !.text = ToValidUTF8[s.text]]

\* The kids that the type of a value describes: not what is behind an interface or in a
\* field that is not exported; and keys of maps are looked at only where they are strings.
Described(v) ==
  {i \in Places(v.kids) :
     /\ v.kind \notin {"iface", "other"} /\ ~(v.kind = "field" /\ v.text = "hidden")
     /\ v.kind = "pair" /\ i = 1 => v.kids[1].kind = "string"}

\* SetMapIndex in iteration order: the last of two entries with a key remains.
LastOfEachKey(pairs) ==
  [i \in DOMAIN pairs |->
     IF \E j \in Places(pairs) : i < j /\ pairs[i] # Replaced /\ pairs[i].kids[1] = pairs[j].kids[1]
     THEN Replaced ELSE pairs[i]]

\* Slip: the keys of maps are taken over as they are.
RebuiltValuesOnly(v, kids) ==
  LET below == [i \in DOMAIN v.kids |-> IF i \in Described(v) THEN kids[i] ELSE v.kids[i]] IN
  CASE v.kind = "string" -> Repaired(v)
    [] v.kind = "pair" -> [v EXCEPT !.kids[2] = below[2]]
    [] OTHER -> [v EXCEPT !.kids = below]

\* A new value from the sanitized kids.
Rebuilt(v, kids) ==
  LET below == [i \in DOMAIN v.kids |-> IF i \in Described(v) THEN kids[i] ELSE v.kids[i]] IN
  CASE v.kind = "string" -> Repaired(v)
    [] v.kind = "map" -> [v EXCEPT !.kids = LastOfEachKey(below)]
    [] OTHER -> [v EXCEPT !.kids = below]

\* sanitizeValueByType.
Sanitized[n \in 0 .. Height] ==
  IF n = 0 THEN <<>>
  ELSE [v \in Values[n] |-> Rebuilt(v, [i \in Described(v) |-> Sanitized[n - 1][v.kids[i]]])]

VARIABLES
  form,     \* of the message: the root type, a pointer to it, nil, or another type
  schema,   \* the writer has a schema
  body,     \* the value of the message
  output    \* what goes to the parquet writer; <<>> before

sanitizeVars == <<form, schema, body, output>>

Forms == {"value", "pointer", "nil", "other"}

SanitizeInit ==
  /\ form \in Forms /\ schema \in BOOLEAN
  /\ body \in Bodies
  /\ output = <<>>

\* sanitizeMessagesBySchema and sanitizeBySchema on one message of a batch.
SanitizeMessage ==
  /\ output = <<>>
  /\ output' = IF schema /\ form \in {"value", "pointer"} THEN Sanitized[Height][body] ELSE body
  /\ UNCHANGED <<form, schema, body>>

SanitizeSpec == SanitizeInit /\ [][SanitizeMessage]_sanitizeVars

-----------------------------------------------------------------------------
\* The strings that the type of a value reaches, given those of its kids.
Strung(v, below) ==
  IF v.kind = "string" THEN {v.text} ELSE UNION {below[v.kids[i]] : i \in Described(v)}

Reached[n \in 0 .. Height] ==
  IF n = 0 THEN <<>> ELSE [v \in Values[n] |-> Strung(v, Reached[n - 1])]

\* w is v but for its strings, and for entries of maps whose key another one has got, if
\* the kids of both have shapes in common.
Alike(v, w, same) ==
  /\ w.kind = v.kind
  /\ v.kind # "string" => w.text = v.text
  /\ DOMAIN w.kids = DOMAIN v.kids
  /\ Places(w.kids) \subseteq Places(v.kids)
  /\ \A i \in Places(w.kids) :
       IF i \in Described(v) THEN same[v.kids[i]][w.kids[i]] ELSE w.kids[i] = v.kids[i]
  /\ \A i \in Places(v.kids) \ Places(w.kids) :
       /\ v.kind = "map" /\ v.kids[i].kids[1].kind = "string"
       /\ \E j \in Places(w.kids) : w.kids[j].kids[1] = Repaired(v.kids[i].kids[1])

SameShape[n \in 0 .. Height] ==
  IF n = 0 THEN <<>>
  ELSE [v \in Values[n] |-> [w \in Values[n] |-> Alike(v, w, SameShape[n - 1])]]

\* The writer is given no string with invalid bytes that the schema describes: not in a
\* nested value, an element or the key of a map.  The message is a proper value of the same
\* shape, a clean one is not touched, and doing it again changes nothing
\* (sanitizeValueByType).
SanitizedClean ==
  output # <<>> /\ schema /\ form \in {"value", "pointer"} =>
    /\ output \in Values[Height]
    /\ Reached[Height][output] \subseteq Valid
    /\ SameShape[Height][body][output]
    /\ Reached[Height][body] \subseteq Valid => output = body
    /\ Sanitized[Height][output] = output
=============================================================================
