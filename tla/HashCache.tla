----------------------------- MODULE HashCache ------------------------------
(***************************************************************************)
(* One hash behind HashEx[T] (pkg/cache/hashex.go) in its two stores,      *)
(* redis (redisHash.go) and a table (gormcache/gormHash.go).  A call is    *)
(* one command or statement.  What matters beyond their order is the form  *)
(* in which a value of type T is stored, and the lifetime: redis keeps one *)
(* for the hash, the table one for each row.                               *)
(*                                                                         *)
(* The value of a field is the number of the SetValues call that wrote it. *)
(***************************************************************************)
EXTENDS Naturals, FiniteSets

CONSTANTS
  Fields,
  HashLife,    \* the lifetimes SetTTL is called with are 1 .. HashLife ticks
  MaxSets      \* bound on the calls of SetValues

ASSUME HashAssumption == HashLife \in Nat \ {0} /\ MaxSets \in Nat

VARIABLES
  store,       \* "redis", or what the table does with ON CONFLICT (key, field), for which
               \* HashEntry declares no unique index: "unique" where one was added by hand,
               \* "refused", or "appends"
  kind,        \* T: "struct", "string", "number", "bool" or "map"
  entries,     \* the fields or rows: [field, set, left]
  sets,        \* number of calls of SetValues
  literal,     \* the calls whose value is a string that is itself JSON of a string, or null
  lastSet,     \* per field: the last call that set it, 0 when it ended with a redis hash (history)
  ends         \* per field: the ticks until the lifetime SetTTL gave it is over (history)

hashVars == <<store, kind, entries, sets, literal, lastSet, ends>>

NoLimit == HashLife + 1
HashEntries == [field : Fields, set : 1 .. MaxSets, left : 0 .. NoLimit]
Missing == 0
Denoted == MaxSets + 1   \* a value no call has set: what such a string stands for in JSON
Failed == [f \in {} |-> Missing]

HashTypeOK ==
  /\ store \in {"redis", "unique", "refused", "appends"}
  /\ kind \in {"struct", "string", "number", "bool", "map"}
  /\ entries \subseteq HashEntries /\ sets \in 0 .. MaxSets
  /\ literal \subseteq 1 .. MaxSets
  /\ lastSet \in [Fields -> 0 .. MaxSets] /\ ends \in [Fields -> 0 .. NoLimit]

HashInit ==
  /\ store \in {"redis", "unique", "refused", "appends"}
  /\ kind \in {"struct", "string", "number", "bool", "map"}
  /\ entries = {} /\ sets = 0 /\ literal = {}
  /\ lastSet = [f \in Fields |-> Missing] /\ ends = [f \in Fields |-> NoLimit]

Present(f) == \E e \in entries : e.field = f

-----------------------------------------------------------------------------
(* The forms.  HashEx turns a struct into the bytes of its JSON and passes   *)
(* everything else on.  Redis takes bytes, strings, numbers and booleans (as *)
(* 1 and 0) and refuses the rest; the table stores "%v" of what is no string. *)

Stored(k) ==
  CASE k = "struct" -> IF store = "redis" THEN "json" ELSE "numbers in brackets"
    [] k = "bool" -> IF store = "redis" THEN "digit" ELSE "json"
    [] k = "map" -> IF store = "redis" THEN "refused" ELSE "go syntax"
    [] k = "number" -> "json"
    [] k = "string" -> "text"

\* What comes back is a string: GetValues takes it as it is when T is string, else it has
\* to be JSON of a T.
Readable == Stored(kind) \in {"json", "text"}

\* GetAll tries JSON first, also when T is string, and the text only when that fails.
Decoded(n) == IF n \in literal THEN Denoted ELSE n

-----------------------------------------------------------------------------
\* Slip: ON CONFLICT DO NOTHING.
UpsertKeeps(fs) ==
  entries \cup {[field |-> f, set |-> sets + 1, left |-> NoLimit] : f \in {g \in fs : ~Present(g)}}

\* INSERT ... ON CONFLICT DO UPDATE of value and updated_at: the row keeps its expires_at,
\* also one that is past.
Upsert(fs) ==
  {IF e.field \in fs THEN [e EXCEPT !.set = sets + 1] ELSE e : e \in entries}
    \cup {[field |-> f, set |-> sets + 1, left |-> NoLimit] : f \in {g \in fs : ~Present(g)}}

InsertRows(fs) == entries \cup {[field |-> f, set |-> sets + 1, left |-> NoLimit] : f \in fs}

\* HSET: a new field has the lifetime of the hash.
HSet(fs) ==
  LET left == IF entries = {} THEN NoLimit ELSE (CHOOSE e \in entries : TRUE).left
  IN  {e \in entries : e.field \notin fs}
        \cup {[field |-> f, set |-> sets + 1, left |-> left] : f \in fs}

\* SetValues.  An error is returned and leaves everything as it was.
SetValues(fs) ==
  /\ sets < MaxSets
  /\ store # "refused" /\ Stored(kind) # "refused"
  /\ entries' = CASE store = "redis" -> HSet(fs)
                  [] store = "unique" -> Upsert(fs)
                  [] store = "appends" -> InsertRows(fs)
  /\ sets' = sets + 1
  /\ lastSet' = [f \in Fields |-> IF f \in fs THEN sets + 1 ELSE lastSet[f]]
  /\ \E json \in {FALSE, kind = "string"} :
       literal' = IF json THEN literal \cup {sets + 1} ELSE literal
  /\ UNCHANGED <<store, kind, ends>>

\* SetTTL: EXPIRE, or an UPDATE of all rows of the key, those that are past included.  One
\* that fails is logged and changes nothing.
SetTTL(n) ==
  /\ entries' = {[e EXCEPT !.left = n] : e \in entries}
  /\ ends' = [f \in Fields |-> IF Present(f) \/ (store = "redis" /\ entries # {})
                                THEN n ELSE ends[f]]
  /\ UNCHANGED <<store, kind, sets, literal, lastSet>>

Shorter(n) == IF n \in {0, NoLimit} THEN n ELSE n - 1

\* Time passes.  Redis removes a hash whose time is over, the table hides its rows.
HashTick ==
  LET aged == {[e EXCEPT !.left = Shorter(@)] : e \in entries}
      over == store = "redis" /\ \E e \in aged : e.left = 0
  IN  /\ aged # entries
      /\ entries' = IF over THEN {} ELSE aged
      /\ lastSet' = IF over THEN [f \in Fields |-> Missing] ELSE lastSet
      /\ ends' = [f \in Fields |-> IF over THEN NoLimit ELSE Shorter(ends[f])]
      /\ UNCHANGED <<store, kind, sets, literal>>

HashNext ==
  \/ \E fs \in SUBSET Fields \ {{}} : SetValues(fs)
  \/ \E n \in 1 .. HashLife : SetTTL(n)
  \/ HashTick

HashSpec == HashInit /\ [][HashNext]_hashVars

-----------------------------------------------------------------------------
(* What the reading calls may answer: of several rows of a field, the one    *)
(* the database happens to return last.                                      *)

Unexpired == {e \in entries : e.left > 0}
Existed == Unexpired # {}

Picks(fs) ==
  {a \in [fs -> {e.set : e \in Unexpired} \cup {Missing}] :
     \A f \in fs : LET own == {e.set : e \in {d \in Unexpired : d.field = f}}
                   IN  IF own = {} THEN a[f] = Missing ELSE a[f] \in own}

\* One value that cannot be read fails the whole of GetValues; GetAll leaves it out.
GetValues(fs) ==
  IF Readable \/ \A e \in Unexpired : e.field \notin fs THEN Picks(fs) ELSE {Failed}

GetAll ==
  IF Readable THEN {[f \in Fields |-> Decoded(a[f])] : a \in Picks(Fields)}
              ELSE {[f \in Fields |-> Missing]}

\* Unless GetValues fails, a field is read with the value set last until the lifetime that
\* SetTTL gave it or, in redis, its hash is over, and from then on not at all: a value set
\* later on a row that is past stays unseen until the next SetTTL.  GetValues, GetAll and
\* Existed agree on what there is, and on the values with one exception: a string that is
\* itself JSON of a string, or null, GetAll returns as what it stands for.  In redis all
\* fields end together.  Not of a table that appends: without the unique index any of the
\* values there ever were is read.  hashex.go:22-60, 88-111; gormHash.go:32-128.
HashReads ==
  store # "appends" =>
    /\ \A fs \in SUBSET Fields \ {{}} : \A a \in GetValues(fs) :
         a # Failed => \A f \in fs :
           /\ a[f] = IF ends[f] = 0 THEN Missing ELSE lastSet[f]
           /\ \A all \in GetAll : /\ all[f] = Missing <=> a[f] = Missing
                                 /\ a[f] \notin literal => all[f] = a[f]
    /\ Readable => \A all \in GetAll : Existed <=> \E f \in Fields : all[f] # Missing
    /\ store = "redis" /\ Readable => \A all \in GetAll, f \in Fields :
         lastSet[f] \notin literal => all[f] = lastSet[f]
=============================================================================
