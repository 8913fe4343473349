------------------------------ MODULE ListCache ------------------------------
(***************************************************************************)
(* One list of a CachedList under concurrent calls, in its three           *)
(* implementations: redis (pkg/cache/redisList.go), gorm                   *)
(* (pkg/cache/gormcache/gormList.go) and memory (pkg/cache/ramList.go).    *)
(* All three promise the same interface, with an Append made of two steps: *)
(* LPush and Expire, MAX(sort_order) and Create, Get and SetDefault.       *)
(***************************************************************************)
EXTENDS Integers, FiniteSets, FiniteSetsExt

CONSTANTS
  Appends,    \* calls of Append
  ItemKeys,   \* what WithKey.Key returns of an item
  NoItemKey,  \* the item has no key
  Lifetime    \* Timeout, in ticks

ASSUME ListCacheAssumption ==
  NoItemKey \notin ItemKeys /\ Lifetime \in Nat \ {0}

Forever == Lifetime + 1
Impls == {"redis", "gorm", "ram"}

VARIABLES
  impl,    \* the implementation the process was built with
  items,   \* the stored items: [by, n, key, order, left]
  append,  \* per call: [pc, size, key, after, max, copy, life]; its items are promised for
           \* another life ticks (history)
  raced    \* the list of the "ram" kind was written by two calls at once (history)

listVars == <<impl, items, append, raced>>

Entries == [by : Appends, n : 1..2, key : ItemKeys \cup {NoItemKey},
            order : Nat, left : 1..Forever]

ListCacheTypeOK ==
  /\ impl \in Impls
  /\ \A e \in items : e \in Entries
  /\ \A c \in Appends :
       /\ append[c].pc \in {"idle", "read", "write", "expire", "done", "lost", "deleted"}
       /\ append[c].size \in 1..2 /\ append[c].key \in ItemKeys \cup {NoItemKey}
       /\ append[c].after \subseteq Appends
       /\ append[c].max \in Int /\ append[c].copy \subseteq Entries
       /\ append[c].life \in 0..Lifetime
  /\ raced \in BOOLEAN

ListCacheInit ==
  /\ impl \in Impls
  /\ items = {}
  /\ append = [c \in Appends |-> [pc |-> "idle", size |-> 1, key |-> NoItemKey, after |-> {},
                                  max |-> -1, copy |-> {}, life |-> 0]]
  /\ raced = FALSE

-----------------------------------------------------------------------------
InFlight == {c \in Appends : append[c].pc \in {"read", "write", "expire"}}
Finished == {c \in Appends : append[c].pc = "done"}

TopOrder(s) == IF s = {} THEN -1 ELSE Max({e.order : e \in s})

\* The items of a call, behind the order max.
Batch(c, max, left) ==
  {[by |-> c, n |-> i, key |-> append[c].key, order |-> max + i, left |-> left] :
     i \in 1..append[c].size}

StartAppend(c) ==
  /\ append[c].pc = "idle"
  /\ \E size \in 1..2, key \in ItemKeys \cup {NoItemKey} :
       append' = [append EXCEPT ![c] = [@ EXCEPT !.pc = "read", !.size = size, !.key = key,
                                          !.after = Finished]]
  /\ raced' = (raced \/ InFlight # {})
  /\ UNCHANGED <<impl, items>>

\* A list of redis has one lifetime.
ListLife == IF items = {} THEN Forever ELSE (CHOOSE e \in items : TRUE).left

\* LPush is atomic: it adds to the list as it is, and a new list lives for ever.
PushItems(c) ==
  /\ impl = "redis" /\ append[c].pc = "read"
  /\ items' = items \cup Batch(c, TopOrder(items), ListLife)
  /\ append' = [append EXCEPT ![c].pc = "expire"]
  /\ UNCHANGED <<impl, raced>>

Outcome(c) == IF \E e \in items : e.by = c THEN "done" ELSE "deleted"

\* Expire renews the whole list.
Expire(c) ==
  /\ append[c].pc = "expire"
  /\ items' = {[e EXCEPT !.left = Lifetime] : e \in items}
  /\ append' = [append EXCEPT ![c].pc = Outcome(c), ![c].life = Lifetime]
  /\ UNCHANGED <<impl, raced>>

\* Nobody looks at the error of Expire: Append returns nil, and its items have what was
\* left to the list they joined.
ExpireFails(c) ==
  /\ append[c].pc = "expire"
  /\ append' = [append EXCEPT ![c].pc = Outcome(c),
                              ![c].life = IF ListLife > Lifetime THEN Lifetime ELSE ListLife]
  /\ UNCHANGED <<impl, items, raced>>

\* MAX(sort_order) over the rows of the key; when it cannot be read, -1.
ReadMax(c) ==
  /\ impl = "gorm" /\ append[c].pc = "read"
  /\ \E max \in {TopOrder(items), -1} :
       append' = [append EXCEPT ![c].pc = "write", ![c].max = max,
                                ![c].after = IF max = TopOrder(items) THEN @ ELSE {}]
  /\ UNCHANGED <<impl, items, raced>>

CreateRows(c) ==
  /\ impl = "gorm" /\ append[c].pc = "write"
  /\ items' = items \cup Batch(c, append[c].max, Lifetime)
  /\ append' = [append EXCEPT ![c].pc = "done", ![c].life = Lifetime]
  /\ UNCHANGED <<impl, raced>>

\* Memory: the list is read, extended and stored again with a new lifetime.
ReadList(c) ==
  /\ impl = "ram" /\ append[c].pc = "read"
  /\ append' = [append EXCEPT ![c].pc = "write", ![c].copy = items]
  /\ UNCHANGED <<impl, items, raced>>

\* Slip: the list is stored without what it held.
StoreListAlone(c) ==
  /\ impl = "ram" /\ append[c].pc = "write"
  /\ items' = Batch(c, TopOrder(append[c].copy), Lifetime)
  /\ append' = [append EXCEPT ![c].pc = "done", ![c].copy = {}, ![c].life = Lifetime]
  /\ UNCHANGED <<impl, raced>>

StoreList(c) ==
  /\ impl = "ram" /\ append[c].pc = "write"
  /\ LET old == append[c].copy IN
     items' = {[e EXCEPT !.left = Lifetime] : e \in old}
                \cup Batch(c, TopOrder(old), Lifetime)
  /\ append' = [append EXCEPT ![c].pc = "done", ![c].copy = {}, ![c].life = Lifetime]
  /\ UNCHANGED <<impl, raced>>

\* A statement fails, the reply of LPush is lost, or the process dies.  What has been pushed
\* stays, with the lifetime the list had.
AppendFails(c) ==
  /\ c \in InFlight
  /\ append' = [append EXCEPT ![c].pc = "lost", ![c].copy = {}]
  /\ UNCHANGED <<impl, items, raced>>

DelList ==
  /\ items' = {}
  /\ append' = [c \in Appends |->
       IF append[c].pc \in {"done", "lost"} THEN [append[c] EXCEPT !.pc = "deleted"]
                                            ELSE append[c]]
  /\ raced' = (InFlight # {})
  /\ UNCHANGED impl

\* Time passes; a call takes less than a unit of it.  Redis and memory drop the
\* list at the end of its lifetime; expired rows stay behind, and are not read.
ListTick ==
  /\ InFlight = {}
  /\ items' = {IF e.left = Forever THEN e ELSE [e EXCEPT !.left = @ - 1] :
                 e \in {x \in items : x.left > 1}}
  /\ append' = [c \in Appends |->
       IF append[c].life > 0 THEN [append[c] EXCEPT !.life = @ - 1] ELSE append[c]]
  /\ UNCHANGED <<impl, raced>>

ListCacheNext ==
  \/ \E c \in Appends : \/ StartAppend(c) \/ PushItems(c) \/ Expire(c) \/ ExpireFails(c)
                        \/ ReadMax(c) \/ CreateRows(c) \/ ReadList(c) \/ StoreList(c)
                        \/ AppendFails(c)
  \/ DelList
  \/ ListTick

ListCacheSpec == ListCacheInit /\ [][ListCacheNext]_listVars

-----------------------------------------------------------------------------
\* GetAll reads redis newest first, the others oldest first, and keeps of the
\* items with one key the first it reads; memory does not look at the keys.
ReadBefore(d, e) == IF impl = "redis" THEN d.order > e.order ELSE d.order < e.order

Listed ==
  {e \in items : impl = "ram" \/ e.key = NoItemKey
                   \/ ~\E d \in items : d.key = e.key /\ ReadBefore(d, e)}

\* What an Append that returned nil has added is read until the list is deleted
\* or Timeout after the Append, whatever other calls do meanwhile and whichever
\* of them fail: each item, or for a key one item with it.  When redis refused
\* the Append's own Expire, which it does not report (redisList.go:57), its items
\* are read only as long as the list it joined had left.  Items of a call that had
\* ended before another began are read in that order (redis: in the opposite
\* one), and what Del removed does not come back.  Memory gives this up as soon
\* as two calls overlap.
ListHolds ==
  impl # "ram" \/ ~raced =>
    /\ \A c \in Finished : append[c].life > 0 =>
         \A n \in 1..append[c].size :
           \E e \in Listed : IF append[c].key = NoItemKey \/ impl = "ram"
                              THEN e.by = c /\ e.n = n
                              ELSE e.key = append[c].key
    /\ \A e \in items : append[e.by].pc # "deleted"
    /\ \A e, d \in Listed : e.by \in append[d.by].after =>
         IF impl = "redis" THEN ReadBefore(d, e) ELSE ReadBefore(e, d)
=============================================================================
