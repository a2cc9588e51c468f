---------------------------- MODULE AddonStorage ----------------------------
(***************************************************************************)
(* packages/storage/src/index.ts: what a storage call of an add-on does to *)
(* the store of its page. Every add-on has its keys under its id; the      *)
(* IndexedDB store finds them again as a range of keys. Strings are        *)
(* sequences of characters here, since the namespaces are made by putting  *)
(* them together and taken apart by prefix.                                *)
(***************************************************************************)
EXTENDS Naturals, Sequences, SequencesExt

CONSTANTS
    MaxKeyLength,   \* MAX_KEY_LENGTH
    MaxValueBytes,  \* MAX_VALUE_BYTES
    SizeOf(_),      \* approximateBytes(), of a value
    Top             \* U+FFFF, the greatest character

ASSUME StorageConstants == MaxKeyLength \in Nat /\ MaxValueBytes \in Nat

(* A store is a function from the namespaced keys it holds to values.       *)
Stored(db, k, value) == [x \in DOMAIN db \cup {k} |-> IF x = k THEN value ELSE db[x]]
Without(db, ks) == [x \in DOMAIN db \ ks |-> db[x]]

(* A slip: the id is put before the key with nothing between them.          *)
Slip_NamespaceKey(addon, key) == addon \o key

Separator == " "

(* namespaceKey(), and with an empty key the prefix of list() and clear().  *)
NamespaceKey(addon, key) == addon \o <<Separator>> \o key

(* IDBKeyRange.bound(prefix, prefix + U+FFFF): a key that starts with       *)
(* U+FFFF and goes on is outside. The in-memory store has every key with    *)
(* the prefix.                                                              *)
InRange(addon, k) ==
    LET prefix == NamespaceKey(addon, <<>>) IN
    /\ IsPrefix(prefix, k)
    /\ ~(IsStrictPrefix(prefix \o <<Top>>, k))

KeysOf(db, addon) == {k \in DOMAIN db : InRange(addon, k)}
ListedKeys(db, addon) ==
    {SubSeq(k, Len(NamespaceKey(addon, <<>>)) + 1, Len(k)) : k \in KeysOf(db, addon)}

(* A call is a record of its add-on, its op and, where the op has them, its *)
(* key and its value. validateKey() and the size check of put().            *)
ValidCall(c) ==
    /\ c.op \in {"get", "put", "delete"} => Len(c.key) <= MaxKeyLength
    /\ c.op = "put" => SizeOf(c.value) <= MaxValueBytes

Writes(c) == c.op \in {"put", "delete", "clear"}

(* What the store is after the call's transaction.                          *)
After(db, c) ==
    CASE c.op = "put" -> Stored(db, NamespaceKey(c.addon, c.key), c.value)
      [] c.op = "delete" -> Without(db, {NamespaceKey(c.addon, c.key)})
      [] c.op = "clear" -> Without(db, KeysOf(db, c.addon))
      [] OTHER -> db

(* What the call resolves to: values as a set, empty for null; keys.        *)
Resolved(db, c) ==
    CASE c.op = "get" -> {db[k] : k \in {NamespaceKey(c.addon, c.key)} \cap DOMAIN db}
      [] c.op = "list" -> ListedKeys(db, c.addon)
      [] OTHER -> {}

(* Transactions on the one object store: a reading one may run once the     *)
(* writing ones before it are done, a writing one once all are.             *)
MayRun(calls, i) ==
    \A j \in 1 .. (i - 1) : ~Writes(calls[i]) /\ ~Writes(calls[j])

=============================================================================
