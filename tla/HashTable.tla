----------------------------- MODULE HashTable -----------------------------
(***************************************************************************)
(* src/hash.c: TABLE_SIZE chains of (key, value) entries, new entries at   *)
(* the head.  A table is a value here; who calls set, get and del, and     *)
(* under which lock, is the business of the module that holds the table.   *)
(***************************************************************************)
EXTENDS Integers, Sequences, BrokerProcess

CONSTANTS Key,
          Chars,          \* [Key -> sequence of character codes]
          WORD,           \* unsigned long counts modulo this
          TABLE_SIZE

ASSUME TableSize == TABLE_SIZE \in Nat \ {0} /\ WORD \in Nat \ {0}

Slot == 0 .. TABLE_SIZE - 1

hash[key \in Key] ==
  LET value[i \in 0 .. Len(Chars[key])] ==
        IF i = 0 THEN 0 ELSE ((value[i - 1] * 37) + Chars[key][i]) % WORD
  IN  value[Len(Chars[key])] % TABLE_SIZE

ASSUME HashInTable == \A k \in Key : hash[k] \in Slot

create_table == [s \in Slot |-> <<>>]

\* Where the chain of a key holds it: the search takes the first place.
Nodes(table, key) == {i \in DOMAIN table[hash[key]] : table[hash[key]][i].key = key}
FirstNode(table, key) == CHOOSE i \in Nodes(table, key) : \A j \in Nodes(table, key) : i <= j

get(table, key) ==
  IF Nodes(table, key) = {} THEN NULL ELSE table[hash[key]][FirstNode(table, key)].value

set(table, key, v) ==
  IF Nodes(table, key) = {}
    THEN [table EXCEPT ![hash[key]] = <<[key |-> key, value |-> v]>> \o @]
    ELSE [table EXCEPT ![hash[key]][FirstNode(table, key)].value = v]

\* Fault: unlinks everything in front of the entry too.
Unlinked_Front(chain, i) == SubSeq(chain, i + 1, Len(chain))

Unlinked(chain, i) == SubSeq(chain, 1, i - 1) \o SubSeq(chain, i + 1, Len(chain))

del(table, key) ==
  IF Nodes(table, key) = {}
    THEN table
    ELSE [table EXCEPT ![hash[key]] = Unlinked(@, FirstNode(table, key))]
=============================================================================
