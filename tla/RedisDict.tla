------------------------------- MODULE RedisDict -------------------------------
(***************************************************************************)
(* The hash table of redis/dict.c, with which the asynchronous context     *)
(* keeps its subscriptions: chains, a table that doubles, and an iterator  *)
(* that allows the entry it has just returned to be deleted.  map is what  *)
(* the table promises to be.                                               *)
(***************************************************************************)
EXTENDS Integers, Sequences, SequencesExt, FiniteSets

CONSTANTS
    Keys, Vals,
    HashOf,                 \* dictHashKey
    DICT_HT_INITIAL_SIZE    \* 4 in dict.h; a power of two

VARIABLES
    ht,      \* size, table of chains of [key, val] (index 0 is table[1]), used
    map,     \* the dictionary that is meant
    iter     \* the iterator, or <<>>: index, the entry returned, the one after

dictVars == <<ht, map, iter>>

NULL == "NULL"
DICT_OK  == TRUE
DICT_ERR == FALSE

_dictReset == [size |-> 0, table |-> <<>>, used |-> 0]

DictInit == ht = _dictReset /\ map = <<>> /\ iter = <<>>

Slot(h, key) == (HashOf[key] % h.size) + 1
IndexIn(chain, key) == {i \in 1..Len(chain) : chain[i].key = key}

-----------------------------------------------------------------------------
(* DICT_HT_INITIAL_SIZE, doubled i times, and so on until it is enough. *)
Doubled[i \in Nat] == IF i = 0 THEN DICT_HT_INITIAL_SIZE ELSE 2 * Doubled[i - 1]
_dictNextPower(size) ==
    Doubled[CHOOSE i \in 0..size : Doubled[i] >= size /\ \A j \in 0..(i - 1) : Doubled[j] < size]

(* Mutant: entries stay in the slots of the smaller table. *)
dictExpand_Kept(h, size) ==
    [h EXCEPT !.size = _dictNextPower(size),
              !.table = @ \o [i \in 1..(_dictNextPower(size) - h.size) |-> <<>>]]

(* Every entry moves to the front of its chain in the new table: the       *)
(* chains one after the other, each from its head.                         *)
Moved(n, e) == [n EXCEPT !.table[Slot(n, e.key)] = <<e>> \o @]
MovedChain(n, chain) ==
    LET moved[k \in 0..Len(chain)] == IF k = 0 THEN n ELSE Moved(moved[k - 1], chain[k])
    IN  moved[Len(chain)]
dictExpand(h, size) ==
    LET realsize == _dictNextPower(size)
        empty == [size |-> realsize, used |-> h.used, table |-> [i \in 1..realsize |-> <<>>]]
        moved[i \in 0..h.size] ==
            IF i = 0 THEN empty ELSE MovedChain(moved[i - 1], h.table[i])
    IN  IF h.used > size THEN h ELSE moved[h.size]

_dictExpandIfNeeded(h) ==
    IF h.size = 0 THEN dictExpand(h, DICT_HT_INITIAL_SIZE)
    ELSE IF h.used = h.size THEN dictExpand(h, h.size * 2) ELSE h

dictFind(h, key) ==
    IF h.size = 0 \/ IndexIn(h.table[Slot(h, key)], key) = {} THEN NULL
    ELSE LET chain == h.table[Slot(h, key)]
         IN  chain[CHOOSE i \in IndexIn(chain, key) : TRUE].val

(* The table may grow although the key is there (_dictKeyIndex). *)
dictAdd(h, key, val) ==
    LET g == _dictExpandIfNeeded(h)
    IN  IF IndexIn(g.table[Slot(g, key)], key) # {} THEN [ht |-> g, ret |-> DICT_ERR]
        ELSE [ret |-> DICT_OK,
              ht |-> [g EXCEPT !.used = @ + 1,
                        !.table[Slot(g, key)] = <<[key |-> key, val |-> val]>> \o @]]

dictReplace(h, key, val) ==
    LET added == dictAdd(h, key, val)
        slot  == Slot(added.ht, key)
        at    == CHOOSE i \in IndexIn(added.ht.table[slot], key) : TRUE
    IN  IF added.ret THEN added
        ELSE [ht |-> [added.ht EXCEPT !.table[slot][at].val = val], ret |-> FALSE]

dictDelete(h, key) ==
    IF dictFind(h, key) = NULL THEN [ht |-> h, ret |-> DICT_ERR]
    ELSE LET slot == Slot(h, key)
             at == CHOOSE i \in IndexIn(h.table[slot], key) : TRUE
         IN  [ret |-> DICT_OK,
              ht |-> [h EXCEPT !.used = @ - 1, !.table[slot] = RemoveAt(@, at)]]

-----------------------------------------------------------------------------
Idle == iter = <<>>

Add(key, val) ==
    LET r == dictAdd(ht, key, val)
    IN  /\ Idle
        /\ ht' = r.ht
        /\ map' = IF r.ret THEN [k \in DOMAIN map \cup {key} |-> IF k = key THEN val ELSE map[k]]
                  ELSE map
        /\ UNCHANGED iter

Replace(key, val) ==
    /\ Idle
    /\ ht' = dictReplace(ht, key, val).ht
    /\ map' = [k \in DOMAIN map \cup {key} |-> IF k = key THEN val ELSE map[k]]
    /\ UNCHANGED iter

Delete(key) ==
    LET r == dictDelete(ht, key)
    IN  /\ Idle
        /\ ht' = r.ht
        /\ map' = IF r.ret THEN [k \in DOMAIN map \ {key} |-> map[k]] ELSE map
        /\ UNCHANGED iter

Release == Idle /\ ht' = _dictReset /\ map' = <<>> /\ UNCHANGED iter

(* An iterator, with the keys there were when it was made (to compare). *)
dictGetIterator ==
    /\ Idle
    /\ iter' = <<[index |-> 0, entry |-> NULL, next |-> NULL, all |-> DOMAIN map, seen |-> <<>>]>>
    /\ UNCHANGED <<ht, map>>

KeyAt(chain, i) == IF i \in 1..Len(chain) THEN chain[i].key ELSE NULL

(* dictNext: the entry after the last one, or the head of the next chain   *)
(* that has one; what follows an entry is looked up when it is returned.   *)
dictNext ==
    LET it    == iter[1]
        later == {i \in (it.index + 1)..ht.size : ht.table[i] # <<>>}
        index == IF it.next # NULL THEN it.index
                 ELSE CHOOSE i \in later : \A j \in later : i <= j
        chain == ht.table[index]
        at    == IF it.next = NULL THEN 1 ELSE CHOOSE i \in IndexIn(chain, it.next) : TRUE
    IN  /\ ~Idle
        /\ IF it.next = NULL /\ later = {}
           THEN iter' = <<[it EXCEPT !.index = ht.size + 1, !.entry = NULL]>> /\ it.entry # NULL
           ELSE iter' = <<[it EXCEPT !.index = index, !.entry = chain[at].key,
                             !.next = KeyAt(chain, at + 1), !.seen = Append(@, chain[at].key)]>>
        /\ UNCHANGED <<ht, map>>

DeleteReturned ==
    LET key == iter[1].entry
    IN  /\ ~Idle /\ key # NULL /\ key \in DOMAIN map
        /\ ht' = dictDelete(ht, key).ht
        /\ map' = [k \in DOMAIN map \ {key} |-> map[k]]
        /\ UNCHANGED iter

dictReleaseIterator ==
    /\ ~Idle /\ iter' = <<>>
    /\ UNCHANGED <<ht, map>>

DictNext ==
    \/ \E k \in Keys, v \in Vals : Add(k, v) \/ Replace(k, v)
    \/ \E k \in Keys : Delete(k)
    \/ Release
    \/ dictGetIterator \/ dictNext \/ DeleteReturned \/ dictReleaseIterator

DictSpec == DictInit /\ [][DictNext]_dictVars

-----------------------------------------------------------------------------
(* The keys and values are no NULL pointers, and a hash is a number. *)
DictAssumption ==
    /\ HashOf \in [Keys -> Nat] /\ DICT_HT_INITIAL_SIZE \in Nat \ {0}
    /\ NULL \notin Keys \cup Vals

(* Whatever was added, replaced, deleted and rehashed: a key is found with *)
(* the value it was given last, no entry is in the table that is not a     *)
(* key's only one, used counts the keys (it decides when the table grows), *)
(* and an iterator returns every key once, also when the keys it returns   *)
(* are deleted on the way.                                                 *)
DictIsMap ==
    /\ \A k \in Keys : dictFind(ht, k) = IF k \in DOMAIN map THEN map[k] ELSE NULL
    /\ ht.used = Cardinality(DOMAIN map)
    /\ \A i, j \in DOMAIN ht.table : \A p \in DOMAIN ht.table[i], q \in DOMAIN ht.table[j] :
           /\ ht.table[i][p].key \in DOMAIN map
           /\ ht.table[i][p].key = ht.table[j][q].key => i = j /\ p = q
    /\ ~Idle => LET it == iter[1]
                IN  /\ \A i, j \in 1..Len(it.seen) : i # j => it.seen[i] # it.seen[j]
                    /\ it.index > ht.size => ToSet(it.seen) = it.all
=================================================================================
