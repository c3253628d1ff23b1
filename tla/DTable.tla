------------------------------- MODULE DTable -------------------------------
(***************************************************************************)
(* Dynamic tables (lib/xdp2/dtable.c): a table keeps each entry in two     *)
(* lists, `entries' by identifier and `entries_lookup' in the order in     *)
(* which a lookup tries them, and the tables of a kind form a list by      *)
(* identifier themselves.  Plain tables match a key exactly, ternary ones  *)
(* under a mask with the lowest position first, and longest prefix match   *)
(* (LPM) tables on a prefix.  The code takes no locks: its caller is       *)
(* single threaded.                                                        *)
(*                                                                         *)
(* An entry is named by its address.  Its ordering data and its key are    *)
(* one record, `match'; a key is a sequence of bits, the first one the     *)
(* most significant.  Identifiers that the caller gives are never          *)
(* negative, and the automatic ones do not reach the end of an int.        *)
(***************************************************************************)
EXTENDS Naturals, Sequences, FiniteSets, SequencesExt

CONSTANTS
  Kinds,           \* the kinds of table to consider
  Matches,         \* Matches[kind]: what callers add, delete and change
  Keys,            \* the keys that are looked up
  Hash,            \* siphash of a key
  Idents,          \* identifiers callers pass; 0 asks for a new one
  BASE_IDENT,
  Targets,
  Addresses,       \* addresses malloc can return for an entry
  MaxTables,       \* bound on the number of tables
  SectionTables,   \* how many tables of a kind a program may declare
  Null

ASSUME DTableAssumption ==
  /\ Kinds \subseteq {"plain", "tern", "lpm"}
  /\ BASE_IDENT \in Nat \ {0} /\ Idents \subseteq Nat
  /\ Null \notin Addresses

VARIABLES
  kind,             \* the kind of the table, which never changes
  tables,           \* the identifiers of the tables, in list order
  mem,              \* mem[a]: the entry at address a, or Null
  entries,          \* the list list_ent links, of addresses
  entries_lookup    \* the list list_ent_lookup links

vars == <<kind, tables, mem, entries, entries_lookup>>

(* The first index of s with P, or the one after its end. *)
FirstIndex(s, P(_)) ==
  LET I == {i \in DOMAIN s : P(s[i])}
  IN  IF I = {} THEN Len(s) + 1 ELSE CHOOSE i \in I : \A j \in I : i <= j

(***************************************************************************)
(* Lists by identifier                                                     *)
(***************************************************************************)

(* Mutant: an automatic identifier is the one after the last. *)
MAuto_PastGap(idents) ==
  LET isHigh(i) == i >= BASE_IDENT
      high == SelectSeq(idents, isHigh)
  IN  [prev |-> Len(idents), ident |-> BASE_IDENT + Len(high), taken |-> FALSE]

(* The search for an unused identifier: the list's identifiers from        *)
(* BASE_IDENT on are passed as long as they have no gap; the smaller ones  *)
(* are skipped without becoming the previous entry.                        *)
Auto(idents) ==
  LET isHigh(i) == i >= BASE_IDENT
      high == SelectSeq(idents, isHigh)
      run == {n \in 0 .. Len(high) :
                \A j \in 1 .. n : high[j] = BASE_IDENT + j - 1}
      passed == CHOOSE n \in run : \A o \in run : o <= n
  IN  [prev |-> IF passed = 0 THEN 0
                ELSE CHOOSE i \in DOMAIN idents :
                       /\ idents[i] = high[passed]
                       /\ \A j \in 1 .. i - 1 : idents[j] # idents[i],
       ident |-> BASE_IDENT + passed,
       taken |-> FALSE]

(* The search for a given identifier ends at the first that is not smaller. *)
Given(idents, ident) ==
  LET stop(i) == i >= ident
      at == FirstIndex(idents, stop)
  IN  [prev |-> at - 1, ident |-> ident,
       taken |-> at <= Len(idents) /\ idents[at] = ident]

find_table(ident) == IF ident = 0 THEN Auto(tables) ELSE Given(tables, ident)

EntryIdents == [i \in DOMAIN entries |-> mem[entries[i]].ident]

find_ent_by_id(ident) ==
  LET at == FirstIndex(EntryIdents, LAMBDA i : i >= ident)
  IN  IF at <= Len(entries) /\ EntryIdents[at] = ident THEN entries[at]
      ELSE Null

(***************************************************************************)
(* Lists in match order                                                    *)
(***************************************************************************)

(* Mutant: the ternary search stops at an equal position. *)
MBeyond_EqualPos(e, m) ==
  CASE kind = "plain" -> Hash[e.key] > Hash[m.key]
    [] kind = "tern"  -> e.pos >= m.pos
    [] kind = "lpm"   -> e.prefix_len < m.prefix_len

(* Entry e belongs after m. *)
Beyond(e, m) ==
  CASE kind = "plain" -> Hash[e.key] > Hash[m.key]
    [] kind = "tern"  -> e.pos > m.pos
    [] kind = "lpm"   -> e.prefix_len < m.prefix_len

(* Mutant: prefixes of different lengths are the same entry. *)
MSame_AnyLength(e, m) == e.key = m.key /\ (kind = "tern" => e.mask = m.mask)

(* Entry e is the one that m asks for: a ternary one at any position. *)
Same(e, m) ==
  /\ e.key = m.key
  /\ kind = "tern" => e.mask = m.mask
  /\ kind = "lpm" => e.prefix_len = m.prefix_len

LookupOrder == [i \in DOMAIN entries_lookup |-> mem[entries_lookup[i]].match]

(* The find functions of the three kinds. *)
find(m) ==
  LET at == FirstIndex(LookupOrder, LAMBDA e : Beyond(e, m) \/ Same(e, m))
      hit == at <= Len(LookupOrder) /\ ~Beyond(LookupOrder[at], m)
  IN  [entry |-> IF hit THEN entries_lookup[at] ELSE Null, prev |-> at - 1]

compare_tern(e, key) ==
  \A b \in DOMAIN key : e.mask[b] = 1 => e.key[b] = key[b]

compare_prefix(e, key) == \A b \in 1 .. e.prefix_len : e.key[b] = key[b]

Compare(e, key) ==
  CASE kind = "plain" -> e.key = key
    [] kind = "tern"  -> compare_tern(e, key)
    [] kind = "lpm"   -> compare_prefix(e, key)

(* Mutant: the loop ends at an entry with the same hash. *)
Mlookup_EqualHash(key) ==
  LET stops(e) == Compare(e, key) \/ (kind = "plain" /\ Hash[e.key] >= Hash[key])
      at == FirstIndex(LookupOrder, stops)
  IN  IF at <= Len(LookupOrder) /\ Compare(LookupOrder[at], key)
      THEN entries_lookup[at] ELSE Null

(* The entry whose target a lookup returns; Null for the default target. *)
lookup(key) ==
  LET stops(e) == Compare(e, key) \/ (kind = "plain" /\ Hash[e.key] > Hash[key])
      at == FirstIndex(LookupOrder, stops)
  IN  IF at <= Len(LookupOrder) /\ Compare(LookupOrder[at], key)
      THEN entries_lookup[at] ELSE Null

(***************************************************************************)
(* Operations                                                              *)
(***************************************************************************)

Init ==
  /\ kind \in Kinds
  /\ \E n \in SectionTables : tables = [i \in 1 .. n |-> BASE_IDENT + i - 1]
  /\ mem = [a \in Addresses |-> Null]
  /\ entries = <<>> /\ entries_lookup = <<>>

(* xdp2_dtable_create settles the identifier, and                          *)
(* __xdp2_dtable_insert_table searches again with it.                      *)
create(ident) ==
  LET first == find_table(ident)
      place == Given(tables, first.ident)
  IN  /\ Len(tables) < MaxTables
      /\ ~first.taken
      /\ ~place.taken
      /\ tables' = InsertAt(tables, place.prev + 1, place.ident)
      /\ UNCHANGED <<kind, mem, entries, entries_lookup>>

(* Mutant: the new entry is not linked into the lookup list. *)
Mlink_OneList(a, place, found) ==
  /\ entries' = InsertAt(entries, place.prev + 1, a)
  /\ UNCHANGED entries_lookup

(* A new entry goes into both lists. *)
link(a, place, found) ==
  /\ entries' = InsertAt(entries, place.prev + 1, a)
  /\ entries_lookup' = InsertAt(entries_lookup, found.prev + 1, a)

(* malloc returns address a. *)
add(m, ident, target, a) ==
  LET found == find(m)
      place == IF ident = 0 THEN Auto(EntryIdents) ELSE Given(EntryIdents, ident)
  IN  /\ mem[a] = Null
      /\ found.entry = Null
      /\ ~place.taken
      /\ mem' = [mem EXCEPT ![a] = [ident |-> place.ident, match |-> m,
                                    targ |-> target]]
      /\ link(a, place, found)
      /\ UNCHANGED <<kind, tables>>

remove(a) ==
  /\ entries' = SelectSeq(entries, LAMBDA b : b # a)
  /\ entries_lookup' = SelectSeq(entries_lookup, LAMBDA b : b # a)
  /\ mem' = [mem EXCEPT ![a] = Null]

del(m) ==
  /\ find(m).entry # Null
  /\ remove(find(m).entry)
  /\ UNCHANGED <<kind, tables>>

del_by_id(ident) ==
  /\ find_ent_by_id(ident) # Null
  /\ remove(find_ent_by_id(ident))
  /\ UNCHANGED <<kind, tables>>

change(m, target) ==
  /\ find(m).entry # Null
  /\ mem' = [mem EXCEPT ![find(m).entry].targ = target]
  /\ UNCHANGED <<kind, tables, entries, entries_lookup>>

change_by_id(ident, target) ==
  /\ find_ent_by_id(ident) # Null
  /\ mem' = [mem EXCEPT ![find_ent_by_id(ident)].targ = target]
  /\ UNCHANGED <<kind, tables, entries, entries_lookup>>

Next ==
  \/ \E ident \in Idents : create(ident)
  \/ \E m \in Matches[kind], ident \in Idents, t \in Targets, a \in Addresses :
       add(m, ident, t, a)
  \/ \E m \in Matches[kind] : del(m)
  \/ \E ident \in Idents : del_by_id(ident)
  \/ \E m \in Matches[kind], t \in Targets : change(m, t)
  \/ \E ident \in Idents, t \in Targets : change_by_id(ident, t)

Spec == Init /\ [][Next]_vars

(***************************************************************************)
(* Properties                                                              *)
(***************************************************************************)

Allocated == {a \in Addresses : mem[a] # Null}

(* The lists of a table hold allocated entries only: what xdp2_dtable_del  *)
(* frees is in no list any more, and no identifier is zero.                *)
TypeOK ==
  /\ kind \in Kinds
  /\ tables \in Seq(Nat \ {0})
  /\ \A a \in Allocated : /\ mem[a].match \in Matches[kind]
                          /\ mem[a].ident \in Nat \ {0}
                          /\ mem[a].targ \in Targets
  /\ entries \in Seq(Allocated)
  /\ entries_lookup \in Seq(Allocated)

(* Each allocated entry is once in the list by identifier and once in the  *)
(* list by match order: xdp2_dtable_add and xdp2_dtable_del, which find    *)
(* their places in the two lists by different searches, keep them equal.   *)
ListsAgree ==
  /\ TypeOK
  /\ \A list \in {entries, entries_lookup} :
       /\ ToSet(list) = Allocated
       /\ Len(list) = Cardinality(Allocated)

(* A matching entry at a lower position, or with a longer prefix. *)
Better(e, f) ==
  CASE kind = "plain" -> FALSE
    [] kind = "tern"  -> e.pos < f.pos
    [] kind = "lpm"   -> e.prefix_len > f.prefix_len

(* What documentation/tables.md promises of a lookup: the entry with the   *)
(* key, the matching one with the lowest position, or the one with the     *)
(* longest matching prefix; the default target only if nothing matches.    *)
(* The code relies on the order in which the adds left entries_lookup.     *)
BestMatch ==
  \A key \in Keys :
    LET hits == {a \in Allocated : Compare(mem[a].match, key)}
        best == {a \in hits : ~\E b \in hits : Better(mem[b].match, mem[a].match)}
    IN  IF hits = {} THEN lookup(key) = Null ELSE lookup(key) \in best

(* Deleting or changing an entry by what it was added with finds that      *)
(* entry.  Only in a ternary table, whose find function does not compare   *)
(* the position, may it be another with the same key and mask that is      *)
(* tried earlier.  So no entry can be added twice.                         *)
KeyFindsEntry ==
  \A a \in Allocated :
    LET hit == find(mem[a].match).entry
    IN  /\ hit # Null
        /\ \/ hit = a
           \/ /\ kind = "tern"
              /\ mem[hit].match.key = mem[a].match.key
              /\ mem[hit].match.mask = mem[a].match.mask
              /\ mem[hit].match.pos < mem[a].match.pos

(* "tables are ordered by identifier", says __xdp2_dtable_find_table, and  *)
(* relies on it to find tables and to refuse used identifiers, whether     *)
(* tables are declared, created under a given identifier, or under one     *)
(* that the library chooses by a search that skips the smaller ones.       *)
TablesOrdered == \A i \in 1 .. Len(tables) - 1 : tables[i] < tables[i + 1]

(* Identifiers that the library has chosen can be used.  One from          *)
(* BASE_IDENT on belongs to one entry, which del_by_id and change_by_id    *)
(* find, although an automatic one may be put in front of smaller ones:    *)
(* entries is not in order, and smaller identifiers, which only callers    *)
(* choose, may not be found (documentation/tables.md promises that they    *)
(* are).  The list of tables, of all identifiers, stays in order.          *)
AutoIdentsUsable ==
  /\ \A a \in Allocated :
       mem[a].ident >= BASE_IDENT => find_ent_by_id(mem[a].ident) = a
  /\ TablesOrdered

(* A new entry takes a key over from another entry only if it is better:   *)
(* among equal positions and equal prefixes the older one stays the first. *)
OlderWinsTies ==
  [][\A key \in Keys :
       /\ Len(entries') > Len(entries)
       /\ lookup(key) # Null
       /\ lookup(key)' # lookup(key)
       => Better(mem'[lookup(key)'].match, mem[lookup(key)].match)]_vars
=============================================================================
