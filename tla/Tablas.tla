------------------------------- MODULE Tablas -------------------------------
(***************************************************************************)
(* HASH_TABLE of expat's xmlparse.c: open addressing with double hashing,  *)
(* a power of two of slots, doubled when half of them are taken.  A table  *)
(* holds names: what is stored under a name is the caller's.  Slots go     *)
(* from 0; one has <<name>>, or is Libre, the null pointer.                *)
(***************************************************************************)
EXTENDS Integers, Sequences

CONSTANTS
  hash,         \* [names -> Nat], 0 for any other name
  INIT_POWER    \* the slots of a new table, as a power of two
ASSUME HashNatural == hash \in [DOMAIN hash -> Nat]
ASSUME PotenciaPositiva == INIT_POWER \in Nat \ {0}

Libre == <<>>
Hash(name) == IF name \in DOMAIN hash THEN hash[name] ELSE 0

hashTableInit == [power |-> 0, size |-> 0, used |-> 0, v |-> <<>>]
hashTableClear(table) == [table EXCEPT !.used = 0, !.v = [i \in DOMAIN table.v |-> Libre]]

(* The bits of the hash above the mask, limited to a quarter of the table, *)
(* made odd and kept in a byte: an odd step visits every slot of a power   *)
(* of two.                                                                 *)
SECOND_HASH(h, size, power) ==
  (((h \div size) * size) \div (2 ^ (power - 1))) % (((size - 1) \div 4) + 1)

PROBE_STEP(h, size, power) ==
  LET s == SECOND_HASH(h, size, power) IN (IF s % 2 = 0 THEN s + 1 ELSE s) % 256

(* The slots tried for a name, in order, and the first one that is free or *)
(* holds it.                                                               *)
Intento(h, size, power, k) == ((h % size) + k * (size - PROBE_STEP(h, size, power))) % size
Lugar(v, size, power, name) ==
  LET k == CHOOSE j \in 0..size :
             /\ j = size \/ v[Intento(Hash(name), size, power, j)] \in {Libre, <<name>>}
             /\ \A m \in 0..(j - 1) : v[Intento(Hash(name), size, power, m)] \notin {Libre, <<name>>}
  IN  IF k = size THEN -1 ELSE Intento(Hash(name), size, power, k)

Vacios(n) == [i \in 0..(n - 1) |-> Libre]
Poner(v, size, power, name) == [v EXCEPT ![Lugar(v, size, power, name)] = <<name>>]

(* Fault: the names keep their slots.                                      *)
Duplicar_EnSuSitio(table) ==
  [table EXCEPT !.size = 2 * @, !.power = @ + 1,
                !.v = [i \in 0..(2 * table.size - 1) |-> IF i < table.size THEN table.v[i] ELSE Libre]]

(* The names are moved in the order of their slots.                        *)
Duplicar(table) ==
  LET size == 2 * table.size
      power == table.power + 1
      newV[i \in 0..table.size] ==
        IF i = 0 THEN Vacios(size)
        ELSE IF table.v[i - 1] = Libre THEN newV[i - 1]
        ELSE Poner(newV[i - 1], size, power, table.v[i - 1][1])
  IN  [table EXCEPT !.size = size, !.power = power, !.v = newV[table.size]]

Medio(table) == table.used \div (2 ^ (table.power - 1)) # 0

(* lookup: the slot of a name, or -1; with createSize the name is added.   *)
lookup(table, name) ==
  IF table.size = 0 THEN -1
  ELSE LET i == Lugar(table.v, table.size, table.power, name)
       IN  IF i # -1 /\ table.v[i] = <<name>> THEN i ELSE -1

Crear(table, name) ==
  LET t == CASE table.size = 0 ->
                  [power |-> INIT_POWER, size |-> 2 ^ INIT_POWER, used |-> 0, v |-> Vacios(2 ^ INIT_POWER)]
             [] table.size # 0 /\ Medio(table) -> Duplicar(table)
             [] OTHER -> table
  IN  IF lookup(table, name) # -1 THEN table
      ELSE [t EXCEPT !.v = Poner(@, t.size, t.power, name), !.used = @ + 1]

Ocupados(table) == { i \in 0..(table.size - 1) : table.v[i] # Libre }
hashTableNames(table) == { table.v[i][1] : i \in Ocupados(table) }
=============================================================================
