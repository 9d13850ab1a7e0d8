------------------------------ MODULE SymbolTable ------------------------------
(***************************************************************************)
(* The symbol tables of symbol_table.c.  A table and the chain of outer    *)
(* tables it points at are a sequence of maps, the outermost first; each   *)
(* map is the Dictionary that HashMap implements.                          *)
(***************************************************************************)
EXTENDS Integers, Sequences

Holders(chain, key) == {i \in DOMAIN chain : key \in DOMAIN chain[i]}

symbol_table_contains(chain, key) == Holders(chain, key) # {}

\* The table at which the search from the inside stops.
Nearest(chain, key) ==
    CHOOSE i \in Holders(chain, key) : \A j \in Holders(chain, key) : j <= i

symbol_table_get(chain, key) == chain[Nearest(chain, key)][key]

Bind(table, key, value) ==
    [k \in DOMAIN table \cup {key} |-> IF k = key THEN value ELSE table[k]]

\* Inserts into the innermost table only, which refuses a key it holds.
symbol_table_insert(chain, key, value) ==
    IF key \in DOMAIN chain[Len(chain)] THEN chain
    ELSE [chain EXCEPT ![Len(chain)] = Bind(@, key, value)]
===============================================================================
