------------------------------ MODULE Catalogue ------------------------------
(***************************************************************************)
(* The products as the public API shows them (products.py): read through a *)
(* cache that nothing invalidates, since no form calls                     *)
(* _invalidate_catalog_cache, next to the forms that change them           *)
(* (BackOffice).  An entry is a copy of the products of its key, a single  *)
(* one or the whole list.  Redis may be out of reach at any command.       *)
(***************************************************************************)
EXTENDS BackOffice

CONSTANTS
  Reader,
  CacheKeys,  \* "by-id:i" is {i}, "all:limit=n" the set of all ids
  TTL         \* seconds, in ticks: 60 for a product, 300 for the list

ASSUME CacheAssumption == CacheKeys \subseteq SUBSET Ids /\ TTL \in Nat \ {0}

VARIABLES
  cache,  \* the value under each key, and the time it has left
  reader  \* the value a reader has taken from the database and not yet stored

cacheVars == <<cache, reader>>
allVars   == <<vars, cacheVars>>

View(K) == [i \in K |-> rows["products"][i]]
Nothing == [i \in {} |-> NoRow]

CacheInit ==
  /\ cache = [K \in CacheKeys |-> [value |-> Nothing, left |-> 0]]
  /\ reader = [r \in Reader |-> [key |-> {}, value |-> Nothing]]

\* A miss, or a get that failed, reads the database; a hit answers the entry and
\* changes nothing, and neither does a product that does not exist.
Miss(r, K) ==
  /\ reader[r].key = {} /\ K # {}
  /\ \E i \in K : rows["products"][i] # NoRow
  /\ reader' = [reader EXCEPT ![r] = [key |-> K, value |-> View(K)]]
  /\ UNCHANGED cache

\* The value is stored, or lost with the command or the reader.
Store(r) ==
  /\ reader[r].key # {}
  /\ \/ cache' = [cache EXCEPT ![reader[r].key] = [value |-> reader[r].value, left |-> TTL]]
     \/ UNCHANGED cache
  /\ reader' = [reader EXCEPT ![r] = [key |-> {}, value |-> Nothing]]

Tick_Forever ==
  /\ \E K \in CacheKeys : cache[K].left > 0
  /\ cache' = [K \in CacheKeys |->
                 [cache[K] EXCEPT !.left = IF @ <= 1 THEN @ ELSE @ - 1]]
  /\ UNCHANGED reader

\* Redis drops an entry when its time is up.
Tick ==
  /\ \E K \in CacheKeys : cache[K].left > 0
  /\ cache' = [K \in CacheKeys |->
                 IF cache[K].left <= 1 THEN [value |-> Nothing, left |-> 0]
                 ELSE [cache[K] EXCEPT !.left = @ - 1]]
  /\ UNCHANGED reader

CacheNext ==
  \/ \E r \in Reader : Store(r) \/ \E K \in CacheKeys : Miss(r, K)
  \/ Tick

CatalogueInit == Init /\ CacheInit
CatalogueNext ==
  \/ Next /\ UNCHANGED cacheVars
  \/ CacheNext /\ UNCHANGED vars

\* Time passes; nothing else need ever happen.
CatalogueSpec ==
  CatalogueInit /\ [][CatalogueNext]_allVars /\ WF_allVars(Tick /\ UNCHANGED vars)
----------------------------------------------------------------------------
Fresh == \A K \in CacheKeys : cache[K].left > 0 => cache[K].value = View(K)

\* Once the products stop changing the cache stops telling otherwise: a reader
\* that stores what it read before a form was committed, after it, is corrected
\* by nothing but the end of its entry's time.
StaleDiesOut == <>[][FALSE]_rows => <>[]Fresh
=============================================================================
