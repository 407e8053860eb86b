----------------------------- MODULE MCCatalogue -----------------------------
(* Two clerks and one reader.  Of the nineteen handlers one stands for those *)
(* that are treated alike: a keyed form that looks first and one that does   *)
(* not, an update, one that looks up the highest id and one the latest       *)
(* created_at, a push, a start.                                              *)
EXTENDS Catalogue

CONSTANTS c1, c2, k1, k2, r1

MCClerk     == {c1, c2}
MCKey       == {k1, k2}
MCReader    == {r1}
MCForms     == {CreateProduct, UpdateProduct, CreateTicket, CreateShop, CreateInvoice,
                CatalogSync, SeedCatalog}
MCSeedStock == <<[key |-> k1, stock |-> 1], [key |-> k2, stock |-> 1]>>
MCBatches   ==
  LET Line2(k, n, l, m) == <<[key |-> k, stock |-> n], [key |-> l, stock |-> m]>>
  IN {Line2(k1, 1, k2, 0), Line2(k2, 0, k1, 1)}
MCCacheKeys == {Ids}
=============================================================================
