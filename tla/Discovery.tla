----------------------------- MODULE Discovery -----------------------------
(***************************************************************************)
(* A customer walks through the published products page by page             *)
(* (PublicCatalogController.products, and discover with an offset) while    *)
(* products are published, taken down and repriced.  A page may come from   *)
(* the cache, as of an earlier catalogue.  Products are numbers, in the     *)
(* order of their identifiers; what is sorted by, the price or the date of  *)
(* publication, is the product's value.                                     *)
(***************************************************************************)
EXTENDS Integers, FiniteSets, Sequences

CONSTANTS
  Items, Values,
  Limit,       \* products of a page
  MaxUpdates   \* bound on changes of the catalogue

VARIABLES
  items,   \* [Items -> listed: published, not before now, not deleted; value]
  cached,  \* an earlier catalogue, of which pages are in the cache
  walk,    \* by: value ascending, descending, or offset; cursor; shown so far; over
  updates, \* how often the catalogue was changed
  stayed   \* the products listed and unchanged since the oldest page in the cache

discoveryVars == <<items, cached, walk, updates, stayed>>

Listings == [Items -> [listed : BOOLEAN, value : Values]]
NoCursor == [value |-> 0, id |-> 0]

Init ==
  /\ items \in Listings /\ cached = items
  /\ \E by \in {"asc", "desc", "offset"} :
       walk = [by |-> by, cursor |-> NoCursor, shown |-> <<>>, over |-> FALSE]
  /\ updates = 0
  /\ stayed = {p \in Items : items[p].listed}

-----------------------------------------------------------------------------
(* the order of the query, and what the cursor leaves of it                 *)
Precedes(in, by, p, q) ==
  \/ IF by = "asc" THEN in[p].value < in[q].value ELSE in[p].value > in[q].value
  \/ in[p].value = in[q].value /\ p > q

(* mutant: what has the value of the last one shown is taken as shown *)
BeyondValue(in, by, c, p) == IF by = "asc" THEN in[p].value > c.value ELSE in[p].value < c.value
Beyond(in, by, c, p) ==
  \/ IF by = "asc" THEN in[p].value > c.value ELSE in[p].value < c.value
  \/ in[p].value = c.value /\ p < c.id

(* products in the order of the query: each after as many as are before it  *)
InOrder(in, by, S) ==
  [n \in 1..Cardinality(S) |-> CHOOSE p \in S : Cardinality({q \in S : ~Precedes(in, by, p, q)}) = n]

Rows(in) ==
  LET by == walk.by
      from == IF by = "offset" THEN Len(walk.shown) ELSE 0
      filter == {p \in Items : in[p].listed /\
                   (by = "offset" \/ walk.cursor = NoCursor \/ Beyond(in, by, walk.cursor, p))}
      all == InOrder(in, by, filter)
      end == from + Limit + 1
  IN SubSeq(all, from + 1, IF end < Len(all) THEN end ELSE Len(all))

NextPage(in) ==
  LET rows == Rows(in)
      more == Len(rows) > Limit
      page == SubSeq(rows, 1, IF more THEN Limit ELSE Len(rows)) IN
  /\ ~walk.over
  /\ walk' = [walk EXCEPT !.shown = @ \o page, !.over = ~more,
               !.cursor = IF more THEN [value |-> in[page[Limit]].value, id |-> page[Limit]] ELSE NoCursor]
  /\ UNCHANGED <<items, cached, updates, stayed>>

Update(p, to) ==
  /\ updates < MaxUpdates /\ ~walk.over /\ items[p] # to
  /\ items' = [items EXCEPT ![p] = to]
  /\ updates' = updates + 1 /\ stayed' = stayed \ {p}
  /\ UNCHANGED <<cached, walk>>
Store == cached' = items /\ cached # items /\ UNCHANGED <<items, walk, updates, stayed>>

Next ==
  \/ NextPage(items) \/ NextPage(cached)
  \/ \E p \in Items, to \in [listed : BOOLEAN, value : Values] : Update(p, to)
  \/ Store

-----------------------------------------------------------------------------
(* A product that was listed all the while is shown once by a walk with     *)
(* cursors, whatever happens to the others, and whichever pages are cached. *)
ShownAt(p) == {n \in DOMAIN walk.shown : walk.shown[n] = p}
ShownOnce ==
  walk.by # "offset" =>
    \A p \in stayed : (\A m, n \in ShownAt(p) : m = n) /\ (walk.over => ShownAt(p) # {})

(* The same of discover, whose pages are counted from the first. *)
DiscoveredOnce ==
  \A p \in stayed : (\A m, n \in ShownAt(p) : m = n) /\ (walk.over => ShownAt(p) # {})
=============================================================================
