---------------------------- MODULE PositionViews ----------------------------
(***************************************************************************)
(* What readers see of the positions of a trade contract (cm_tc/src/       *)
(* lib.rs): the position book by rate, and the current and the void        *)
(* positions of everybody or of one user.  Each is a query that answers    *)
(* with one chunk; the reader asks again for what comes behind it.         *)
(***************************************************************************)
EXTENDS Market, SequencesExt

CONSTANTS
  MaxQuantities, \* MAX_POSITIONS_QUANTITIES
  MaxLogs,       \* position logs that fit an answer
  Anyone         \* no index_key

ASSUME PositionViewsAssumption == {MaxQuantities, MaxLogs} \subseteq Nat \ {0}

----------------------------------------------------------------------------
(* view_position_book_.  Rates are not zero, so a start of zero is none.   *)

(* sort_by_key keeps the order of the ids where the rates are the same. *)
Precedes(ps, a, b) ==
  \/ ps[a].rate < ps[b].rate
  \/ ps[a].rate = ps[b].rate /\ a < b
Sorted(ps, ids) ==
  CHOOSE s \in [1 .. Cardinality(ids) -> ids] :
    \A i, j \in DOMAIN s : i < j => Precedes(ps, s[i], s[j])

(* The positions behind the start. *)
RatesAndQuantities(k, start) ==
  LET ids == Sorted(positions[k], {id \in DOMAIN positions[k] : positions[k][id].rate > start})
  IN [i \in DOMAIN ids |-> [rate |-> positions[k][ids[i]].rate,
                            quantity |-> positions[k][ids[i]].mainder]]

(* Mutant: a full chunk does not complete its last rate. *)
AddedIfRoom(chunk, item) ==
  IF Len(chunk) >= MaxQuantities THEN chunk
  ELSE IF chunk # <<>> /\ Last(chunk).rate = item.rate
  THEN [chunk EXCEPT ![Len(chunk)].quantity = @ + item.quantity]
  ELSE Append(chunk, item)
(* One iteration of the loop; behind a full chunk every rate is greater    *)
(* than its last, so nothing more is added.                                *)
Added(chunk, item) ==
  IF chunk # <<>> /\ Last(chunk).rate = item.rate
  THEN [chunk EXCEPT ![Len(chunk)].quantity = @ + item.quantity]
  ELSE IF Len(chunk) >= MaxQuantities THEN chunk ELSE Append(chunk, item)

view_position_book(k, start) ==
  LET all   == RatesAndQuantities(k, start)
      chunk == FoldLeft(Added, <<>>, all)
  IN [positions_quantities |-> chunk,
      is_last_chunk |-> chunk = <<>> \/ Last(chunk).rate = Last(all).rate]

----------------------------------------------------------------------------
(* Position logs are listed by id, the oldest first. *)

Before(map, start, index_key) ==
  {id \in DOMAIN map : id < start /\ (index_key # Anyone => map[id].positor = index_key)}

(* Mutant: the oldest are taken. *)
Oldest(ids, n) == {x \in ids : Cardinality({y \in ids : y < x}) < n}
(* rev, take *)
Latest(ids, n) == {x \in ids : Cardinality({y \in ids : y > x}) < n}

(* Each of the two maps gives its latest logs; they are sorted, and the    *)
(* first of them are drained so that n stay.                               *)
LatestOfBoth(maps, start, index_key, n) ==
  LET both == UNION {Latest(Before(maps[k], start, index_key), MaxLogs) : k \in Kind}
  IN {x \in both : Cardinality({y \in both : y > x}) < n}

view_current_positions(start, index_key) ==
  LatestOfBoth(positions, start, index_key, MaxLogs)

(* One more stays than each of the maps gives. *)
view_void_positions_pending(start, index_key) ==
  LatestOfBoth(void_positions, start, index_key, MaxLogs + 1)

----------------------------------------------------------------------------
(* A reader who goes on behind the last rate of a chunk until the chunk    *)
(* that says it is the last sees every rate of the book once, in order,    *)
(* with everything that is offered at it.                                  *)
BookRead(k) ==
  LET read[start \in Nat] ==
        LET page == view_position_book(k, start)
        IN page.positions_quantities \o
             IF page.is_last_chunk THEN <<>> ELSE read[Last(page.positions_quantities).rate]
  IN read[0]

BookPaged ==
  \A k \in Kind :
    LET ps       == positions[k]
        mainders == [id \in DOMAIN ps |-> ps[id].mainder]
        At(r)    == {id \in DOMAIN ps : ps[id].rate = r}
        read     == BookRead(k)
    IN /\ \A i, j \in DOMAIN read : i < j => read[i].rate < read[j].rate
       /\ Range(read) = {[rate |-> r, quantity |-> SumFunctionOnSet(mainders, At(r))] :
                           r \in {ps[id].rate : id \in DOMAIN ps}}

(* A reader who goes on before the first log of a page until a page is     *)
(* empty sees all the current positions, of everybody or of one user.  He  *)
(* sees all the void positions too if he goes on before the latest MaxLogs *)
(* of each page: behind the one more that a page may have, others may be   *)
(* missing.                                                                *)
Newest(page) == {x \in page : Cardinality({y \in page : y > x}) < MaxLogs}
PagesRead(pages) ==
  LET read[start \in 0 .. positions_id_counter] ==
        IF pages[start] = {} THEN {} ELSE pages[start] \cup read[Min(pages[start])]
  IN read[positions_id_counter]

PositionsPaged ==
  \A index_key \in User \cup {Anyone} :
    /\ PagesRead([start \in 0 .. positions_id_counter |-> view_current_positions(start, index_key)])
         = UNION {Before(positions[k], positions_id_counter, index_key) : k \in Kind}
    /\ PagesRead([start \in 0 .. positions_id_counter |->
                    Newest(view_void_positions_pending(start, index_key))])
         = UNION {Before(void_positions[k], positions_id_counter, index_key) : k \in Kind}
=============================================================================
