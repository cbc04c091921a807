----------------------------- MODULE TrackerList -----------------------------
(***************************************************************************)
(* The list of the trackers (list_trackers in webapp/blueprints/           *)
(* trackers.py) and the paging it shares with the lists of the orders and  *)
(* the customers (webapp/pagination.py): a page is cut out of the table by *)
(* its number, and Next is offered when the page came back full, because   *)
(* the number of rows is not known.                                        *)
(*                                                                         *)
(* A page is asked for with the arguments page and page_size, each a       *)
(* number or, when it is missing or not a number, None; filter is TRUE for *)
(* ?filter=stale.  The database sorts by name; for rows of one name its    *)
(* order is not determined, and is taken to be the same for every page.    *)
(***************************************************************************)
EXTENDS Trackers, Sequences, SequencesExt

CONSTANTS
  DefaultPageSize, MaxPageSize, MaxPage  \* DEFAULT_PAGE_SIZE, MAX_PAGE_SIZE, 10**6

ASSUME TrackerListAssumption ==
  /\ {DefaultPageSize, MaxPageSize, MaxPage} \subseteq Nat \ {0}
  /\ None \notin Nat
  /\ IsFiniteSet(Ids)

(* _parse_int                                                              *)
ParseInt(value, default, high) ==
  IF value = None THEN default
  ELSE IF value < 1 THEN 1
  ELSE IF value > high THEN high
  ELSE value

PageOf(args) == ParseInt(args.page, 1, MaxPage)
SizeOf(args) == ParseInt(args.page_size, DefaultPageSize, MaxPageSize)

(* parse_page with .range(): the last index belongs to the range.          *)
ParsePage(args) ==
  LET offset == (PageOf(args) - 1) * SizeOf(args)
  IN  [first |-> offset, last |-> offset + SizeOf(args) - 1]

Ranged(list, range) ==
  SubSeq(list, range.first + 1, Min({range.last + 1, Len(list)}))

(* Variant: a full page is not followed by another.                        *)
NextPageIfMore(args, returned) ==
  IF returned > SizeOf(args) THEN PageOf(args) + 1 ELSE None

(* build_pagination                                                        *)
NextPage(args, returned) ==
  IF returned >= SizeOf(args) THEN PageOf(args) + 1 ELSE None

PrevPage(args) == IF PageOf(args) > 1 THEN PageOf(args) - 1 ELSE None

(* The rows without a ping for too long.                                   *)
Stale(page, stale) == SelectSeq(page, LAMBDA i : i \in stale)

(* list_trackers, of the sorted rows: staff see every tracker, a customer  *)
(* those assigned to its orders (scope); the filter comes after the page.  *)
ListTrackers(sorted, stale, args) ==
  LET page  == Ranged(sorted, ParsePage(args))
      shown == IF args.filter THEN Stale(page, stale) ELSE page
  IN  [shown |-> shown,
       next  |-> NextPage(args, Len(shown)),
       prev  |-> PrevPage(args)]

(* The link keeps the other arguments.                                     *)
Following(args, page) == [args EXCEPT !.page = page]

(* The pages up to this one.                                               *)
Walk(last, sorted, args) ==
  [p \in 1..last |-> ListTrackers(sorted, {}, Following(args, p))]

(* Next leads through them, and no further.                                *)
Linked(pages) ==
  \A p \in DOMAIN pages : pages[p].next = IF p = Len(pages) THEN None ELSE p + 1

(* The pages and the positions on them where a row is shown.               *)
Places(i, pages) ==
  UNION {{<<p, k>> : k \in {m \in DOMAIN pages[p].shown : pages[p].shown[m] = i}} :
           p \in DOMAIN pages}

Before(place, other) ==
  \/ place[1] < other[1]
  \/ place[1] = other[1] /\ place[2] < other[2]

(* Whatever the page size, which is cut to what is allowed, Next leads     *)
(* from the first page through every tracker of the list, each once and in *)
(* its order, also when the last page is full (pagination.py:35-56); of a  *)
(* list that is not filtered: the filter makes pages look short            *)
(* (trackers.py:107-116).  Page numbers are cut at MaxPage (pagination.py: *)
(* 13), Next leads no further, and the list is to be shorter than that.    *)
ListReachesAll ==
  LET sorted == SetToSeq(Present(table))
  IN  Len(sorted) < MaxPage =>
        \A size \in {None} \cup 0..MaxPageSize + 1 :
          LET args == [page |-> None, page_size |-> size, filter |-> FALSE]
          IN  \E last \in 1..MaxPage :
                LET pages == Walk(last, sorted, args)
                IN  /\ Linked(pages)
                    /\ \A i \in Present(table) : Cardinality(Places(i, pages)) = 1
                    /\ \A k, l \in DOMAIN sorted : k < l =>
                         \A place \in Places(sorted[k], pages),
                            other \in Places(sorted[l], pages) : Before(place, other)
=============================================================================
