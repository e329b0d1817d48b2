------------------------------- MODULE Pagination -------------------------------
(***************************************************************************)
(* Pages of a list (internal/pagination): what a request asks for, which   *)
(* rows of the list it gets, and how many pages it is told there are.      *)
(*                                                                         *)
(* Numbers are Go's int: a product that leaves its range wraps around.     *)
(***************************************************************************)
EXTENDS Integers

CONSTANTS
    MaxLimit,     \* 100
    DefaultLimit, \* 20
    IntEnd        \* an int is in -IntEnd .. IntEnd - 1 (2^63)

ASSUME PaginationAssumption ==
    /\ {MaxLimit, DefaultLimit, IntEnd} \subseteq Nat \ {0}
    /\ DefaultLimit <= MaxLimit /\ MaxLimit < IntEnd

DefaultPage == 1

Wrap(n) == ((n + IntEnd) % (2 * IntEnd)) - IntEnd

NormalizeLimit(limit) ==
    IF limit <= 0 THEN DefaultLimit ELSE IF limit > MaxLimit THEN MaxLimit ELSE limit

\* A parameter that is absent or no number is 0 here.
ParsePageLimit(page, limit) ==
    [page  |-> IF page > 0 THEN page ELSE DefaultPage,
     limit |-> NormalizeLimit(IF limit > 0 THEN limit ELSE DefaultLimit)]

\* Mutant of Offset: pages are counted from 0.
OffsetFromZero(p) == Wrap(p.page * p.limit)

Offset(p) == Wrap((p.page - 1) * p.limit)

\* The ceiling of total / limit.  (Its float64s are exact below 2^53.)
TotalPages(total, limit) ==
    IF limit > 0 /\ total > 0 THEN (total + limit - 1) \div limit ELSE 0

NewMeta(total, p) ==
    [page |-> p.page, limit |-> p.limit, total |-> total,
     totalPages |-> TotalPages(total, p.limit)]

\* LIMIT and OFFSET: the positions, from 1 to total, of the rows on page p.  Postgres
\* refuses a negative offset.
PageRows(total, p) ==
    IF Offset(p) < 0 THEN {}
    ELSE {n \in 1..total : Offset(p) < n /\ n <= Offset(p) + p.limit}
================================================================================
