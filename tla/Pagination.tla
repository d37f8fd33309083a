----------------------------- MODULE Pagination -----------------------------
(***************************************************************************)
(* Which rows of the member list a page shows: the arithmetic of           *)
(* dbListUsers in internal/admin/database.go.  A client may ask for any    *)
(* page and any size that an int can hold (strconv.Atoi); what it gets is  *)
(* LIMIT Size OFFSET Offset.  There is no state: the theorems are about    *)
(* the operators.                                                          *)
(***************************************************************************)
EXTENDS Integers, TLAPS

CONSTANTS
    defaultPageSize,
    maxPageSize,
    maxPage,
    MaxInt      \* the largest int

ASSUME PageLimits ==
    /\ maxPage \in Nat \ {0} /\ maxPageSize \in Nat \ {0} /\ MaxInt \in Nat
    /\ defaultPageSize \in 1 .. maxPageSize
    /\ (maxPage - 1) * maxPageSize <= MaxInt

Page(page) == IF page < 1 THEN 1 ELSE IF page > maxPage THEN maxPage ELSE page

Size(size) == IF size < 1 THEN defaultPageSize
              ELSE IF size > maxPageSize THEN maxPageSize ELSE size

Offset(page, size) == (Page(page) - 1) * Size(size)

\* The clamps give a page and a size that are in range.
LEMMA Clamped ==
    ASSUME NEW page \in Int, NEW size \in Int
    PROVE  Page(page) \in 1 .. maxPage /\ Size(size) \in 1 .. maxPageSize
BY PageLimits DEF Page, Size

\* A product is monotone in either factor.
LEMMA Products ==
    ASSUME NEW p \in Nat, NEW s \in Nat, NEW P \in Nat, NEW S \in Nat, p <= P, s <= S
    PROVE  p * s \in Nat /\ p * s <= P * S
<1>1. p * s \in Nat /\ p * S \in Nat /\ P * S \in Nat
    OBVIOUS
<1>2. p * s <= p * S
    OBVIOUS
<1>3. p * S <= P * S
    OBVIOUS
<1> QED
    BY <1>1, <1>2, <1>3

\* The product does not overflow: the OFFSET is never negative, whatever a
\* client asks for ("overflow makes OFFSET negative and Postgres 500s",
\* admin/database.go).
THEOREM OffsetFits ==
    ASSUME NEW page \in Int, NEW size \in Int
    PROVE  Offset(page, size) \in 0 .. MaxInt
<1>1. /\ Page(page) - 1 \in Nat /\ Page(page) - 1 <= maxPage - 1
      /\ Size(size) \in Nat /\ Size(size) <= maxPageSize
      /\ maxPage - 1 \in Nat /\ maxPageSize \in Nat
    BY Clamped, PageLimits
<1>2. Offset(page, size) \in Nat /\ Offset(page, size) <= (maxPage - 1) * maxPageSize
    BY <1>1, Products DEF Offset
<1>3. (maxPage - 1) * maxPageSize \in Nat
    BY <1>1, Products
<1> QED
    BY <1>2, <1>3, PageLimits

\* A page begins where the one before it ends: a walk through the pages of one
\* size that are not beyond the last skips no row and repeats none, as long as
\* the list does not change (admin/database.go).
THEOREM PagesTile ==
    ASSUME NEW page \in 1 .. maxPage - 1, NEW size \in Int
    PROVE  Offset(page + 1, size) = Offset(page, size) + Size(size)
<1>1. Page(page) = page /\ Page(page + 1) = page + 1
    BY PageLimits DEF Page
<1>2. Size(size) \in Int /\ page \in Int
    BY Clamped, PageLimits
<1>3. (page + 1 - 1) * Size(size) = (page - 1) * Size(size) + Size(size)
    BY <1>2
<1> QED
    BY <1>1, <1>3 DEF Offset
=============================================================================
