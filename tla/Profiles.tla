------------------------------ MODULE Profiles ------------------------------
(***************************************************************************)
(* The fields of a member's row that obey rules of their own: the phone    *)
(* number and the category with its block of fields.  They are written by  *)
(* migrations 000007 and 000009, registration, the member's own update     *)
(* (which reads the row in one statement and writes every editable column  *)
(* in a later one) and an admin's edit (which does both while it holds the *)
(* row, hence in one step).                                                *)
(*                                                                         *)
(* Of a field of the block only whether it is filled matters.  The two     *)
(* phone columns obey the same rule; one stands for both.                  *)
(***************************************************************************)
EXTENDS PhoneNumbers, FiniteSets

CONSTANTS
    Requests,       \* updates in flight at a time
    Members,        \* rows of the table "users"
    Concerns,       \* bound: a behaviour is about one of these ...
    LegacyRows,     \* ... concern -> rows that earlier releases have left
    Forms,          \* ... concern -> forms that clients send
    Clients         \* ... concern -> requests that are made

Categories == {"regular", "student", "kids"}
Fields == {"university", "faculty", "major", "school_name", "guardian_name"}

Row == [stored : BOOLEAN, campus : BOOLEAN, category : Categories \cup {"none"},
        block : SUBSET Fields, phone : Text, byApp : BOOLEAN]
Form == [category : Categories \cup {""}, block : SUBSET Fields, phone : Text]

(* Before the categories a row could have a faculty and a major, at the     *)
(* campus dojo or elsewhere, and any text for a number.                     *)
ASSUME LegacyAssumption ==
    \A c \in Concerns : LegacyRows[c] \subseteq
        [stored : {TRUE}, campus : BOOLEAN, category : {"none"},
         block : SUBSET {"faculty", "major"}, phone : Text, byApp : {FALSE}]
ASSUME FormsAssumption == \A c \in Concerns : Forms[c] \subseteq Form
ASSUME ClientsAssumption == \A c \in Concerns : Clients[c] \subseteq Requests

VARIABLES
    concern,    \* what the behaviour is about
    migrated,   \* the migrations have run and this release serves
    row,        \* member -> the committed row
    req,        \* request -> the row it has read and the form it applies
    typed       \* history: member -> what was stored before the migration

vars == <<concern, migrated, row, req, typed>>

NoRow == [stored |-> FALSE, campus |-> FALSE, category |-> "none", block |-> {},
          phone |-> <<>>, byApp |-> FALSE]
Idle == [pc |-> "idle"]

-----------------------------------------------------------------------------
(* CategoryFieldsMissing: also of fields the category does not allow.       *)

CategoryBlocks(c) ==
    CASE c = "regular" -> {{}}
      [] c = "student" -> {{"university", "faculty", "major"}, {"school_name"}}
      [] c = "kids"    -> {{"guardian_name"}}
      [] OTHER         -> {}

CategoryFieldsMissing(c, block) == block \notin CategoryBlocks(c)

Lawful(w) == ~CategoryFieldsMissing(w.category, w.block)

-----------------------------------------------------------------------------
(* ApplyProfileUpdate.                                                      *)

\* Not the code: a number of separators only is assigned like any other.
NumberAssigned(w, f) == IF f.phone = <<>> THEN w.phone ELSE NormalizePhone(f.phone).number

\* A form without a number, or with separators only, leaves the one there is.
NumberAfter(w, f) ==
    LET n == NormalizePhone(f.phone).number IN IF n = <<>> THEN w.phone ELSE n

\* Not the code: like every other field, one of the block is only ever filled.
BlockFilled(w, f) == w.block \cup f.block

\* A category takes the whole block of the form; without one, none of it.
BlockAfter(w, f) == IF f.category = "" THEN w.block ELSE f.block

Merged(w, f) ==
    [w EXCEPT !.phone = NumberAfter(w, f),
              !.category = IF f.category = "" THEN @ ELSE f.category,
              !.block = BlockAfter(w, f),
              !.byApp = TRUE]

Accepts(w, f) == NormalizePhone(f.phone).ok /\ Lawful(Merged(w, f))

\* Not the code: the UPDATE writes only the columns whose values changed.
ColumnsChanged(current, seen, next) ==
    [next EXCEPT
       !.phone = IF next.phone # seen.phone THEN @ ELSE current.phone,
       !.category = IF next.category # seen.category THEN @ ELSE current.category,
       !.block = (current.block \ (seen.block \ next.block)) \cup (next.block \ seen.block)]

\* The UPDATE writes every editable column as the handler has it.
ColumnsWritten(current, seen, next) == next

Stored(m) == row[m].stored

-----------------------------------------------------------------------------
(* The migrations.                                                          *)

\* Not the code: the column has no default.
StudentsOnly(w) ==
    IF w.campus /\ {"faculty", "major"} \subseteq w.block
      THEN [w EXCEPT !.category = "student", !.block = @ \cup {"university"}]
      ELSE w

\* 000009: the category column and its backfill.
Categorized(w) ==
    IF w.campus /\ {"faculty", "major"} \subseteq w.block
      THEN [w EXCEPT !.category = "student", !.block = @ \cup {"university"}]
      ELSE [w EXCEPT !.category = "regular"]

Migrate ==
    /\ ~migrated
    /\ migrated' = TRUE
    /\ row' = [m \in Members |->
                 IF Stored(m)
                   THEN Categorized([row[m] EXCEPT !.phone = Backfilled(@)])
                   ELSE row[m]]
    /\ UNCHANGED <<concern, req, typed>>

-----------------------------------------------------------------------------
(* What handlers do to a row.                                               *)

\* POST /register; a form without a category is a regular one.
Register(m, f) ==
    /\ migrated /\ ~Stored(m)
    /\ LET c == IF f.category = "" THEN "regular" ELSE f.category
           n == NormalizePhone(f.phone)
       IN /\ n.ok /\ ~CategoryFieldsMissing(c, f.block)
          /\ row' = [row EXCEPT ![m] = [NoRow EXCEPT
                       !.stored = TRUE, !.category = c, !.block = f.block,
                       !.phone = n.number, !.byApp = TRUE]]
    /\ UNCHANGED <<concern, migrated, req, typed>>

\* What a client sends: a number of the form, or the one it has been shown.
Filled(f, m) == {f, [f EXCEPT !.phone = row[m].phone]}

\* PUT /auth/profile: GetUserByID ...
Load(r, m, f) ==
    /\ migrated /\ Stored(m)
    /\ req[r] = Idle
    /\ req' = [req EXCEPT ![r] = [pc |-> "apply", member |-> m, seen |-> row[m], form |-> f]]
    /\ UNCHANGED <<concern, migrated, row, typed>>

\* ... and ApplyProfileUpdate, which refuses or writes the merged row.
Apply(r) ==
    /\ req[r].pc = "apply"
    /\ LET m == req[r].member
           w == req[r].seen
           f == req[r].form
       IN row' = IF Accepts(w, f)
                   THEN [row EXCEPT ![m] = ColumnsWritten(row[m], w, Merged(w, f))]
                   ELSE row
    /\ req' = [req EXCEPT ![r] = Idle]
    /\ UNCHANGED <<concern, migrated, typed>>

\* PUT /admin/users/:id, from SELECT ... FOR UPDATE to COMMIT.
AdminEdit(m, f) ==
    /\ migrated /\ Stored(m)
    /\ Accepts(row[m], f)
    /\ row' = [row EXCEPT ![m] = ColumnsWritten(row[m], row[m], Merged(row[m], f))]
    /\ UNCHANGED <<concern, migrated, req, typed>>

\* A request fails, or its client goes away, before the UPDATE.
Stops(r) ==
    /\ req[r].pc = "apply"
    /\ req' = [req EXCEPT ![r] = Idle]
    /\ UNCHANGED <<concern, migrated, row, typed>>

-----------------------------------------------------------------------------
Init ==
    /\ concern \in Concerns
    /\ migrated = FALSE
    /\ row \in [Members -> LegacyRows[concern] \cup {NoRow}]
    /\ req = [r \in Requests |-> Idle]
    /\ typed = [m \in Members |-> row[m].phone]

Next ==
    \/ Migrate
    \/ \E m \in Members, f \in Forms[concern] :
         \/ Register(m, f)
         \/ \E g \in Filled(f, m) :
              \/ AdminEdit(m, g)
              \/ \E r \in Clients[concern] : Load(r, m, g)
    \/ \E r \in Requests : Apply(r) \/ Stops(r)

Spec == Init /\ [][Next]_vars

-----------------------------------------------------------------------------
(* Properties.                                                              *)

\* Every variable has its type; once the migrations have run every row has a
\* category, and an update is only ever about a row that is stored.
TypeOK ==
    /\ concern \in Concerns
    /\ migrated \in BOOLEAN
    /\ row \in [Members -> Row]
    /\ \A m \in Members : migrated /\ Stored(m) => row[m].category \in Categories
    /\ \A r \in Requests :
         \/ req[r] = Idle
         \/ /\ req[r] \in [pc : {"apply"}, member : Members, seen : Row, form : Form]
            /\ migrated /\ Stored(req[r].member) /\ req[r].seen.category \in Categories
    /\ typed \in [Members -> Text]

\* A row any handler has written obeys the rule of its category, although a
\* handler judges a row it has read before others wrote it; only a regular
\* row of an earlier release that nobody has edited since may break it.
CategoryRuleKept ==
    \A m \in Members :
        migrated /\ Stored(m) /\ ~Lawful(row[m]) =>
            ~row[m].byApp /\ row[m].category = "regular"

\* No row is stuck: whatever the migration or an update has left, one update
\* of the category block moves the member to any category ("category switch
\* student -> regular must be able to wipe").
NoDeadEnd ==
    \A m \in Members, c \in Categories :
        migrated /\ Stored(m) =>
            \E block \in SUBSET Fields :
                LET f == [category |-> c, block |-> block, phone |-> <<>>]
                IN Accepts(row[m], f) /\ Merged(row[m], f).category = c

\* The migration rewrites a number exactly as the handlers would have stored
\* it, and leaves exactly those as typed that the handlers refuse or ignore
\* ("keep them in sync, or the app and the backfill will disagree").
PhoneAgreesWithBackfill ==
    \A m \in Members :
        migrated /\ Stored(m) /\ ~row[m].byApp =>
            LET n == NormalizePhone(typed[m]).number
            IN row[m].phone = IF n = <<>> THEN typed[m] ELSE n

\* A client that sends back the number it has been shown does not change it:
\* no stored number is read as another one, whoever stored it.
ResubmissionKeepsPhone ==
    \A m \in Members :
        migrated /\ Stored(m) =>
            NormalizePhone(row[m].phone) \in {Refused, Accepted(<<>>), Accepted(row[m].phone)}

\* No update erases a number that it has read: the row is without one afterwards
\* only if the update's own copy of the row was ("assigning it would silently
\* wipe the number").  A number stored after that copy was read can be lost.
NumberNeverWiped ==
    [][\A r \in Requests :
         req[r].pc = "apply" /\ req'[r] = Idle
             /\ row[req[r].member].phone # <<>> /\ row'[req[r].member].phone = <<>>
           => req[r].seen.phone = <<>>]_vars
=============================================================================
