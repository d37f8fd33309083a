--------------------------- MODULE ProfilesProofs ---------------------------
(***************************************************************************)
(* What Profiles guarantees for any number of members and updates, and     *)
(* whatever forms they send.                                               *)
(***************************************************************************)
EXTENDS Profiles, PhoneNumbersProofs, TLAPS

\* Until the migrations have run the rows are those of the earlier release, and
\* nothing is in flight.
Before ==
    /\ concern \in Concerns
    /\ migrated \in BOOLEAN
    /\ row = [m \in Members |-> row[m]]
    /\ req = [r \in Requests |-> req[r]]
    /\ \A r \in Requests :
         req[r].pc = "apply" => migrated /\ req[r].member \in Members
    /\ ~migrated => \A m \in Members : row[m] \in LegacyRows[concern] \cup {NoRow}

CategoryInv == Before /\ CategoryRuleKept

\* The backfill makes a lawful student of a row or leaves a regular one.
LEMMA BackfillLawful ==
    ASSUME Before, ~migrated, NEW m \in Members, Stored(m), NEW p
    PROVE  LET w == Categorized([row[m] EXCEPT !.phone = p])
           IN ~w.byApp /\ (Lawful(w) \/ w.category = "regular")
<1> DEFINE v == [row[m] EXCEPT !.phone = p]
           w == Categorized(v)
<1>1. row[m] \in [stored : {TRUE}, campus : BOOLEAN, category : {"none"},
                  block : SUBSET {"faculty", "major"}, phone : Text, byApp : {FALSE}]
  <2>1. ~NoRow.stored
    BY DEF NoRow
  <2>2. row[m] \in LegacyRows[concern] /\ concern \in Concerns
    BY <2>1 DEF Before, Stored
  <2> QED
    BY <2>2, LegacyAssumption
<1>2. v \in [stored : {TRUE}, campus : BOOLEAN, category : {"none"},
             block : SUBSET {"faculty", "major"}, phone : {p}, byApp : {FALSE}]
    BY <1>1
<1> HIDE DEF v
<1>3. CASE v.campus /\ {"faculty", "major"} \subseteq v.block
  <2>1. w = [v EXCEPT !.category = "student", !.block = @ \cup {"university"}]
    BY <1>3 DEF Categorized
  <2>2. /\ ~w.byApp /\ w.category = "student"
        /\ w.block = {"university", "faculty", "major"}
    BY <1>2, <1>3, <2>1
  <2> QED
    BY <2>2 DEF Lawful, CategoryFieldsMissing, CategoryBlocks, v
<1>4. CASE ~(v.campus /\ {"faculty", "major"} \subseteq v.block)
  <2>1. w = [v EXCEPT !.category = "regular"]
    BY <1>4 DEF Categorized
  <2> QED
    BY <1>2, <2>1 DEF v
<1> QED
    BY <1>3, <1>4

\* Whatever a handler has read, what it writes obeys the rule.
LEMMA WritesLawful ==
    ASSUME NEW w, NEW f, NEW current, Accepts(w, f)
    PROVE  Lawful(ColumnsWritten(current, w, Merged(w, f)))
BY DEF Accepts, ColumnsWritten

\* A request in flight is about a row of the migrated table.
LEMMA BeforeStep == Before /\ [Next]_vars => Before'
<1> SUFFICES ASSUME Before, [Next]_vars PROVE Before'
    OBVIOUS
<1>1. CASE Migrate
    BY <1>1 DEF Migrate, Before
<1>2. ASSUME NEW m \in Members, NEW f, Register(m, f) \/ AdminEdit(m, f)
      PROVE  Before'
    BY <1>2 DEF Register, AdminEdit, Before
<1>3. ASSUME NEW m \in Members, NEW f, NEW r \in Requests, Load(r, m, f)
      PROVE  Before'
    BY <1>3 DEF Load, Before
<1>4. ASSUME NEW r \in Requests, Apply(r) \/ Stops(r)
      PROVE  Before'
    BY <1>4 DEF Apply, Stops, Idle, Before
<1>5. CASE UNCHANGED vars
    BY <1>5 DEF vars, Before
<1> QED
    BY <1>1, <1>2, <1>3, <1>4, <1>5, ClientsAssumption DEF Next, Before

\* No step leaves a row that breaks the rule, except one it never touched.
LEMMA CategoryStep == CategoryInv /\ [Next]_vars => CategoryInv'
<1> SUFFICES ASSUME Before, CategoryRuleKept, [Next]_vars
             PROVE  Before' /\ CategoryRuleKept'
    BY DEF CategoryInv
<1>b. Before'
    BY BeforeStep
<1>1. CASE Migrate
  <2>2. ASSUME NEW m \in Members, row'[m].stored
        PROVE  ~row'[m].byApp /\ (Lawful(row'[m]) \/ row'[m].category = "regular")
    <3>1. CASE Stored(m)
      <4>1. row'[m] = Categorized([row[m] EXCEPT !.phone = Backfilled(row[m].phone)])
        BY <1>1, <3>1 DEF Migrate
      <4> QED
        BY <1>1, <3>1, <4>1, BackfillLawful DEF Migrate
    <3>2. CASE ~Stored(m)
      BY <1>1, <2>2, <3>2 DEF Migrate, Stored
    <3> QED
      BY <3>1, <3>2
  <2> QED
    BY <1>b, <2>2 DEF CategoryRuleKept, Stored, Lawful
<1>2. ASSUME NEW m \in Members, NEW w, Lawful(w), migrated,
             row' = [row EXCEPT ![m] = w], UNCHANGED <<concern, migrated>>, Before'
      PROVE  Before' /\ CategoryRuleKept'
    BY <1>2 DEF Before, CategoryRuleKept, Stored, Lawful
<1>3. ASSUME UNCHANGED <<migrated, row>>, Before'
      PROVE  Before' /\ CategoryRuleKept'
    BY <1>3 DEF Before, CategoryRuleKept, Stored, Lawful
<1>4. ASSUME NEW m \in Members, NEW f \in Forms[concern], Register(m, f)
      PROVE  Before' /\ CategoryRuleKept'
  <2> DEFINE c == IF f.category = "" THEN "regular" ELSE f.category
             w == [NoRow EXCEPT !.stored = TRUE, !.category = c, !.block = f.block,
                                !.phone = NormalizePhone(f.phone).number, !.byApp = TRUE]
  <2>1. row' = [row EXCEPT ![m] = w] /\ migrated /\ UNCHANGED <<concern, migrated>>
        /\ ~CategoryFieldsMissing(c, f.block)
    BY <1>4 DEF Register
  <2>2. w.category = c /\ w.block = f.block
    BY DEF NoRow
  <2>3. Lawful(w)
    BY <2>1, <2>2 DEF Lawful
  <2> HIDE DEF w
  <2> QED
    BY <1>b, <1>2, <2>1, <2>3
<1>5. ASSUME NEW m \in Members, NEW f, AdminEdit(m, f)
      PROVE  Before' /\ CategoryRuleKept'
  <2> DEFINE w == ColumnsWritten(row[m], row[m], Merged(row[m], f))
  <2>1. Lawful(w)
    BY <1>5, WritesLawful DEF AdminEdit
  <2>2. row' = [row EXCEPT ![m] = w] /\ migrated /\ UNCHANGED <<concern, migrated>>
    BY <1>5 DEF AdminEdit
  <2> HIDE DEF w
  <2> QED
    BY <1>b, <1>2, <2>1, <2>2
<1>6. ASSUME NEW r \in Requests, Apply(r), migrated, req[r].member \in Members
      PROVE  Before' /\ CategoryRuleKept'
  <2> DEFINE m == req[r].member
             w == ColumnsWritten(row[m], req[r].seen, Merged(req[r].seen, req[r].form))
  <2>1. CASE Accepts(req[r].seen, req[r].form)
    <3>1. Lawful(w)
      BY <2>1, WritesLawful
    <3>2. row' = [row EXCEPT ![m] = w] /\ UNCHANGED <<concern, migrated>>
      BY <1>6, <2>1 DEF Apply
    <3> HIDE DEF w, m
    <3>3. m \in Members
      BY <1>6 DEF m
    <3> QED
      BY <1>b, <1>2, <1>6, <3>1, <3>2, <3>3
  <2>2. CASE ~Accepts(req[r].seen, req[r].form)
    BY <1>b, <1>3, <1>6, <2>2 DEF Apply
  <2> QED
    BY <2>1, <2>2
<1>7. ASSUME NEW r \in Requests, Stops(r) \/ \E m \in Members : \E f : Load(r, m, f)
      PROVE  Before' /\ CategoryRuleKept'
    BY <1>b, <1>3, <1>7 DEF Stops, Load
<1>8. CASE UNCHANGED vars
    BY <1>b, <1>3, <1>8 DEF vars
<1>9. ASSUME NEW r \in Requests, Apply(r) PROVE migrated /\ req[r].member \in Members
    BY <1>9 DEF Apply, Before
<1> QED
    BY <1>1, <1>4, <1>5, <1>6, <1>7, <1>8, <1>9, ClientsAssumption DEF Next, Before

\* A row that a handler has written obeys the rule of its category, however many
\* updates race (ApplyProfileUpdate judges and writes the whole block,
\* auth/database.go); what the backfill of migration 000009 calls a student is
\* one.
THEOREM CategoriesKept == Spec => []CategoryRuleKept
<1>1. Init => CategoryInv
  <2> SUFFICES ASSUME Init PROVE Before /\ CategoryRuleKept
    BY DEF CategoryInv
  <2>1. row = [m \in Members |-> row[m]] /\ req = [r \in Requests |-> req[r]]
    BY DEF Init
  <2>2. \A r \in Requests : req[r].pc # "apply"
    BY DEF Init, Idle
  <2> QED
    BY <2>1, <2>2 DEF Init, Before, CategoryRuleKept
<1>2. CategoryInv => CategoryRuleKept
    BY DEF CategoryInv
<1> QED
    BY <1>1, <1>2, CategoryStep, PTL DEF Spec

-----------------------------------------------------------------------------
(* The numbers.                                                             *)

\* Every row, and every copy of one, has a column for the number.
Numbered(w) == "phone" \in DOMAIN w

NumbersInv ==
    /\ Before
    /\ \A m \in Members : Numbered(row[m])
    /\ \A r \in Requests : req[r].pc = "apply" => Numbered(req[r].seen)

\* An update writes its number, or the one of the copy it has read.
LEMMA MergedNumber ==
    ASSUME NEW w, NEW f, Numbered(w)
    PROVE  /\ Numbered(Merged(w, f))
           /\ Merged(w, f).phone = <<>> => w.phone = <<>>
<1>1. Numbered(Merged(w, f)) /\ Merged(w, f).phone = NumberAfter(w, f)
    BY DEF Numbered, Merged
<1>2. NumberAfter(w, f) = <<>> => w.phone = <<>>
    BY DEF NumberAfter
<1> QED
    BY <1>1, <1>2

\* What Apply leaves of the row it is about.
LEMMA ApplyNumber ==
    ASSUME NumbersInv, NEW r \in Requests, Apply(r)
    PROVE  /\ Numbered(req[r].seen) /\ req[r].member \in Members
           /\ req' = [req EXCEPT ![r] = Idle]
           /\ \/ row' = row
              \/ row' = [row EXCEPT ![req[r].member] = Merged(req[r].seen, req[r].form)]
<1>1. req[r].pc = "apply" /\ Numbered(req[r].seen) /\ req[r].member \in Members
    BY DEF Apply, NumbersInv, Before
<1> QED
    BY <1>1 DEF Apply, ColumnsWritten

\* No step loses the column.
LEMMA NumbersStep == NumbersInv /\ [Next]_vars => NumbersInv'
<1> SUFFICES ASSUME NumbersInv, [Next]_vars
             PROVE  /\ Before'
                    /\ \A m \in Members : Numbered(row'[m])
                    /\ \A r \in Requests : req'[r].pc = "apply" => Numbered(req'[r].seen)
    BY DEF NumbersInv, Numbered
<1>0. Before /\ Before'
    BY BeforeStep DEF NumbersInv
<1>1. CASE Migrate
  <2>1. \A w : Numbered(w) => Numbered(Categorized([w EXCEPT !.phone = Backfilled(w.phone)]))
      BY DEF Numbered, Categorized
  <2> QED
      BY <1>0, <1>1, <2>1 DEF Migrate, NumbersInv
<1>2. ASSUME NEW m \in Members, NEW f, Register(m, f)
      PROVE  /\ \A n \in Members : Numbered(row'[n])
             /\ req' = req
  <2> DEFINE w == [NoRow EXCEPT
                     !.stored = TRUE, !.category = IF f.category = "" THEN "regular" ELSE f.category,
                     !.block = f.block, !.phone = NormalizePhone(f.phone).number, !.byApp = TRUE]
  <2>1. Numbered(w)
      BY DEF Numbered, NoRow
  <2>2. row' = [row EXCEPT ![m] = w] /\ req' = req
      BY <1>2 DEF Register
  <2> HIDE DEF w
  <2> QED
      BY <1>0, <2>1, <2>2 DEF NumbersInv, Before
<1>3. ASSUME NEW m \in Members, NEW f, AdminEdit(m, f)
      PROVE  /\ \A n \in Members : Numbered(row'[n])
             /\ req' = req
  <2>1. row' = [row EXCEPT ![m] = Merged(row[m], f)] /\ req' = req
      BY <1>3 DEF AdminEdit, ColumnsWritten
  <2>2. Numbered(Merged(row[m], f))
      BY MergedNumber DEF NumbersInv
  <2> QED
      BY <1>0, <2>1, <2>2 DEF NumbersInv, Before
<1>4. ASSUME NEW r \in Requests, NEW m \in Members, NEW f, Load(r, m, f)
      PROVE  /\ row' = row
             /\ \A s \in Requests : req'[s].pc = "apply" => Numbered(req'[s].seen)
    BY <1>0, <1>4 DEF Load, NumbersInv, Before
<1>5. ASSUME NEW r \in Requests, Apply(r)
      PROVE  /\ \A n \in Members : Numbered(row'[n])
             /\ \A s \in Requests : req'[s].pc = "apply" => Numbered(req'[s].seen)
  <2>1. Numbered(Merged(req[r].seen, req[r].form))
      BY <1>5, ApplyNumber, MergedNumber
  <2>2. \A n \in Members : Numbered(row'[n])
      BY <1>0, <1>5, <2>1, ApplyNumber DEF NumbersInv, Before
  <2>3. \A s \in Requests : req'[s].pc = "apply" => Numbered(req'[s].seen)
      BY <1>0, <1>5, ApplyNumber DEF NumbersInv, Before, Idle
  <2> QED
      BY <2>2, <2>3
<1>6. ASSUME NEW r \in Requests, Stops(r)
      PROVE  /\ row' = row
             /\ \A s \in Requests : req'[s].pc = "apply" => Numbered(req'[s].seen)
    BY <1>0, <1>6 DEF Stops, NumbersInv, Before, Idle
<1>7. CASE UNCHANGED vars
    BY <1>0, <1>7 DEF vars, NumbersInv
<1> QED
    BY <1>0, <1>1, <1>2, <1>3, <1>4, <1>5, <1>6, <1>7, ClientsAssumption
       DEF Next, NumbersInv, Before

\* A step erases a number only if it is an update that read the row without one.
LEMMA WipesNothing ==
    ASSUME NumbersInv, [Next]_vars, NEW r \in Requests,
           req[r].pc = "apply", req'[r] = Idle,
           row[req[r].member].phone # <<>>, row'[req[r].member].phone = <<>>
    PROVE  req[r].seen.phone = <<>>
<1>1. req[r] # Idle /\ row' # row /\ req' # req
    BY DEF Idle
<1>2. PICK s \in Requests : Apply(s)
    BY <1>1 DEF Next, Migrate, Register, AdminEdit, Load, Stops, vars, Idle, NumbersInv, Before
<1>3. s = r
    BY <1>1, <1>2, ApplyNumber DEF NumbersInv, Before
<1>4. row' = [row EXCEPT ![req[r].member] = Merged(req[r].seen, req[r].form)]
      /\ Numbered(req[r].seen) /\ req[r].member \in Members
    BY <1>1, <1>2, <1>3, ApplyNumber
<1>5. row'[req[r].member] = Merged(req[r].seen, req[r].form)
    BY <1>4 DEF NumbersInv, Before
<1> QED
    BY <1>4, <1>5, MergedNumber

\* No update erases a number that its own copy of the row had, however many race
\* and whatever text a client sends (ApplyProfileUpdate, auth/database.go).
THEOREM NumbersKept == Spec => NumberNeverWiped
<1>1. Init => NumbersInv
  <2> SUFFICES ASSUME Init PROVE NumbersInv
      OBVIOUS
  <2>1. row = [m \in Members |-> row[m]] /\ req = [r \in Requests |-> req[r]]
      BY DEF Init
  <2>2. \A r \in Requests : req[r].pc # "apply"
      BY DEF Init, Idle
  <2>3. Numbered(NoRow)
      BY DEF Numbered, NoRow
  <2>4. \A m \in Members : Numbered(row[m])
      BY <2>3, LegacyAssumption DEF Init, Numbered
  <2> QED
      BY <2>1, <2>2, <2>4 DEF Init, NumbersInv, Before
<1>2. NumbersInv /\ [Next]_vars =>
        [\A r \in Requests :
           req[r].pc = "apply" /\ req'[r] = Idle
               /\ row[req[r].member].phone # <<>> /\ row'[req[r].member].phone = <<>>
             => req[r].seen.phone = <<>>]_vars
    BY WipesNothing
<1> QED
    BY <1>1, <1>2, NumbersStep, PTL DEF Spec, NumberNeverWiped

-----------------------------------------------------------------------------
(* The rows.                                                                *)

\* A row of the migrated table, and a copy of one.
Sound(w) ==
    /\ w \in Row
    /\ w.stored
    /\ w.category \in Categories
    /\ Settled(w.phone)

\* A row that a handler has written.
Written(w) == Sound(w) /\ w.byApp

\* The rows are as typed until the migrations have run, and sound from then on.
\* So are the copies that updates have read, which they write back.
RowsInv ==
    /\ Before
    /\ row \in [Members -> Row]
    /\ typed \in [Members -> Text]
    /\ ~migrated => \A m \in Members : row[m].phone = typed[m]
    /\ migrated => \A m \in Members : Stored(m) => Sound(row[m])
    /\ PhoneAgreesWithBackfill

InFlight(q) ==
    /\ q \in [pc : {"apply"}, member : Members, seen : Row, form : Form]
    /\ Sound(q.seen)

CopiesInv ==
    \A r \in Requests :
        \/ req[r] = Idle
        \/ InFlight(req[r]) /\ migrated /\ Stored(req[r].member)

ProfilesInv == RowsInv /\ CopiesInv

\* An absent row has the type of a row.
LEMMA NoRowTyped == NoRow \in Row
<1>1. <<>> \in Text
    BY EmptySeq DEF Text
<1> QED
    BY <1>1 DEF NoRow, Row

\* An update of a sound row is sound.
LEMMA MergedWritten ==
    ASSUME NEW w, Sound(w), NEW f \in Form
    PROVE  Written(Merged(w, f))
<1> DEFINE n == NormalizePhone(f.phone).number
           c == IF f.category = "" THEN w.category ELSE f.category
           b == BlockAfter(w, f)
           p == NumberAfter(w, f)
<1>1. w \in Row /\ w.stored = TRUE /\ w.category \in Categories /\ Settled(w.phone)
    BY DEF Sound, Row
<1>2. f.phone \in Text /\ f.block \in SUBSET Fields /\ f.category \in Categories \cup {""}
    BY DEF Form
<1>3. n \in Text /\ Settled(n)
    BY <1>2, NumbersAreCanonical, StoredNumbersSettle
<1> HIDE DEF n
<1>4. p \in Text /\ Settled(p)
    BY <1>1, <1>3 DEF NumberAfter, Row, n
<1>5. c \in Categories
    BY <1>1, <1>2
<1>6. b \in SUBSET Fields
    BY <1>1, <1>2 DEF BlockAfter, Row
<1> HIDE DEF c, b, p
<1>7. Merged(w, f) = [w EXCEPT !.phone = p, !.category = c, !.block = b, !.byApp = TRUE]
    BY DEF Merged, c, b, p
<1>8. /\ Merged(w, f) \in Row
      /\ Merged(w, f).stored = TRUE /\ Merged(w, f).byApp = TRUE
      /\ Merged(w, f).category = c /\ Merged(w, f).phone = p
    BY <1>1, <1>4, <1>5, <1>6, <1>7 DEF Row
<1> QED
    BY <1>4, <1>5, <1>8 DEF Written, Sound

\* What the migrations make of a row of an earlier release.
LEMMA MigratedSound ==
    ASSUME RowsInv, ~migrated, NEW m \in Members, Stored(m)
    PROVE  LET w == Categorized([row[m] EXCEPT !.phone = Backfilled(@)])
           IN Sound(w) /\ w.phone = Backfilled(typed[m])
<1> DEFINE p == Backfilled(typed[m])
           v == [row[m] EXCEPT !.phone = p]
           w == Categorized(v)
<1>1. row[m] \in Row /\ typed[m] \in Text /\ row[m].phone = typed[m] /\ row[m].stored = TRUE
    BY DEF RowsInv, Stored, Row
<1>2. p \in Text /\ Settled(p)
    BY <1>1, StoredNumbersSettle
<1> HIDE DEF p
<1>3. v \in Row /\ v.stored = TRUE /\ v.phone = p
    BY <1>1, <1>2 DEF Row
<1>4. v = [row[m] EXCEPT !.phone = Backfilled(@)]
    BY <1>1 DEF p
<1> HIDE DEF v
<1>5. \/ w = [v EXCEPT !.category = "student", !.block = @ \cup {"university"}]
      \/ w = [v EXCEPT !.category = "regular"]
    BY DEF Categorized
<1>6. w \in Row /\ w.stored = TRUE /\ w.phone = p /\ w.category \in Categories
    BY <1>3, <1>5 DEF Row, Fields, Categories
<1> HIDE DEF w
<1>7. Sound(w)
    BY <1>2, <1>6 DEF Sound
<1> QED
    BY <1>4, <1>6, <1>7 DEF w, p

\* A row that a handler writes leaves the others as they are.
LEMMA RowWritten ==
    ASSUME RowsInv, Before', migrated, NEW m \in Members, NEW w, Written(w),
           row' = [row EXCEPT ![m] = w], UNCHANGED <<migrated, typed>>
    PROVE  RowsInv' /\ \A k \in Members : Stored(k) => Stored(k)'
<1>1. w \in Row /\ w.stored = TRUE /\ w.byApp = TRUE /\ Sound(w)
    BY DEF Written, Sound, Row
<1>2. row' \in [Members -> Row]
    BY <1>1 DEF RowsInv
<1>3. \A k \in Members : row'[k] = IF k = m THEN w ELSE row[k]
    BY DEF RowsInv
<1>4. \A k \in Members : Stored(k) => Stored(k)'
    BY <1>1, <1>3 DEF Stored
<1>5. \A k \in Members : Stored(k)' => Sound(row'[k])
    BY <1>1, <1>3 DEF RowsInv, Stored
<1>6. PhoneAgreesWithBackfill'
    BY <1>1, <1>3 DEF RowsInv, PhoneAgreesWithBackfill, Stored
<1> QED
    BY <1>2, <1>4, <1>5, <1>6 DEF RowsInv, Sound

\* Rows that stay keep what holds of them.
LEMMA RowsKept ==
    ASSUME RowsInv, Before', UNCHANGED <<migrated, row, typed>>
    PROVE  RowsInv' /\ \A k \in Members : Stored(k) => Stored(k)'
BY DEF RowsInv, PhoneAgreesWithBackfill, Stored, Sound

\* Updates that stay in flight, or end.
LEMMA CopiesKept ==
    ASSUME CopiesInv, migrated => migrated', \A k \in Members : Stored(k) => Stored(k)',
           \A r \in Requests : req'[r] \in {req[r], Idle}
    PROVE  CopiesInv'
<1> SUFFICES ASSUME NEW r \in Requests, req'[r] # Idle
             PROVE  InFlight(req'[r]) /\ migrated' /\ row'[req'[r].member].stored
    BY Zenon DEF CopiesInv, InFlight, Sound, Stored
<1>1. req'[r] = req[r]
    OBVIOUS
<1>2. InFlight(req[r]) /\ migrated /\ Stored(req[r].member)
    BY <1>1 DEF CopiesInv
<1>3. req[r].member \in Members
    BY <1>2 DEF InFlight
<1> QED
    BY <1>1, <1>2, <1>3 DEF Stored

\* What an update is about when it writes.
LEMMA ApplyWrites ==
    ASSUME ProfilesInv, NEW r \in Requests, Apply(r)
    PROVE  /\ migrated /\ req[r].member \in Members
           /\ Written(Merged(req[r].seen, req[r].form))
<1>1. req[r] # Idle
    BY DEF Apply, Idle
<1>2. InFlight(req[r]) /\ migrated
    BY <1>1 DEF ProfilesInv, CopiesInv
<1> QED
    BY <1>2, MergedWritten DEF InFlight

\* The form that a client sends.
LEMMA FilledForm ==
    ASSUME RowsInv, NEW m \in Members, NEW f \in Forms[concern], NEW g \in Filled(f, m)
    PROVE  g \in Form
<1>1. concern \in Concerns /\ row[m] \in Row
    BY DEF RowsInv, Before
<1>2. f \in Form
    BY <1>1, FormsAssumption
<1> QED
    BY <1>1, <1>2 DEF Filled, Form, Row

\* Every step keeps rows and copies sound.
LEMMA ProfilesStep == ProfilesInv /\ [Next]_vars => ProfilesInv'
<1> SUFFICES ASSUME RowsInv, CopiesInv, [Next]_vars PROVE RowsInv' /\ CopiesInv'
    BY DEF ProfilesInv
<1>b. Before /\ Before'
    BY BeforeStep DEF RowsInv
<1>1. CASE Migrate
  <2>1. ~migrated /\ migrated' /\ typed' = typed /\ req' = req
    BY <1>1 DEF Migrate
  <2>2. \A m \in Members :
          row'[m] = IF Stored(m) THEN Categorized([row[m] EXCEPT !.phone = Backfilled(@)])
                    ELSE row[m]
    BY <1>1 DEF Migrate
  <2>3. \A m \in Members : Stored(m) => Sound(row'[m]) /\ row'[m].phone = Backfilled(typed[m])
    BY <2>1, <2>2, MigratedSound
  <2>4. row' \in [Members -> Row]
    <3>1. \A m \in Members : row'[m] \in Row
      BY <2>2, <2>3 DEF RowsInv, Sound
    <3> QED
      BY <1>1, <3>1 DEF Migrate
  <2>5. \A m \in Members : Stored(m) <=> Stored(m)'
    BY <2>2, <2>3 DEF Stored, Sound
  <2>6. PhoneAgreesWithBackfill'
    <3>1. \A m \in Members : typed[m] \in Text
      BY DEF RowsInv
    <3> QED
      BY <2>1, <2>3, <2>5, <3>1, BackfillIsNormalizePhone DEF PhoneAgreesWithBackfill
  <2>7. RowsInv'
    BY <1>b, <2>1, <2>3, <2>4, <2>5, <2>6 DEF RowsInv, Sound
  <2>8. CopiesInv'
    BY <2>1, <2>5, CopiesKept
  <2> QED
    BY <2>7, <2>8
<1>2. ASSUME NEW m \in Members, NEW f \in Forms[concern], Register(m, f)
      PROVE  RowsInv' /\ CopiesInv'
  <2> DEFINE c == IF f.category = "" THEN "regular" ELSE f.category
             p == NormalizePhone(f.phone).number
             w == [NoRow EXCEPT !.stored = TRUE, !.category = c, !.block = f.block,
                                !.phone = p, !.byApp = TRUE]
  <2>1. row' = [row EXCEPT ![m] = w] /\ migrated /\ UNCHANGED <<migrated, typed>> /\ req' = req
    BY <1>2 DEF Register
  <2>2. f \in Form
    BY FormsAssumption DEF RowsInv, Before
  <2>3. p \in Text /\ Settled(p)
    BY <2>2, NumbersAreCanonical, StoredNumbersSettle DEF Form
  <2>4. c \in Categories
    BY <2>2 DEF Form, Categories
  <2> HIDE DEF c, p
  <2>5. Written(w)
    <3>1. f.block \in SUBSET Fields
      BY <2>2 DEF Form
    <3>2. /\ w \in Row /\ w.stored = TRUE /\ w.byApp = TRUE
          /\ w.category = c /\ w.phone = p
      BY <2>3, <2>4, <3>1, NoRowTyped DEF Row
    <3> QED
      BY <2>3, <2>4, <3>2 DEF Written, Sound
  <2> HIDE DEF w
  <2>6. RowsInv' /\ \A k \in Members : Stored(k) => Stored(k)'
    BY <1>b, <2>1, <2>5, RowWritten
  <2> QED
    BY <2>1, <2>6, CopiesKept
<1>3. ASSUME NEW m \in Members, NEW g \in Form, AdminEdit(m, g)
      PROVE  RowsInv' /\ CopiesInv'
  <2> DEFINE w == Merged(row[m], g)
  <2>1. row' = [row EXCEPT ![m] = w] /\ migrated /\ UNCHANGED <<migrated, typed>>
        /\ req' = req /\ Stored(m)
    BY <1>3 DEF AdminEdit, ColumnsWritten
  <2>2. Written(w)
    BY <2>1, MergedWritten DEF RowsInv
  <2> HIDE DEF w
  <2>3. RowsInv' /\ \A k \in Members : Stored(k) => Stored(k)'
    BY <1>b, <2>1, <2>2, RowWritten
  <2> QED
    BY <2>1, <2>3, CopiesKept
<1>4. ASSUME NEW r \in Requests, NEW m \in Members, NEW g \in Form, Load(r, m, g)
      PROVE  RowsInv' /\ CopiesInv'
  <2> DEFINE q == [pc |-> "apply", member |-> m, seen |-> row[m], form |-> g]
  <2>1. req' = [req EXCEPT ![r] = q] /\ migrated /\ Stored(m) /\ UNCHANGED <<migrated, row, typed>>
    BY <1>4 DEF Load
  <2>2. InFlight(q)
    <3>1. row[m] \in Row /\ Sound(row[m])
      BY <2>1 DEF RowsInv
    <3> QED
      BY <3>1 DEF InFlight
  <2>3. q.member = m
    OBVIOUS
  <2> HIDE DEF q
  <2>4. RowsInv'
    BY <1>b, <2>1, RowsKept
  <2>5. ASSUME NEW s \in Requests, req'[s] # Idle
        PROVE  InFlight(req'[s]) /\ migrated' /\ row'[req'[s].member].stored
    <3>1. req'[s] = IF s = r THEN q ELSE req[s]
      BY <1>b, <2>1 DEF Before
    <3>2. CASE s = r
      BY <2>1, <2>2, <2>3, <3>1, <3>2 DEF Stored
    <3>3. CASE s # r
      <4>1. InFlight(req[s]) /\ migrated /\ Stored(req[s].member)
        BY <2>5, <3>1, <3>3 DEF CopiesInv
      <4> QED
        BY <2>1, <3>1, <3>3, <4>1 DEF Stored
    <3> QED
      BY <3>2, <3>3
  <2>6. CopiesInv'
    BY <2>5, Zenon DEF CopiesInv, InFlight, Sound, Stored
  <2> QED
    BY <2>4, <2>6
<1>5. ASSUME NEW r \in Requests, Apply(r)
      PROVE  RowsInv' /\ CopiesInv'
  <2> DEFINE m == req[r].member
             w == Merged(req[r].seen, req[r].form)
  <2>1. migrated /\ m \in Members /\ Written(w)
    BY <1>5, ApplyWrites DEF ProfilesInv
  <2>2. \/ row' = [row EXCEPT ![m] = w]
        \/ row' = row
    BY <1>5 DEF Apply, ColumnsWritten
  <2>3. UNCHANGED <<migrated, typed>> /\ req' = [req EXCEPT ![r] = Idle]
    BY <1>5 DEF Apply
  <2>4. \A s \in Requests : req'[s] \in {req[s], Idle}
    BY <1>b, <2>3 DEF Before
  <2> HIDE DEF m, w
  <2>5. RowsInv' /\ \A k \in Members : Stored(k) => Stored(k)'
    BY <1>b, <2>1, <2>2, <2>3, RowWritten, RowsKept
  <2> QED
    BY <2>3, <2>4, <2>5, CopiesKept
<1>6. ASSUME NEW r \in Requests, Stops(r)
      PROVE  RowsInv' /\ CopiesInv'
  <2>1. UNCHANGED <<migrated, row, typed>> /\ \A s \in Requests : req'[s] \in {req[s], Idle}
    BY <1>b, <1>6 DEF Stops, Before
  <2> QED
    BY <1>b, <2>1, RowsKept, CopiesKept
<1>7. CASE UNCHANGED vars
  <2>1. UNCHANGED <<migrated, row, typed, req>>
    BY <1>7 DEF vars
  <2> QED
    BY <1>b, <2>1, RowsKept, CopiesKept
<1> QED
  <2>1. concern \in Concerns
    BY <1>b DEF Before
  <2>2. Clients[concern] \subseteq Requests
    BY <2>1, ClientsAssumption
  <2> QED
    BY <1>1, <1>2, <1>3, <1>4, <1>5, <1>6, <1>7, <2>2, FilledForm DEF Next

\* The rows of an earlier release hold any text.
LEMMA ProfilesInit == Init => ProfilesInv
<1> SUFFICES ASSUME Init PROVE ProfilesInv
    OBVIOUS
<1>1. row = [m \in Members |-> row[m]] /\ req = [r \in Requests |-> req[r]]
      /\ \A r \in Requests : req[r] = Idle
    BY DEF Init
<1>2. Before
    BY <1>1 DEF Init, Before, Idle
<1>3. NoRow \in Row
    BY NoRowTyped
<1>4. LegacyRows[concern] \subseteq Row
    BY LegacyAssumption DEF Init, Row, Fields
<1>5. row \in [Members -> Row]
    BY <1>3, <1>4 DEF Init
<1>6. typed \in [Members -> Text] /\ \A m \in Members : typed[m] = row[m].phone
    BY <1>5 DEF Init, Row
<1>7. PhoneAgreesWithBackfill
    BY DEF Init, PhoneAgreesWithBackfill
<1>8. RowsInv
    BY <1>2, <1>5, <1>6, <1>7 DEF Init, RowsInv
<1>9. CopiesInv
    BY <1>1, Zenon DEF CopiesInv
<1> QED
    BY <1>8, <1>9 DEF ProfilesInv

\* A form without a number and with a lawful block of the category is accepted
\* for any sound row.
LEMMA SwitchAccepted ==
    ASSUME NEW w \in Row, NEW c \in Categories
    PROVE  \E block \in SUBSET Fields :
             LET f == [category |-> c, block |-> block, phone |-> <<>>]
             IN Accepts(w, f) /\ Merged(w, f).category = c
<1>1. PICK b \in SUBSET Fields : ~CategoryFieldsMissing(c, b)
  <2>1. CASE c = "regular"
    <3>1. {} \in SUBSET Fields /\ ~CategoryFieldsMissing("regular", {})
      BY DEF CategoryFieldsMissing, CategoryBlocks
    <3> QED
      BY <2>1, <3>1
  <2>2. CASE c = "student"
    <3>1. {"school_name"} \in SUBSET Fields /\ ~CategoryFieldsMissing("student", {"school_name"})
      BY DEF CategoryFieldsMissing, CategoryBlocks, Fields
    <3> QED
      BY <2>2, <3>1
  <2>3. CASE c = "kids"
    <3>1. {"guardian_name"} \in SUBSET Fields /\ ~CategoryFieldsMissing("kids", {"guardian_name"})
      BY DEF CategoryFieldsMissing, CategoryBlocks, Fields
    <3> QED
      BY <2>3, <3>1
  <2> QED
    BY <2>1, <2>2, <2>3 DEF Categories
<1> DEFINE f == [category |-> c, block |-> b, phone |-> <<>>]
<1>2. f.category = c /\ f.block = b /\ f.phone = <<>> /\ c # ""
    BY DEF Categories
<1> HIDE DEF f
<1>3. Merged(w, f).category = c /\ Merged(w, f).block = b
    BY <1>2 DEF Merged, BlockAfter, Row
<1>4. NormalizePhone(f.phone).ok
  <2>1. NormalizePhone(f.phone) = [ok |-> TRUE, number |-> <<>>]
    BY <1>2, EmptyAccepted, Zenon DEF Accepted
  <2>2. NormalizePhone(f.phone).ok = TRUE
    BY <2>1
  <2> QED
    BY <2>2
<1>5. Accepts(w, f)
    BY <1>1, <1>3, <1>4 DEF Accepts, Lawful
<1> QED
    BY <1>3, <1>5 DEF f

\* The invariant holds all the time.
LEMMA ProfilesInvariant == Spec => []ProfilesInv
BY ProfilesInit, ProfilesStep, PTL DEF Spec

\* Every variable keeps its type, and once the migrations have run every row has
\* a category (the column is NOT NULL, migration 000009) and an update is about
\* a row that is stored.
THEOREM ProfilesTyped == Spec => []TypeOK
<1>1. ProfilesInv => TypeOK
  <2> SUFFICES ASSUME ProfilesInv PROVE TypeOK
    OBVIOUS
  <2>1. \A r \in Requests :
          \/ req[r] = Idle
          \/ /\ req[r] \in [pc : {"apply"}, member : Members, seen : Row, form : Form]
             /\ migrated /\ Stored(req[r].member) /\ req[r].seen.category \in Categories
    BY Zenon DEF ProfilesInv, CopiesInv, InFlight, Sound
  <2>2. /\ concern \in Concerns /\ migrated \in BOOLEAN
        /\ row \in [Members -> Row] /\ typed \in [Members -> Text]
        /\ \A m \in Members : migrated /\ Stored(m) => row[m].category \in Categories
    BY DEF ProfilesInv, RowsInv, Before, Sound
  <2> QED
    BY <2>1, <2>2, Zenon DEF TypeOK
<1> QED
    BY <1>1, ProfilesInvariant, PTL

\* No member is stuck in a category: whatever the migrations, racing updates and
\* the admins have left, one form moves the member to any category
\* (ApplyProfileUpdate, auth/database.go).
THEOREM SwitchAlwaysPossible == Spec => []NoDeadEnd
<1>1. ProfilesInv => NoDeadEnd
  <2>1. ProfilesInv => \A m \in Members : row[m] \in Row
    BY DEF ProfilesInv, RowsInv
  <2> QED
    BY <2>1, SwitchAccepted DEF NoDeadEnd
<1> QED
    BY <1>1, ProfilesInvariant, PTL

\* A number that only the migration has touched is the one the handlers would
\* have stored, or is as it was typed (migration 000007, types/parse.go).
THEOREM BackfillAgrees == Spec => []PhoneAgreesWithBackfill
<1>1. ProfilesInv => PhoneAgreesWithBackfill
    BY DEF ProfilesInv, RowsInv
<1> QED
    BY <1>1, ProfilesInvariant, PTL

\* A client that sends back the number it has been shown does not change it,
\* whoever stored that number and however many updates race.
THEOREM ResubmissionKept == Spec => []ResubmissionKeepsPhone
<1>1. ProfilesInv => ResubmissionKeepsPhone
    BY DEF ProfilesInv, RowsInv, Sound, Settled, ResubmissionKeepsPhone
<1> QED
    BY <1>1, ProfilesInvariant, PTL

-----------------------------------------------------------------------------
(* Where a number comes from.                                               *)

\* A number on a plan, none, or what an earlier release stored and the rule does
\* not take.
Traced(m, p) ==
    \/ p = <<>> \/ OnPlan(p)
    \/ p = typed[m] /\ NormalizePhone(p).number = <<>>

\* Every stored number can be dialled, unless it is a text of an earlier release
\* that the member has not corrected.
NumbersTraced ==
    \A m \in Members : migrated /\ Stored(m) => Traced(m, row[m].phone)

\* The copies that updates hold are copies of such numbers.
TracedInv ==
    /\ ProfilesInv
    /\ NumbersTraced
    /\ \A r \in Requests : req[r] # Idle => Traced(req[r].member, req[r].seen.phone)

\* What the rule and the backfill yield can be traced.
LEMMA RuleTraced ==
    ASSUME NEW t \in Text
    PROVE  LET n == NormalizePhone(t).number
           IN /\ n = <<>> \/ OnPlan(n)
              /\ (Backfilled(t) = t /\ n = <<>>) \/ OnPlan(Backfilled(t))
BY NumbersAreCanonical, BackfillIsNormalizePhone

\* So can what an update writes.
LEMMA MergedTraced ==
    ASSUME NEW m, NEW w \in Row, NEW f \in Form, Traced(m, w.phone)
    PROVE  Traced(m, Merged(w, f).phone)
<1>1. Merged(w, f).phone = NumberAfter(w, f)
    BY DEF Merged, Row
<1>2. f.phone \in Text
    BY DEF Form
<1>3. NumberAfter(w, f) = w.phone \/ OnPlan(NumberAfter(w, f))
  <2> DEFINE n == NormalizePhone(f.phone).number
  <2>1. n = <<>> \/ OnPlan(n)
    BY <1>2, RuleTraced
  <2>2. NumberAfter(w, f) = IF n = <<>> THEN w.phone ELSE n
    BY DEF NumberAfter
  <2> HIDE DEF n
  <2> QED
    BY <2>1, <2>2
<1> QED
    BY <1>1, <1>3, Zenon DEF Traced

\* No step loses track of a number.
LEMMA TracedStep == TracedInv /\ [Next]_vars => TracedInv'
<1> SUFFICES ASSUME ProfilesInv, NumbersTraced, [Next]_vars,
                    \A r \in Requests : req[r] # Idle => Traced(req[r].member, req[r].seen.phone)
             PROVE  TracedInv'
    BY DEF TracedInv
<1>i. ProfilesInv'
    BY ProfilesStep
<1>b. Before /\ row \in [Members -> Row] /\ typed \in [Members -> Text]
    BY DEF ProfilesInv, RowsInv
<1>t. typed' = typed
    BY DEF Next, Migrate, Register, AdminEdit, Load, Apply, Stops, vars
\* It is enough that every new number, in a row or a copy, can be traced.
<1>q. ASSUME migrated' => \A m \in Members : row'[m].stored => Traced(m, row'[m].phone),
             \A r \in Requests : req'[r] # Idle => Traced(req'[r].member, req'[r].seen.phone)
      PROVE  TracedInv'
    BY <1>i, <1>q, <1>t DEF TracedInv, NumbersTraced, Traced, Stored
<1>r. migrated => \A m \in Members : row[m].stored => Traced(m, row[m].phone)
    BY DEF NumbersTraced, Stored
<1>1. CASE Migrate
  <2>1. ASSUME NEW m \in Members, row'[m].stored
        PROVE  Traced(m, row'[m].phone)
    <3>1. ~migrated
      BY <1>1 DEF Migrate
    <3>2. Stored(m)
      BY <1>1, <2>1 DEF Migrate, Stored
    <3>3. row'[m] = Categorized([row[m] EXCEPT !.phone = Backfilled(@)])
      BY <1>1, <3>2 DEF Migrate
    <3>4. row'[m].phone = Backfilled(typed[m])
      BY <3>1, <3>2, <3>3, MigratedSound DEF ProfilesInv
    <3>5. typed[m] \in Text
      BY <1>b
    <3> QED
      BY <3>4, <3>5, RuleTraced DEF Traced
  <2>2. req' = req
    BY <1>1 DEF Migrate
  <2> QED
    BY <1>q, <2>1, <2>2
<1>2. ASSUME NEW m \in Members, NEW f \in Forms[concern], Register(m, f)
      PROVE  TracedInv'
  <2> DEFINE n == NormalizePhone(f.phone).number
  <2>1. req' = req /\ migrated /\ \A k \in Members : k # m => row'[k] = row[k]
    BY <1>2, <1>b DEF Register
  <2>2. row'[m].phone = n
    BY <1>2, <1>b DEF Register, NoRow
  <2>3. f.phone \in Text
    BY <1>b, FormsAssumption DEF Before, Form
  <2>4. Traced(m, n)
    BY <2>3, RuleTraced DEF Traced
  <2> HIDE DEF n
  <2> QED
    BY <1>q, <1>r, <2>1, <2>2, <2>4
<1>3. ASSUME NEW m \in Members, NEW g \in Form, AdminEdit(m, g)
      PROVE  TracedInv'
  <2>1. /\ req' = req /\ migrated /\ Stored(m)
        /\ row' = [row EXCEPT ![m] = Merged(row[m], g)]
    BY <1>3 DEF AdminEdit, ColumnsWritten
  <2>2. Traced(m, Merged(row[m], g).phone)
    BY <1>b, <2>1, MergedTraced DEF NumbersTraced
  <2>3. \A k \in Members : row'[k] = IF k = m THEN Merged(row[m], g) ELSE row[k]
    BY <1>b, <2>1
  <2> QED
    BY <1>q, <1>r, <2>1, <2>2, <2>3
<1>4. ASSUME NEW r \in Requests, NEW m \in Members, NEW g \in Form, Load(r, m, g)
      PROVE  TracedInv'
  <2>1. /\ row' = row /\ migrated /\ Stored(m)
        /\ req' = [req EXCEPT ![r] = [pc |-> "apply", member |-> m, seen |-> row[m], form |-> g]]
    BY <1>4 DEF Load
  <2>2. Traced(m, row[m].phone)
    BY <2>1 DEF NumbersTraced
  <2>3. ASSUME NEW s \in Requests, req'[s] # Idle
        PROVE  Traced(req'[s].member, req'[s].seen.phone)
    <3>1. CASE s = r
      BY <1>b, <2>1, <2>2, <3>1 DEF Before
    <3>2. CASE s # r
      BY <1>b, <2>1, <2>3, <3>2 DEF Before
    <3> QED
      BY <3>1, <3>2
  <2> QED
    BY <1>q, <1>r, <2>1, <2>3
<1>5. ASSUME NEW r \in Requests, Apply(r)
      PROVE  TracedInv'
  <2> DEFINE m == req[r].member
             w == Merged(req[r].seen, req[r].form)
  <2>1. req[r] # Idle
    BY <1>5 DEF Apply, Idle
  <2>2. /\ m \in Members /\ migrated
        /\ req[r].seen \in Row /\ req[r].form \in Form
    BY <2>1 DEF ProfilesInv, CopiesInv, InFlight
  <2>3. Traced(m, w.phone)
    BY <2>1, <2>2, MergedTraced
  <2>4. \/ row' = [row EXCEPT ![m] = w]
        \/ row' = row
    BY <1>5 DEF Apply, ColumnsWritten
  <2>5. req' = [req EXCEPT ![r] = Idle]
    BY <1>5 DEF Apply
  <2> HIDE DEF m, w
  <2>6. \A k \in Members : row'[k] = row[k] \/ (k = m /\ row'[k] = w)
    BY <1>b, <2>2, <2>4
  <2>7. \A s \in Requests : req'[s] \in {req[s], Idle}
    BY <1>b, <2>5 DEF Before
  <2>8. \A k \in Members : row'[k].stored => Traced(k, row'[k].phone)
    BY <1>r, <2>2, <2>3, <2>6
  <2>9. \A s \in Requests : req'[s] # Idle => Traced(req'[s].member, req'[s].seen.phone)
    BY <2>7
  <2> QED
    BY <1>q, <2>8, <2>9
<1>6. ASSUME NEW r \in Requests, Stops(r)
      PROVE  TracedInv'
  <2>1. UNCHANGED <<migrated, row>> /\ \A s \in Requests : req'[s] \in {req[s], Idle}
    BY <1>b, <1>6 DEF Stops, Before
  <2> QED
    BY <1>q, <1>r, <2>1
<1>7. CASE UNCHANGED vars
    BY <1>7, <1>q, <1>r DEF vars
<1> QED
  <2>1. Clients[concern] \subseteq Requests
    BY <1>b, ClientsAssumption DEF Before
  <2>2. RowsInv
    BY DEF ProfilesInv
  <2> QED
    BY <1>1, <1>2, <1>3, <1>4, <1>5, <1>6, <1>7, <2>1, <2>2, FilledForm DEF Next

\* No handler stores a number that cannot be dialled, however many updates race
\* and whatever they have read: one that is off its plan is a text of an earlier
\* release which the handlers refuse or ignore (migration 000007 leaves it
\* "exactly as typed", "so a member corrects it once through the normal UI").
THEOREM OffPlanIsLegacy == Spec => []NumbersTraced
<1>1. Init => TracedInv
  <2>1. Init => NumbersTraced /\ \A r \in Requests : req[r] = Idle
    BY DEF Init, NumbersTraced
  <2> QED
    BY <2>1, ProfilesInit DEF TracedInv
<1>2. TracedInv => NumbersTraced
    BY DEF TracedInv
<1> QED
    BY <1>1, <1>2, TracedStep, PTL DEF Spec
=============================================================================
