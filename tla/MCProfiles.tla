----------------------------- MODULE MCProfiles -----------------------------
(***************************************************************************)
(* Profiles on small instances: one behaviour is about the rule of the     *)
(* categories or about that of the numbers.                                *)
(***************************************************************************)
EXTENDS Profiles

CONSTANTS m1, r1, r2

MCMembers == {m1}
MCRequests == {r1, r2}
MCConcerns == {"category", "phone"}

\* Every head of at most three characters, with a plus before it or without,
\* alone or on so many further digits that a pattern begins or ceases to match.
Heads == UNION {[1 .. n -> {"+", "0", "1", "2", "6", "-", "a"}] : n \in 0 .. 3}
Nines(n) == [i \in 1 .. n |-> "9"]
Texts == {p \o h \o Nines(n) : p \in {<<>>, <<"+">>}, h \in Heads, n \in {0} \cup 6 .. 15}

Legacy(campus, block, phone) ==
    [NoRow EXCEPT !.stored = TRUE, !.campus = campus, !.block = block, !.phone = phone]

MCLegacyRows ==
    [category |-> {Legacy(b, S, <<>>) : b \in BOOLEAN, S \in SUBSET {"faculty", "major"}},
     phone    |-> {Legacy(FALSE, {}, t) : t \in Texts}]

Blocks == {{}, {"university", "faculty", "major"}, {"school_name"}, {"guardian_name"},
           {"faculty", "major"}, {"school_name", "guardian_name"}}

NewNumber == <<"0", "8">> \o Nines(9)

MCForms ==
    [category |-> [category : Categories \cup {""}, block : Blocks, phone : {<<>>}],
     phone    |-> [category : {""}, block : {{}}, phone : {<<>>, <<"-">>, NewNumber}]]

MCClients == [category |-> MCRequests, phone |-> {r1}]
=============================================================================
