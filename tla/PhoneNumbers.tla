---------------------------- MODULE PhoneNumbers ----------------------------
(***************************************************************************)
(* The two spellings of one rule: types.NormalizePhone, which the handlers *)
(* apply to what clients type, and migration 000007, which rewrites what   *)
(* earlier releases stored as typed.  A text is a sequence of characters;  *)
(* "-" stands for every separator and "a" for everything else that is      *)
(* neither a digit nor a plus.                                             *)
(***************************************************************************)
EXTENDS Naturals, Sequences, SequencesExt

Digit == {"0", "1", "2", "3", "4", "5", "6", "7", "8", "9"}
Symbol == Digit \cup {"+", "-", "a"}
Text == Seq(Symbol)

\* What is taken from a text before it is looked at: phoneCleanup, resp. the
\* innermost regexp_replace.
Stripped(t) ==
    LET kept[n \in 0 .. Len(t)] ==
          IF n = 0 THEN <<>>
          ELSE IF t[n] = "-" THEN kept[n - 1] ELSE Append(kept[n - 1], t[n])
    IN kept[Len(t)]

Starts(p, s) == IsPrefix(p, s)
Rest(s, n) == SubSeq(s, n + 1, Len(s))
AllDigits(s) == Range(s) \subseteq Digit

-----------------------------------------------------------------------------
(* The patterns, of which each side has its own copy.                       *)

\* ^\+62[2-9]\d{7,11}$
MatchesID(s) ==
    /\ Starts(<<"+", "6", "2">>, s) /\ AllDigits(Tail(s))
    /\ Len(s) \in 11 .. 15 /\ s[4] \notin {"0", "1"}

\* ^\+[1-9]\d{7,14}$
MatchesGeneric(s) ==
    /\ Starts(<<"+">>, s) /\ AllDigits(Tail(s))
    /\ Len(s) \in 9 .. 16 /\ s[2] # "0"

-----------------------------------------------------------------------------
(* NormalizePhone.                                                          *)

Refused == [ok |-> FALSE, number |-> <<>>]
Accepted(s) == [ok |-> TRUE, number |-> s]

\* Not the code: the trunk 0 stays.
TrunkKept(d) == d

\* A trunk 0 right after the country code goes, but only one.
WithoutTrunk(d) ==
    IF Starts(<<"6", "2", "0">>, d) THEN <<"6", "2">> \o Rest(d, 3) ELSE d

\* Not the code: every number only has to look international.
AnyPlan(s) == MatchesGeneric(s)

\* The pattern a number has to match depends on its country.
OnPlan(s) == IF Starts(<<"+", "6", "2">>, s) THEN MatchesID(s) ELSE MatchesGeneric(s)

NormalizePhone(t) ==
    LET s      == Stripped(t)
        digits == IF Starts(<<"0">>, s) THEN <<"6", "2">> \o Rest(s, 1)
                  ELSE IF Starts(<<"+">>, s) THEN Rest(s, 1) ELSE s
        e164   == <<"+">> \o WithoutTrunk(digits)
    IN IF s = <<>> THEN Accepted(<<>>)
       ELSE IF /\ \E p \in {<<"+">>, <<"0">>, <<"6", "2">>} : Starts(p, s)
               /\ ~Starts(<<"0", "0">>, s)
               /\ OnPlan(e164)
              THEN Accepted(e164)
              ELSE Refused

-----------------------------------------------------------------------------
(* Migration 000007.                                                        *)

\* regexp_replace(s, '^(\+?62)0', '\1')
TrunkReplaced(s) ==
    IF Starts(<<"+", "6", "2", "0">>, s) THEN <<"+", "6", "2">> \o Rest(s, 4)
    ELSE IF Starts(<<"6", "2", "0">>, s) THEN <<"6", "2">> \o Rest(s, 3)
    ELSE s

\* The CASE: what is on no branch is left exactly as typed.
Backfilled(t) ==
    LET s == TrunkReplaced(Stripped(t)) IN
    IF MatchesID(s)                                             THEN s
    ELSE IF Starts(<<"+", "6", "2">>, s)                        THEN t
    ELSE IF MatchesGeneric(s)                                   THEN s
    ELSE IF Starts(<<"6", "2">>, s) /\ MatchesID(<<"+">> \o s)  THEN <<"+">> \o s
    ELSE IF Starts(<<"0">>, s) /\ MatchesID(<<"+", "6", "2">> \o Rest(s, 1))
           THEN <<"+", "6", "2">> \o Rest(s, 1)
    ELSE t
=============================================================================
