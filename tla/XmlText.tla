-------------------------------- MODULE XmlText ---------------------------------
(***************************************************************************)
(* How tinyxml writes the text of an element and reads it again: what      *)
(* stands for the characters that mean something in XML, references to     *)
(* characters by number, and white space.                                  *)
(*                                                                         *)
(* A text is a sequence of the characters that matter here: "&" and "<"    *)
(* have entities, "ctl" is a control character with number "1F", a space   *)
(* is white, and "z" stands for any other.  What follows the "&" of an     *)
(* entity, and the digits of a number, are one character each.  Attribute  *)
(* values are written and read in the same way, but for white space.       *)
(***************************************************************************)
EXTENDS Naturals, Sequences, SequencesExt, FiniteSets, FiniteSetsExt

CONSTANT MaxText  \* bound: characters of a text

ASSUME XmlTextAssumption == MaxText \in Nat

Chars == {"z", "&", "<", "amp;", "lt;", "#", "x", "1F", ";", " ", "ctl"}
Texts == UNION {[1 .. n -> Chars] : n \in 0 .. MaxText}

-----------------------------------------------------------------------------
\* A reference by a hexadecimal number, or what begins like one
Reference(s, i) == i + 2 <= Len(s) /\ s[i] = "&" /\ s[i + 1] = "#" /\ s[i + 2] = "x"

\* It is passed on as it is up to the next ";", or but for the last character
Passed(s, i) ==
    \E k \in 1 .. i : Reference(s, k) /\ i < Len(s) /\ \A j \in k + 1 .. i : s[j] # ";"

Entity(c) ==
    CASE c = "&"   -> <<"&", "amp;">>
      [] c = "<"   -> <<"&", "lt;">>
      [] c = "ctl" -> <<"&", "#", "x", "1F", ";">>
      [] OTHER     -> <<c>>

EncodeString(s) == FlattenSeq([i \in DOMAIN s |-> IF Passed(s, i) THEN <<s[i]>> ELSE Entity(s[i])])

-----------------------------------------------------------------------------
Wrong == [next |-> 0, value |-> <<>>]  \* GetEntity returns 0
Found(n, v) == [next |-> n, value |-> v]

\* A number: its digits go from the next ";", wherever it is, back to the mark
GetNumber(e, p, from, mark, digits) ==
    LET ends == {q \in p + from .. Len(e) : e[q] = ";"}
        q    == Min(ends)
        read == SubSeq(e, Max({j \in p + 1 .. q : e[j] = mark}) + 1, q - 1)
    IN IF ends = {} \/ ~(Range(read) \subseteq digits) THEN Wrong
       ELSE Found(q + 1, IF read = <<"1F">> THEN <<"ctl">> ELSE <<"other">>)

\* Decimal numbers have no digits here; a "&" that begins nothing is left out
GetEntity(e, p) ==
    LET after(n) == IF p + n <= Len(e) THEN e[p + n] ELSE "end" IN
    CASE after(1) = "#" /\ after(2) = "x"              -> GetNumber(e, p, 3, "x", {"1F"})
      [] after(1) = "#" /\ after(2) \notin {"x", "end"} -> GetNumber(e, p, 2, "#", {})
      [] after(1) = "amp;" -> Found(p + 2, <<"&">>)
      [] after(1) = "lt;"  -> Found(p + 2, <<"<">>)
      [] OTHER             -> Found(p + 1, <<>>)

GetChar(e, p) == IF e[p] = "&" THEN GetEntity(e, p) ELSE Found(p + 1, <<e[p]>>)

\* ReadText up to a "<": white space is left out at both ends and is one space between
ReadText(e) ==
    LET skipped == Min({p \in 1 .. Len(e) + 1 : p > Len(e) \/ e[p] # " "})
        read[p \in 1 .. Len(e) + 1, white \in BOOLEAN] ==
          CASE p > Len(e)   -> <<"error">>
            [] p <= Len(e) /\ e[p] = "<" -> <<>>
            [] p <= Len(e) /\ e[p] = " " -> read[p + 1, TRUE]
            [] OTHER ->
                 LET c == GetChar(e, p) IN
                 IF c.next = 0 THEN <<"error">>
                 ELSE (IF white THEN <<" ">> ELSE <<>>) \o c.value \o read[c.next, FALSE]
    IN read[skipped, FALSE]

-----------------------------------------------------------------------------
\* A text without white space that would be left out
Condensed(s) ==
    /\ s # <<>> => s[1] # " " /\ Last(s) # " "
    /\ \A i \in 2 .. Len(s) : <<s[i - 1], s[i]>> # <<" ", " ">>

\* What is written as the text of an element is read as the same text, whatever
\* characters it has, entities among them; but not if it has what begins a reference
\* (EncodeString passes it on), or white space that is condensed.
TextKept ==
    \A s \in Texts :
        Condensed(s) /\ (\A i \in DOMAIN s : ~Reference(s, i)) => ReadText(EncodeString(s) \o <<"<">>) = s
=============================================================================
