------------------------------ MODULE TagCodec -------------------------------
(***************************************************************************)
(* pkg/plan/tag.go: the tag a measurement carries in its description, and  *)
(* how it is found again.  Text is a sequence of characters, or of longer  *)
(* tokens that contain no separator.                                       *)
(***************************************************************************)
EXTENDS Integers, Sequences, SequencesExt

CONSTANT DefaultNS  \* "atlasctl"

ASSUME DefaultNSAssumption == DefaultNS \in Seq(STRING)

\* NewTagCodec.
CodecOf(ns) == IF ns = <<>> THEN DefaultNS ELSE ns

Format(ns, name, cohort) ==
    <<"[">> \o ns \o <<":">> \o name \o <<":">> \o cohort \o <<"]">>

\* strings.Index: 0 if part does not occur.
IndexOf(text, part) ==
    LET at == {i \in 1..(Len(text) - Len(part) + 1) :
                  SubSeq(text, i, i + Len(part) - 1) = part}
    IN  IF at = {} THEN 0 ELSE Min(at)

Unreadable == [ok |-> FALSE]

ParseAtLastColon(ns, text) ==
    LET anchor == ns \o <<":">>
        start  == IndexOf(text, anchor)
        rest   == SubSeq(text, start + Len(anchor), Len(text))
        end    == IndexOf(rest, <<"]">>)
        inner  == SubSeq(rest, 1, end - 1)
        sep    == Max({0} \cup {i \in DOMAIN inner : inner[i] = ":"})
    IN  IF start = 0 \/ end = 0 \/ sep \in {0, 1, Len(inner)} THEN Unreadable
        ELSE [ok |-> TRUE, name |-> SubSeq(inner, 1, sep - 1),
              cohort |-> SubSeq(inner, sep + 1, Len(inner))]

ParseNameOnly(ns, text) ==
    LET anchor == ns \o <<":">>
        start  == IndexOf(text, anchor)
        rest   == SubSeq(text, start + Len(anchor), Len(text))
        end    == IndexOf(rest, <<"]">>)
        inner  == SubSeq(rest, 1, end - 1)
        sep    == IndexOf(inner, <<":">>)
    IN  IF start = 0 \/ end = 0 \/ sep \in {1, Len(inner)} THEN Unreadable
        ELSE [ok |-> TRUE, name |-> SubSeq(inner, 1, sep - 1),
              cohort |-> SubSeq(inner, sep + 1, Len(inner))]

\* After the first "<ns>:", wherever it is: all up to the first "]", split at
\* the first ":".
Parse(ns, text) ==
    LET anchor == ns \o <<":">>
        start  == IndexOf(text, anchor)
        rest   == SubSeq(text, start + Len(anchor), Len(text))
        end    == IndexOf(rest, <<"]">>)
        inner  == SubSeq(rest, 1, end - 1)
        sep    == IndexOf(inner, <<":">>)
    IN  IF start = 0 \/ end = 0 \/ sep \in {0, 1, Len(inner)} THEN Unreadable
        ELSE [ok |-> TRUE, name |-> SubSeq(inner, 1, sep - 1),
              cohort |-> SubSeq(inner, sep + 1, Len(inner))]

=============================================================================
