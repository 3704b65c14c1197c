------------------------------ MODULE TextFiles ------------------------------
(***************************************************************************)
(* Text files as the code reads and writes them.  A file is the sequence   *)
(* of its characters.  Path.read_text turns every line ending, CR LF, CR   *)
(* or LF, into LF; Path.write_text turns LF into the line ending of the    *)
(* platform.  Neither knows what the other one read.                       *)
(***************************************************************************)
EXTENDS Naturals, Sequences, FiniteSets, SequencesExt

CONSTANTS
    Char,     \* the characters of texts
    LineSep,  \* os.linesep of the platform: <<LF>> or <<CR, LF>>
    Absent    \* no file, no text

CR == "\r"
LF == "\n"

ASSUME PlatformEndsLines ==
    /\ {CR, LF} \subseteq Char /\ LineSep \in {<<LF>>, <<CR, LF>>}
    /\ Absent \notin Seq(Char)

\* What read_text makes of the character at i of a file.
ReadChar(bytes, i) ==
    CASE bytes[i] = CR -> <<LF>>
      [] bytes[i] = LF /\ i > 1 /\ bytes[i - 1] = CR -> <<>>
      [] OTHER -> <<bytes[i]>>

Decode(bytes) == FlattenSeq([i \in DOMAIN bytes |-> ReadChar(bytes, i)])

Encode(text) ==
    FlattenSeq([i \in DOMAIN text |-> IF text[i] = LF THEN LineSep ELSE <<text[i]>>])

TextOf(file) == IF file = Absent THEN Absent ELSE Decode(file)
-----------------------------------------------------------------------------
(* Exact matches.                                                          *)

OccursAt(text, old, i) ==
    /\ i \in 1 .. (Len(text) + 1 - Len(old))
    /\ \A k \in 1 .. Len(old) : text[i + k - 1] = old[k]

\* text with the length characters from i on replaced by new
Spliced(text, i, length, new) ==
    SubSeq(text, 1, i - 1) \o new \o SubSeq(text, i + length, Len(text))
-----------------------------------------------------------------------------
(* What an edit is meant to do, without a loop.  The matches of old are     *)
(* those of its occurrences that no earlier match overlaps: the documents   *)
(* say "exact matches" and leave open how overlapping ones are counted.     *)

Matches(text, old) ==
    LET Occurrences == {i \in 1 .. Len(text) : OccursAt(text, old, i)} IN
    CHOOSE matches \in SUBSET Occurrences :
        \A i \in Occurrences :
            i \in matches <=> \A j \in matches : j < i => j + Len(old) <= i

\* The text after one edit.  Absent if the edit has to be denied: there is no
\* match, or none of that number, or there are several and no number is given.
EditedOnce(text, edit) ==
    LET matches == Matches(text, edit.old)
        rank(i) == Cardinality({j \in matches : j <= i})
        meant == IF edit.occurrence # Absent
                 THEN {i \in matches : rank(i) = edit.occurrence}
                 ELSE IF Cardinality(matches) = 1 THEN matches ELSE {}
    IN IF edit.old = <<>> \/ meant = {} THEN Absent
       ELSE Spliced(text, CHOOSE i \in meant : TRUE, Len(edit.old), edit.new)

\* The code looks for no match of an edit whose two texts are the same.
EditedOrSkipped(text, edit) == IF edit.old = edit.new THEN text ELSE EditedOnce(text, edit)

\* Each edit sees the text that the edits before it have made.
Edited(text, edits) ==
    FoldLeft(LAMBDA sofar, edit : IF sofar = Absent THEN Absent ELSE EditedOrSkipped(sofar, edit),
             text, edits)

\* The same when no edit is skipped, which is what the documents say.
Documented(text, edits) ==
    FoldLeft(LAMBDA sofar, edit : IF sofar = Absent THEN Absent ELSE EditedOnce(sofar, edit),
             text, edits)
=============================================================================
