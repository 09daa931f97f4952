-------------------------------- MODULE Text --------------------------------
(***************************************************************************)
(* What the str methods of Rust's library that src/src calls do to a       *)
(* sequence of characters (a few of them drawn together as one token).     *)
(***************************************************************************)
EXTENDS Naturals, Sequences, SequencesExt, FiniteSetsExt

\* str::trim, str::trim_start_matches
Trim(text, blanks) ==
    LET inner == {i \in DOMAIN text : text[i] \notin blanks}
    IN  IF inner = {} THEN << >> ELSE SubSeq(text, Min(inner), Max(inner))
TrimLeft(text, blanks) ==
    LET first == SelectInSeq(text, LAMBDA c : c \notin blanks)
    IN  IF first = 0 THEN << >> ELSE SubSeq(text, first, Len(text))

\* str::strip_prefix(..).unwrap_or(s)
StripPrefix(text, prefix) ==
    IF text # << >> /\ Head(text) = prefix THEN Tail(text) ELSE text

\* chars().take(n)
Take(text, n) == SubSeq(text, 1, Min({n, Len(text)}))

\* The pieces of a text that end with one of the given characters.
SplitInclusive(text, separators) ==
    LET Grow(pieces, i) ==
            IF i = 1 \/ text[i - 1] \in separators THEN Append(pieces, <<text[i]>>)
            ELSE [pieces EXCEPT ![Len(pieces)] = Append(@, text[i])]
        split[i \in 0..Len(text)] == IF i = 0 THEN << >> ELSE Grow(split[i - 1], i)
    IN  split[Len(text)]
=============================================================================
