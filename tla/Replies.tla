------------------------------ MODULE Replies -------------------------------
(***************************************************************************)
(* What is taken from an LLM's answer: src/src/interaction/persona.rs,     *)
(* sanitize, makes one chat line of a reply, and src/src/analysis.rs,      *)
(* parse_insight, looks for the JSON object in a summary.                  *)
(*                                                                         *)
(* Characters: "/" stands for the three command characters, "tab" for the  *)
(* white space that is neither a space nor a line break, and "all" for the *)
(* word `everyone` or `here`, whose "@" is a mass mention.                 *)
(***************************************************************************)
EXTENDS Text

White == {" ", "tab", "newline"}
Prefix == {"/", " "}

\* The first line that is not blank, if there is one.
FirstLine(reply) ==
    LET lines == SplitInclusive(reply, {"newline"})
        full == {k \in DOMAIN lines : Trim(lines[k], White) # << >>}
    IN  IF full = {} THEN << >> ELSE Trim(lines[Min(full)], White)

\* Both replace() calls: one pass, an "@" goes where "all" follows.
IsMention(line, i) == line[i] = "@" /\ i < Len(line) /\ line[i + 1] = "all"
DropMentions(line) ==
    LET Keep(rest, i) == IF IsMention(line, i) THEN rest ELSE Append(rest, line[i])
        kept[i \in 0..Len(line)] == IF i = 0 THEN << >> ELSE Keep(kept[i - 1], i)
    IN  kept[Len(line)]

\* Mutant: the reply is capped before its prefix is taken off.
Sanitize_CapsFirst(reply, max) ==
    TrimLeft(DropMentions(Take(FirstLine(reply), max)), Prefix)

Sanitize(reply, max) ==
    Trim(Take(DropMentions(TrimLeft(FirstLine(reply), Prefix)), max), White)

\* From the first opening to the last closing brace, or no object at all.
ParseSlice(content) ==
    LET opens == {i \in DOMAIN content : content[i] = "{"}
        closes == {i \in DOMAIN content : content[i] = "}"}
    IN  IF opens = {} \/ closes = {} THEN << >>
        ELSE IF Max(closes) < Min(opens) THEN << >>
        ELSE <<Min(opens), Max(closes)>>
=============================================================================
