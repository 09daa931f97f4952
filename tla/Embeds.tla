------------------------------- MODULE Embeds -------------------------------
(***************************************************************************)
(* src/src/discord/embed.rs: how an insight becomes a Discord message      *)
(* within Discord's length limits.  A text is a sequence of characters.    *)
(***************************************************************************)
EXTENDS Text

CONSTANTS
    DescLimit,   \* EMBED_DESC_LIMIT
    FieldLimit,  \* FIELD_VALUE_LIMIT
    MaxEmbeds    \* embeds of a message; the code has take(8)

ASSUME EmbedsAssumption ==
    {DescLimit, FieldLimit, MaxEmbeds} \subseteq Nat \ {0}

Blanks == {" ", "newline"}
Ellipsis == "..."

\* split_keep_ws: words with the blank that follows them.
Words(text) == SplitInclusive(text, Blanks)

\* Mutant: what has no room on the current piece is lost.
Add_Loses(acc, piece, max) ==
    IF Len(acc.cur) + Len(piece) > max
    THEN [out |-> Append(acc.out, acc.cur), cur |-> << >>]
    ELSE [acc EXCEPT !.cur = @ \o piece]

\* Push onto the current piece, which is put out first when there is no room.
Add(acc, piece, max) ==
    IF Len(acc.cur) + Len(piece) > max
    THEN [out |-> Append(acc.out, acc.cur), cur |-> piece]
    ELSE [acc EXCEPT !.cur = @ \o piece]

Flush(acc) ==
    IF acc.cur = << >> THEN acc
    ELSE [out |-> Append(acc.out, acc.cur), cur |-> << >>]

\* A word longer than a piece starts a new one and is split by characters.
AddWord(acc, word, max) ==
    LET spread[i \in 0..Len(word)] ==
            IF i = 0 THEN Flush(acc) ELSE Add(spread[i - 1], <<word[i]>>, max)
    IN  IF Len(word) > max THEN spread[Len(word)] ELSE Add(acc, word, max)

ChunkText(text, limit) ==
    LET max == Max({limit, 1})
        words == Words(text)
        built[k \in 0..Len(words)] ==
            IF k = 0 THEN [out |-> << >>, cur |-> << >>]
            ELSE AddWord(built[k - 1], words[k], max)
        out == Flush(built[Len(words)]).out
    IN  IF out = << >> THEN << << >> >> ELSE out

TruncateChars(text, max) ==
    IF Len(text) <= max THEN text ELSE Append(Take(text, max - 1), Ellipsis)

\* The lists joined into one field value each; a field only if the list, or
\* the mood, is not empty.
Field(name, present, value) ==
    IF present THEN <<[name |-> name, value |-> value]>> ELSE << >>

Fields(insight) ==
    Field("topics", insight.topics # << >>,
          TruncateChars(FlattenSeq(insight.topics), FieldLimit))
    \o Field("mood", insight.mood # << >>, insight.mood)
    \o Field("moments", insight.moments # << >>,
             TruncateChars(FlattenSeq(insight.moments), FieldLimit))

\* The first embed carries the fields, and at most MaxEmbeds are kept.
InsightPayload(insight) ==
    LET chunks == ChunkText(insight.summary, DescLimit)
    IN  [k \in 1..Min({MaxEmbeds, Len(chunks)}) |->
            [description |-> chunks[k],
             fields |-> IF k = 1 THEN Fields(insight) ELSE << >>]]
=============================================================================
