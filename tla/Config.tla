------------------------------- MODULE Config -------------------------------
(***************************************************************************)
(* src/src/config.rs: the process environment completed by a .env file,    *)
(* and the configuration read from it or the error that stops the start.   *)
(*                                                                         *)
(* One variable stands for all that are read alike, in the code's order.   *)
(* A value is blank, "bad" (it does not parse, or normalizes to an empty   *)
(* channel) or usable.                                                     *)
(***************************************************************************)
EXTENDS Text

Kind == [TWITCH_CHANNEL     |-> "required",
         STREAM_POLL_SECS   |-> "parsed",    \* numbers, durations, booleans
         STT_MODEL          |-> "text",
         TWITCH_BOT_USERNAME |-> "optional"]
Keys == DOMAIN Kind
Order == <<"TWITCH_CHANNEL", "STREAM_POLL_SECS", "STT_MODEL", "TWITCH_BOT_USERNAME">>

Unset == "unset"
Default == "default"
Nothing == "None"
Blank == "blank"
Bad == "bad"

\* A line of the file: an assignment, or a comment, a blank line or one with
\* no `=`.  A line `=value` sets a variable with no name, which panics.
Skipped == [key |-> "skipped", value |-> Blank]
Nameless == [key |-> "", value |-> Blank]

\* Mutant: the file has the last word.
LoadLine_Overrides(env, line) ==
    IF line.key \in Keys THEN [env EXCEPT ![line.key] = line.value] ELSE env

LoadLine(env, line) ==
    IF line.key \in Keys /\ env[line.key] = Unset
    THEN [env EXCEPT ![line.key] = line.value] ELSE env

LoadDotenv(env, file) ==
    LET loaded[i \in 0..Len(file)] ==
            IF i = 0 THEN env ELSE LoadLine(loaded[i - 1], file[i])
    IN  loaded[Len(file)]
LoadPanics(file) == \E i \in DOMAIN file : file[i] = Nameless

\* env_required and normalize_channel, env_parse and env_bool, opt, env_or.
Fails(kind, value) ==
    \/ kind = "required" /\ value \in {Unset, Blank, Bad}
    \/ kind = "parsed" /\ value \in {Blank, Bad}

Read(kind, value) ==
    IF value = Unset THEN IF kind = "optional" THEN Nothing ELSE Default
    ELSE IF kind = "optional" /\ value = Blank THEN Nothing
    ELSE value

\* The first variable that fails is reported by its name.
FromEnv(process, file) ==
    LET env == LoadDotenv(process, file)
        failing == {i \in DOMAIN Order : Fails(Kind[Order[i]], env[Order[i]])}
    IN  IF LoadPanics(file) THEN [outcome |-> "panic"]
        ELSE IF failing # {} THEN [outcome |-> "error", key |-> Order[Min(failing)]]
        ELSE [outcome |-> "config", field |-> [k \in Keys |-> Read(Kind[k], env[k])]]

----------------------------------------------------------------------------
\* normalize_channel.  The pieces a channel is written with, and the text of
\* each before its first "/", "?" or "#".
Login == "login"
Separators == {"https://", "http://", "twitch.tv/", "/", "?"}
BeforeSeparator(piece) ==
    CASE piece \in {"https://", "http://"} -> <<"http:">>
      [] piece = "twitch.tv/" -> <<"twitch.tv">>
      [] OTHER -> << >>

FirstPart(text) ==
    LET k == SelectInSeq(text, LAMBDA p : p \in Separators)
    IN  IF k = 0 THEN text ELSE Take(text, k - 1) \o BeforeSeparator(text[k])

NormalizeChannel(raw) ==
    LET bare == StripPrefix(StripPrefix(Trim(raw, {" "}), "https://"), "http://")
        path == StripPrefix(StripPrefix(bare, "www."), "twitch.tv/")
    IN  Trim(FirstPart(path), {" "})
=============================================================================
