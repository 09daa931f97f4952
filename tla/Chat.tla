-------------------------------- MODULE Chat --------------------------------
(***************************************************************************)
(* The chat worker (twitch/chat.rs) and the interaction engine             *)
(* (interaction.rs), joined by a broadcast channel that overwrites its     *)
(* oldest messages and by a bounded channel of replies.  A message is its  *)
(* position in the chat.  Its author, what it says and the dice matter once *)
(* the engine handles it and are chosen freely then: a mention, an easter  *)
(* egg or neither.  The engine is split at its awaits: the Helix request   *)
(* and the two LLM calls.                                                  *)
(***************************************************************************)
EXTENDS Registry, Sequences, SequencesExt

CONSTANTS
  EggUser,    \* easter_egg_user
  Cap,        \* capacity of the broadcast channel (1024)
  OutCap,     \* capacity of the outbound channel (32)
  Recent,     \* RECENT_CONTEXT (15)
  Bucket,     \* chat_rate_per_30s
  Messages    \* bound: messages in the chat

ASSUME ChatAssumption ==
  /\ {Cap, OutCap, Recent, Bucket} \subseteq Nat \ {0} /\ Messages \in Nat

VARIABLES
  sent,      \* how many messages have been broadcast
  chat,      \* the chat worker: at its select!, or done
  out,       \* outbound channel: the message replied to, 0 for none
  pos,       \* how far the engine's receiver has read
  engine,    \* the engine: at its select!, at an await, or done
  recent,    \* the messages of the engine's context
  tokens,    \* the engine's rate limiter
  tripped,   \* the kill-switch of the cost governor
  due,       \* proactive_min_interval has passed
  shutdown,  \* the cancellation token
  handled,   \* history: messages the engine has handled
  said,      \* history: the last threaded reply handed to Twitch
  overrun    \* history: LLM calls begun since the switch tripped

worker == <<sent, chat, said>>
mind == <<recent, handled>>
gates == <<tripped, due, shutdown>>
vars == <<worker, out, pos, engine, mind, tokens, gates, overrun, registry>>

\* Without a bot account the engine is not spawned (main.rs:181).
Init ==
  /\ sent = 0 /\ chat = "select" /\ out = <<>>
  /\ pos = 0 /\ engine \in {"select", "done"}
  /\ recent = <<>> /\ handled = <<>> /\ said = 0
  /\ tokens = Bucket /\ tripped = FALSE /\ due = FALSE /\ shutdown = FALSE
  /\ overrun = 0
  /\ RegistryInit

-----------------------------------------------------------------------------
(* The chat worker *)

Receive ==
  /\ chat = "select" /\ sent < Messages
  /\ sent' = sent + 1
  /\ UNCHANGED <<chat, said, out, pos, engine, mind, tokens, gates, overrun, registry>>

\* The send is awaited in the loop and a failed one is forgotten; nothing the
\* loop does depends on what happens meanwhile.
Say ==
  /\ chat = "select" /\ out # <<>>
  /\ out' = Tail(out)
  /\ said' = IF Head(out) = 0 THEN said ELSE Head(out)
  /\ UNCHANGED <<sent, chat, pos, engine, mind, tokens, gates, overrun, registry>>

\* Cancellation, or the end of the stream of messages.  Both channels lose
\* their end here.
ChatEnds ==
  /\ chat = "select" /\ chat' = "done"
  /\ UNCHANGED <<sent, said, out, pos, engine, mind, tokens, gates, overrun, registry>>

-----------------------------------------------------------------------------
(* The engine *)

\* try_send: a full or closed channel drops the reply.
Offer(m) ==
  out' = IF chat # "done" /\ Len(out) < OutCap THEN Append(out, m) ELSE out

\* The message the engine is answering, and its author.
Current == Last(recent)
Author == CHOOSE u \in Users : spoke[u] = instant

\* Mutant: a receiver that lags subscribes anew.
Lag_Resubscribe ==
  /\ engine = "select" /\ sent - pos > Cap
  /\ pos' = sent
  /\ UNCHANGED <<worker, out, engine, mind, tokens, gates, overrun, registry>>

\* Mutant: a receiver that lags ends the loop.
Lag_Breaks ==
  /\ engine = "select" /\ sent - pos > Cap
  /\ engine' = "done"
  /\ UNCHANGED <<worker, out, pos, mind, tokens, gates, overrun, registry>>

\* RecvError::Lagged: the receiver goes to the oldest message still kept.
Lag ==
  /\ engine = "select" /\ sent - pos > Cap
  /\ pos' = sent - Cap
  /\ UNCHANGED <<worker, out, engine, mind, tokens, gates, overrun, registry>>

\* Mutant: only the limiter is asked.
MayCall_Limiter == tokens > 0

\* cost.allowed, then the limiter: a refusal by the governor costs no token.
MayCall == ~tripped /\ tokens > 0

BeginCall == overrun' = IF tripped THEN overrun + 1 ELSE overrun

\* Mutant: the easter egg goes on to the mention.
EasterEgg_Falls(m, u) ==
  /\ u = EggUser /\ tokens > 0 /\ tokens' = tokens - 1
  /\ Offer(m)
  /\ engine' \in {"select", "reply"}
  /\ UNCHANGED overrun

EasterEgg(m, u) ==
  /\ u = EggUser /\ tokens > 0 /\ tokens' = tokens - 1
  /\ Offer(m)
  /\ UNCHANGED <<engine, overrun>>

Mention(u) ==
  /\ MayCall /\ tokens' = tokens - 1
  /\ \/ NeedsAge(u) /\ engine' = "age" /\ UNCHANGED overrun
     \/ ~NeedsAge(u) /\ engine' = "reply" /\ BeginCall
  /\ UNCHANGED out

\* Not for the bot, or for it and refused.
Ignore == UNCHANGED <<out, engine, tokens, overrun>>

Handle ==
  /\ engine = "select" /\ sent - pos \in 1..Cap
  /\ pos' = pos + 1
  /\ handled' = Append(handled, pos')
  /\ recent' = Append(IF Len(recent) >= Recent THEN Tail(recent) ELSE recent, pos')
  /\ \E u \in Users :
       /\ Observe(u)
       /\ EasterEgg(pos', u) \/ Mention(u) \/ Ignore
  /\ UNCHANGED <<worker, gates>>

\* get_users_created_at answers, fails or knows no such user.
AgeAnswer ==
  /\ engine = "age" /\ engine' = "reply"
  /\ SetAge(Author) \/ UNCHANGED aged
  /\ BeginCall
  /\ UNCHANGED <<worker, out, pos, mind, tokens, gates, lastSeen, instant, spoke>>

\* An answer is recorded and may trip the switch; text that sanitizes to
\* nothing is not sent.
Recorded == tripped' \in {tripped, TRUE}

ReplyAnswer ==
  /\ engine = "reply" /\ engine' = "select"
  /\ \/ Recorded /\ (Offer(Current) \/ UNCHANGED out)
     \/ UNCHANGED <<tripped, out>>
  /\ UNCHANGED <<worker, pos, mind, tokens, due, shutdown, overrun, registry>>

Proactive ==
  /\ engine = "select" /\ due /\ recent # <<>> /\ MayCall
  /\ tokens' = tokens - 1 /\ engine' = "proactive"
  /\ BeginCall
  /\ UNCHANGED <<worker, out, pos, mind, gates, registry>>

\* Only a post that is not empty restarts the interval.
ProactiveAnswer ==
  /\ engine = "proactive" /\ engine' = "select"
  /\ \/ Recorded /\ Offer(0) /\ due' = FALSE
     \/ Recorded /\ UNCHANGED <<out, due>>
     \/ UNCHANGED <<tripped, out, due>>
  /\ UNCHANGED <<worker, pos, mind, tokens, shutdown, overrun, registry>>

\* Cancellation, or a broadcast that is closed and read to its end.
EngineEnds ==
  /\ engine = "select"
  /\ shutdown \/ (chat = "done" /\ pos = sent)
  /\ engine' = "done"
  /\ UNCHANGED <<worker, out, pos, mind, tokens, gates, overrun, registry>>

-----------------------------------------------------------------------------
(* The rest of the program *)

Cancel ==
  /\ ~shutdown /\ shutdown' = TRUE
  /\ UNCHANGED <<worker, out, pos, engine, mind, tokens, tripped, due, overrun, registry>>

\* Time refills the bucket and makes a proactive post due.
TimePasses ==
  /\ engine # "done"
  /\ tokens' = IF tokens < Bucket THEN tokens + 1 ELSE tokens
  /\ due' \in {due, TRUE}
  /\ <<tokens, due>>' # <<tokens, due>>
  /\ UNCHANGED <<worker, out, pos, engine, mind, tripped, shutdown, overrun, registry>>

\* Other workers spend, and a new day resets the switch.
GovernorChanges ==
  /\ engine # "done"
  /\ tripped' = ~tripped /\ overrun' = 0
  /\ UNCHANGED <<worker, out, pos, engine, mind, tokens, due, shutdown, registry>>

Next ==
  \/ Receive \/ Say \/ ChatEnds
  \/ Lag \/ Handle \/ AgeAnswer \/ ReplyAnswer
  \/ Proactive \/ ProactiveAnswer \/ EngineEnds
  \/ Cancel \/ TimePasses \/ GovernorChanges

(***************************************************************************)
(* Requests time out after 60 s (main.rs:33) and twitch-irc answers a      *)
(* send, so awaits end; the branches of the two select!s are picked at     *)
(* random among the ready ones, so one that is ready again and again is    *)
(* taken.  The chat worker need not end without cancellation.              *)
(***************************************************************************)
Fairness ==
  /\ SF_vars(Say) /\ SF_vars(shutdown /\ ChatEnds)
  /\ WF_vars(AgeAnswer \/ ReplyAnswer \/ ProactiveAnswer)
  /\ SF_vars(Lag \/ Handle) /\ SF_vars(EngineEnds)

Spec == Init /\ [][Next]_vars /\ Fairness

-----------------------------------------------------------------------------
(* Properties *)

TypeOK ==
  /\ sent \in 0..Messages /\ pos \in 0..sent
  /\ chat \in {"select", "done"}
  /\ engine \in {"select", "age", "reply", "proactive", "done"}
  /\ out \in Seq(0..Messages) /\ Len(out) <= OutCap
  /\ {recent, handled} \subseteq Seq(1..Messages)
  /\ said \in 0..Messages
  /\ tokens \in 0..Bucket /\ overrun \in Nat
  /\ {tripped, due, shutdown} \subseteq BOOLEAN
  /\ Known \subseteq Users /\ aged \subseteq Known

Increasing(s) == \A i, j \in DOMAIN s : i < j => s[i] < s[j]

\* The threaded replies that wait to be said.
Answers == {i \in DOMAIN out : out[i] # 0}

\* End to end a message is answered at most once, and in the order of the
\* chat, whichever of the easter egg and the mention answers it
\* (interaction.rs:113-121, 152-155; chat.rs:152-154).
AnswersInOrder ==
  \A i \in Answers :
    said < out[i] /\ \A j \in Answers : i < j => out[i] < out[j]

\* A slow engine loses only messages the channel had to overwrite, and sees
\* the others once, in order; its context is the latest it has seen
\* (interaction.rs:101-110, 170-175; main.rs:41).
LagLosesOldest ==
  /\ TypeOK
  /\ Increasing(handled)
  /\ \A m \in 1..pos : Contains(handled, m) \/ m <= sent - Cap
  /\ IsSuffix(recent, handled)
  /\ Len(recent) = IF Len(handled) < Recent THEN Len(handled) ELSE Recent

\* The governor is asked before the Helix request and not again after it
\* (interaction.rs:125, 131, 147): the engine may begin one LLM call after a
\* trip, never a second.
OneCallAfterTrip == overrun <= 1

\* When the chat pauses the engine catches up with it: ticks, replies, lag and
\* failures of the LLM never stop it while the program runs.  It ends with the
\* program, and also when the chat worker ends alone: it reads what is left and
\* stops (interaction.rs:73, 107).
EngineFollows ==
  /\ (pos < sent /\ engine # "done") ~> (pos = sent \/ shutdown)
  /\ (shutdown \/ chat = "done") ~> engine = "done"
=============================================================================
