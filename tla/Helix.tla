------------------------------- MODULE Helix --------------------------------
(***************************************************************************)
(* A Helix client with its cached application token (twitch/helix.rs).     *)
(* get_stream serves the stream's lifecycle and get_users_created_at the   *)
(* interaction engine, each with a client of its own; here one client      *)
(* serves both in any order.  Durations are counted in ticks, and an       *)
(* instant in the future is what is left until it.                         *)
(***************************************************************************)
EXTENDS Integers, FiniteSets, FiniteSetsExt

CONSTANTS
  Lifetimes,  \* values of expires_in
  Margin,     \* subtracted from it (60 s)
  Timeout     \* of an HTTP request (60 s, main.rs:33)

ASSUME HelixAssumption ==
  /\ Lifetimes \subseteq Nat /\ IsFiniteSet(Lifetimes) /\ Lifetimes # {}
  /\ Margin \in Nat /\ Timeout \in Nat /\ Timeout <= Margin

VARIABLES
  call,      \* the client: idle, asking for a token, or asking Helix
  op,        \* which of the two operations is being called
  left,      \* the cached token is used for that long; 0 also when none
  life,      \* for how long Twitch accepts the cached token
  fresh,     \* [granted, life] of a token on its way, or None
  waited,    \* how long the request under way has lasted
  \* History:
  slow,      \* how long the request for the cached token lasted
  source,    \* where the present call has its token from: cache or Twitch
  revoked,   \* the cached token was revoked
  rejected   \* get_stream was refused with the cached token, up to 2

token   == <<left, life, slow, revoked, rejected>>
request == <<call, op, fresh, waited, source>>
helix   == <<token, request>>

None == [granted |-> 0, life |-> 0]
Floor(n) == Max({n, 0})

HelixInit ==
  /\ call = "idle" /\ op = "stream" /\ fresh = None /\ waited = 0 /\ source = "twitch"
  /\ left = 0 /\ life = 0 /\ slow = 0 /\ revoked = FALSE /\ rejected = 0

\* ensure_token: a token within its time is used without asking.
Call(o) ==
  /\ call = "idle" /\ op' = o
  /\ call' = IF left > 0 THEN "asking" ELSE "token"
  /\ source' = IF left > 0 THEN "cache" ELSE "twitch"
  /\ UNCHANGED <<token, fresh, waited>>

\* Twitch issues a token, which travels back to the client.
Issue ==
  /\ call = "token" /\ fresh = None
  /\ \E l \in Lifetimes : fresh' = [granted |-> l, life |-> l]
  /\ call' = "issued"
  /\ UNCHANGED <<token, op, waited, source>>

\* Mutant: the margin is not subtracted.
Expiry_Whole(l) == l

Expiry(l) == Floor(l - Margin)

\* The token is stored and used at once.
Receive ==
  /\ call = "issued" /\ call' = "asking"
  /\ left' = Expiry(fresh.granted) /\ life' = fresh.life /\ slow' = waited
  /\ fresh' = None /\ waited' = 0 /\ revoked' = FALSE /\ rejected' = 0
  /\ UNCHANGED <<op, source>>

\* 401: get_stream clears the token; error_for_status of
\* get_users_created_at does not.
Refused ==
  IF op = "stream" THEN left' = 0 /\ rejected' = Min({2, rejected + 1})
  ELSE UNCHANGED <<left, rejected>>

Answer ==
  /\ call = "asking" /\ call' = "idle" /\ waited' = 0
  /\ IF life = 0 THEN Refused ELSE UNCHANGED <<left, rejected>>
  /\ UNCHANGED <<op, fresh, source, life, slow, revoked>>

\* Anything else that ends a request: a timeout, another status, bad JSON.
Fails ==
  /\ call # "idle" /\ call' = "idle" /\ fresh' = None /\ waited' = 0
  /\ UNCHANGED <<token, op, source>>

\* The secret is reset, or Twitch withdraws the token.
Revoke ==
  /\ life > 0 /\ life' = 0 /\ revoked' = TRUE
  /\ UNCHANGED <<request, left, slow, rejected>>

\* Mutant: each use of the token extends its time.
Ages_Sliding ==
  /\ call # "idle" => waited < Timeout
  /\ life' = Floor(life - 1)
  /\ left' = IF call = "asking" THEN left ELSE Floor(left - 1)
  /\ fresh' = [fresh EXCEPT !.life = Floor(@ - 1)]
  /\ waited' = IF call = "idle" THEN 0 ELSE waited + 1
  /\ UNCHANGED <<call, op, source, slow, revoked, rejected>>

\* A tick; the client gives up either request after Timeout.
Ages ==
  /\ call # "idle" => waited < Timeout
  /\ life' = Floor(life - 1) /\ left' = Floor(left - 1)
  /\ fresh' = [fresh EXCEPT !.life = Floor(@ - 1)]
  /\ waited' = IF call = "idle" THEN 0 ELSE waited + 1
  /\ UNCHANGED <<call, op, source, slow, revoked, rejected>>

\* A new HelixClient.
NewClient ==
  /\ call' = "idle" /\ op' = "stream" /\ fresh' = None /\ waited' = 0 /\ source' = "twitch"
  /\ left' = 0 /\ life' = 0 /\ slow' = 0 /\ revoked' = FALSE /\ rejected' = 0

-----------------------------------------------------------------------------
HelixTypeOK ==
  /\ call \in {"idle", "token", "issued", "asking"} /\ op \in {"stream", "users"}
  /\ left \in Nat /\ life \in Nat
  /\ fresh = None \/ fresh \in [granted : Lifetimes, life : Nat]
  /\ waited \in 0..Timeout /\ slow \in 0..Timeout
  /\ source \in {"cache", "twitch"}
  /\ revoked \in BOOLEAN /\ rejected \in 0..2

\* Unless Twitch withdraws it, no token is taken from the cache after its life:
\* the margin covers the slowest answer of the token endpoint.  It covers the
\* request made with it too only as far as it is left over: a reused token is
\* dead when its request ends only if that request and the one for the token
\* together took longer than the margin.  (A token just issued is used at
\* once, however short its life.)  And no token is refused to get_stream twice
\* (helix.rs:48-51, 69-71, 86-89; main.rs:33).
CacheHonest ==
  /\ HelixTypeOK
  /\ left <= life \/ revoked
  /\ call = "asking" /\ source = "cache" /\ life = 0 => revoked \/ slow + waited > Margin
  /\ rejected <= 1

\* get_users_created_at keeps presenting a dead token (helix.rs:122-130), but
\* only until its time is over.
StaleRunsOut == left > 0 /\ life = 0 ~> left = 0 \/ life > 0
=============================================================================
