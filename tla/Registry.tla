------------------------------ MODULE Registry ------------------------------
(***************************************************************************)
(* The bounded registry of chat users (interaction/registry.rs).  Of a     *)
(* profile it keeps what decisions depend on: when the user was last seen  *)
(* and whether the account age is known.  The clock that dates messages is *)
(* monotonic and fine enough to tell two of them apart.                    *)
(***************************************************************************)
EXTENDS Naturals, FiniteSets

CONSTANTS
  Users,
  RegCap    \* REGISTRY_CAP (2000)

ASSUME RegistryAssumption == RegCap \in Nat \ {0}

VARIABLES
  lastSeen,  \* last_seen of the users in the registry
  aged,      \* those whose account_age_days is known
  instant,   \* the instant of the last message
  spoke      \* history: spoke[u], the instant u was last observed, 0 if never

registry == <<lastSeen, aged, instant, spoke>>

RegistryInit ==
  /\ lastSeen = <<>> /\ aged = {}
  /\ instant = 0 /\ spoke = [u \in Users |-> 0]

Known == DOMAIN lastSeen

\* evict_oldest: min_by_key takes any of the entries with the least last_seen.
Oldest == {v \in Known : \A w \in Known : lastSeen[v] <= lastSeen[w]}

\* Mutant: the newest entry is evicted.
Victims_Newest(u) ==
  IF u \in Known \/ Cardinality(Known) < RegCap THEN {{}}
  ELSE {{v} : v \in {x \in Known : \A w \in Known : lastSeen[w] <= lastSeen[x]}}

Victims(u) ==
  IF u \in Known \/ Cardinality(Known) < RegCap THEN {{}}
  ELSE {{v} : v \in Oldest}

Observe(u) ==
  /\ instant' = instant + 1
  /\ spoke' = [spoke EXCEPT ![u] = instant']
  /\ \E gone \in Victims(u) :
       /\ lastSeen' = [v \in (Known \ gone) \cup {u} |->
                         IF v = u THEN instant' ELSE lastSeen[v]]
       /\ aged' = aged \ gone

\* needs_age, in the registry that the message of u has just updated.
NeedsAge(u) == u \in DOMAIN lastSeen' \ aged'

SetAge(u) == aged' = aged \cup ({u} \cap Known)

\* The registry never outgrows its capacity and forgets only the least
\* recently seen: a user who has spoken and is unknown has been outlived by a
\* full registry of users who spoke no earlier (registry.rs:55-57, 78-87).
\* So the author of the message at hand is always known.
LeastRecentForgotten ==
  /\ Cardinality(Known) <= RegCap
  /\ \A u \in Known : lastSeen[u] = spoke[u]
  /\ \A u \in Users \ Known : spoke[u] > 0 =>
       /\ Cardinality(Known) = RegCap
       /\ \A v \in Known : lastSeen[v] >= spoke[u]
=============================================================================
