----------------------------- MODULE MarketData ----------------------------
(***************************************************************************)
(* Where a process gets what it trades on (cmc.py, and the start of        *)
(* run.py): the ids and addresses of tokens, kept in a table that outlives *)
(* it and in two caches that do not, and the snapshot of prices each tick  *)
(* asks CoinMarketCap for.                                                 *)
(*                                                                         *)
(* The id CMC gives a token never changes, so a cache is the set of the    *)
(* tokens whose id it knows.  A snapshot is known by the tick its prices   *)
(* were read in and by the tokens it has a price for.  The clock counts    *)
(* ticks.                                                                  *)
(***************************************************************************)
EXTENDS Integers, FiniteSets

CONSTANTS
  Symbols,           \* the tokens that may be heard of
  BuiltIn,           \* those in _CMC_ID_CACHE and in the fixture
  Addresses,         \* valid contract addresses
  NoAddress,         \* a missing or malformed one
  Settings,          \* eligible_tokens of each settings file there may be
  Cooldown,          \* _RATE_LIMIT_COOLDOWN_S, in ticks
  MaxAge,            \* _MAX_CACHED_SNAPSHOT_AGE_S, in ticks
  MaxTicks, MaxBoots \* bounds

ASSUME MarketDataAssumption ==
  /\ BuiltIn \subseteq Symbols /\ NoAddress \notin Addresses
  /\ \A s \in Settings : DOMAIN s \subseteq Symbols
                         /\ \A t \in DOMAIN s : s[t] \in Addresses \cup {NoAddress}
  /\ {Cooldown, MaxAge, MaxTicks, MaxBoots} \subseteq Nat

VARIABLES
  pc,                \* what the process does next; "down" without one
  key,               \* whether it has a CMC key
  settings, addr,    \* its settings; resolved_tokens
  todo,              \* rows it is still to write to the table
  cache, shared,     \* ids the adapter knows; ids _CMC_ID_CACHE knows
  limited,           \* _rate_limited_until
  lastGood, snap,    \* _last_good_snapshot; the snapshot of this tick
  dbId, dbAddr,      \* token_metadata_cache
  clock, boots,
  addressed          \* history: tokens a running process had an address for

conf    == <<key, settings, addr>>
ids     == <<cache, shared>>
prices  == <<limited, lastGood, snap>>
table   == <<dbId, dbAddr>>
dataVars == <<pc, conf, todo, ids, prices, table, clock, boots, addressed>>

Never == -1
Snapshot == [at : Nat, read : Nat \cup {Never}, stale : BOOLEAN,
             tokens : SUBSET Symbols, priced : SUBSET Symbols]
NoSnapshot == [at |-> 0, read |-> Never, stale |-> TRUE, tokens |-> {}, priced |-> {}]

MarketTypeOK ==
  /\ pc \in {"down", "persist", "search", "record", "up", "tick"} /\ key \in BOOLEAN
  /\ settings \in Settings
  /\ addr \in [DOMAIN settings -> Addresses \cup {NoAddress}]
  /\ todo \subseteq DOMAIN settings
  /\ cache \subseteq shared /\ shared \subseteq Symbols /\ dbId \subseteq Symbols
  /\ dbAddr \in [Symbols -> Addresses \cup {NoAddress}]
  /\ {snap, lastGood} \subseteq Snapshot
  /\ snap.priced \subseteq snap.tokens
  /\ limited \in Nat /\ clock \in 0 .. MaxTicks /\ boots \in 0 .. MaxBoots
  /\ addressed \subseteq Symbols

-----------------------------------------------------------------------------
(* The start of a process. *)

\* upsert_token_metadata: what is not given is kept.
Upsert(t, id, a) ==
  /\ dbId' = dbId \cup {u \in {t} : id}
  /\ dbAddr' = [dbAddr EXCEPT ![t] = IF a = NoAddress THEN @ ELSE a]

\* Settings come first, the table is for what they lack.
Resolved(s) == [t \in DOMAIN s |-> IF s[t] # NoAddress THEN s[t] ELSE dbAddr[t]]

Seeded_BuiltIn(s) == DOMAIN s \cap BuiltIn    \* fault: not what the table has
Seeded(s) == DOMAIN s \cap dbId

ToPersist_Identified(a) ==        \* fault: only where an id is known, too
  {t \in DOMAIN a : a[t] # NoAddress /\ t \in dbId}
ToPersist(a) == {t \in DOMAIN a : a[t] # NoAddress}

Boot ==
  /\ pc = "down" /\ boots < MaxBoots /\ boots' = boots + 1
  /\ pc' = "persist" /\ key' \in BOOLEAN
  /\ \E s \in Settings :
       /\ settings' = s
       /\ addr' = Resolved(s)
       /\ cache' = Seeded(s)
       /\ shared' = BuiltIn \cup Seeded(s)
       /\ todo' = ToPersist(Resolved(s))
  /\ limited' = 0 /\ lastGood' = NoSnapshot /\ snap' = NoSnapshot
  /\ UNCHANGED <<table, clock, addressed>>

\* Addresses are written one at a time, each with its own commit.
PersistAddress ==
  /\ pc = "persist"
  /\ \E t \in todo : /\ todo' = todo \ {t}
                     /\ Upsert(t, t \in cache, addr[t])
  /\ UNCHANGED <<pc, conf, ids, prices, clock, boots, addressed>>

\* Then ids that are missing are looked for, in one session, of which the ids
\* found before it fails are kept; and then they are written in the same way.
Search ==
  /\ pc = "persist" /\ todo = {}
  /\ pc' = "record"
  /\ \E found \in SUBSET (DOMAIN settings \ cache) :
       /\ key \/ found = {}
       /\ todo' = found
       /\ cache' = cache \cup found /\ shared' = shared \cup found
  /\ UNCHANGED <<conf, prices, table, clock, boots, addressed>>

RecordId ==
  /\ pc = "record"
  /\ \E t \in todo : /\ todo' = todo \ {t}
                     /\ Upsert(t, TRUE, addr[t])
  /\ UNCHANGED <<pc, conf, ids, prices, clock, boots, addressed>>

Start ==
  /\ pc = "record" /\ todo = {}
  /\ pc' = "up"
  /\ addressed' = addressed \cup {t \in DOMAIN addr : addr[t] # NoAddress}
  /\ UNCHANGED <<conf, todo, ids, prices, table, clock, boots>>

BootStep == PersistAddress \/ Search \/ RecordId \/ Start

Crash ==
  /\ pc # "down"
  /\ pc' = "down"
  /\ todo' = {}
  /\ UNCHANGED <<conf, ids, prices, table, clock, boots, addressed>>

-----------------------------------------------------------------------------
(* fetch_snapshot. *)

\* What may become of a fetch.  All that fails in the session, a rate limit
\* too, is caught there; only what fails afterwards, when the features are
\* built from a malformed reply, leaves _fetch_real_async.
Reply == {"ok", "limited", "broken", "malformed"}
Escapes_Any(reply) == reply # "ok"        \* fault: the session catches nothing
Escapes(reply) == reply = "malformed"
IsRateLimit(reply) == reply = "limited"

Fixture == [at |-> clock, read |-> Never, stale |-> FALSE,
            tokens |-> BuiltIn, priced |-> BuiltIn]
StaleFixture == [Fixture EXCEPT !.stale = TRUE]
Fresh(tokens, priced) == [at |-> clock, read |-> clock, stale |-> FALSE,
                          tokens |-> tokens, priced |-> priced]

\* The last good snapshot, stamped anew, if there is one that is not too old.
HasCached == lastGood # NoSnapshot /\ clock - lastGood.at <= MaxAge
Cached == [lastGood EXCEPT !.at = clock]

Paused == limited > clock
CallsOut == key /\ ~(Paused /\ HasCached)

Fetched(reply, fresh) ==
  IF ~key THEN Fixture
  ELSE IF ~CallsOut THEN Cached
  ELSE IF reply = "ok" THEN fresh
  ELSE IF Escapes(reply) /\ IsRateLimit(reply) /\ HasCached THEN Cached
  ELSE StaleFixture

\* A tracked token whose id is neither known nor found is left out; one whose
\* quote is missing has the price 0.  A stale snapshot ends the tick.
Fetch ==
  /\ pc = "up" /\ clock < MaxTicks
  /\ \E reply \in Reply, found \in SUBSET (DOMAIN settings \ cache) :
     \E priced \in SUBSET ((DOMAIN settings \cap cache) \cup found) :
       LET tokens == (DOMAIN settings \cap cache) \cup found
           fresh == Fresh(tokens, priced)
       IN /\ ~CallsOut => reply = "ok" /\ found = {} /\ priced = tokens
          /\ reply # "ok" => priced = {}
          /\ cache' = cache \cup found /\ shared' = shared \cup found
          /\ snap' = Fetched(reply, fresh)
          /\ lastGood' = IF CallsOut /\ reply = "ok" THEN fresh ELSE lastGood
          /\ limited' = IF ~CallsOut THEN limited
                        ELSE IF reply = "ok" THEN 0
                        ELSE IF Escapes(reply) /\ IsRateLimit(reply) THEN clock + Cooldown
                        ELSE limited
  /\ IF snap'.stale THEN pc' = "up" /\ clock' = clock + 1
                    ELSE pc' = "tick" /\ clock' = clock
  /\ UNCHANGED <<conf, todo, table, boots, addressed>>

-----------------------------------------------------------------------------
(* call_tool, as the state it leaves: it always answers, if need be with an *)
(* error, and may have learnt the id of the token it was asked about.       *)

Learns(t, found) == key /\ ~Paused /\ t \notin shared /\ found

CallTool_Alone(t, found) ==        \* fault: only the adapter remembers
  cache' = cache \cup {u \in {t} : Learns(t, found)} /\ UNCHANGED shared
CallTool(t, found) ==
  /\ cache' = cache \cup {u \in {t} : Learns(t, found)}
  /\ shared' = shared \cup {u \in {t} : Learns(t, found)}

MarketInit ==
  /\ pc = "down" /\ key = FALSE
  /\ settings \in Settings /\ addr = [t \in DOMAIN settings |-> NoAddress]
  /\ todo = {} /\ cache = {} /\ shared = BuiltIn
  /\ limited = 0 /\ lastGood = NoSnapshot /\ snap = NoSnapshot
  /\ dbId = {} /\ dbAddr = [t \in Symbols |-> NoAddress]
  /\ clock = 0 /\ boots = 0 /\ addressed = {}

-----------------------------------------------------------------------------
(* Safety. *)

Running == pc \in {"up", "tick"}

\* With a key, what a tick trades on was read in that tick.  The snapshot kept
\* for rate limits, which is stamped anew and not stale, must not come to be
\* traded on as if it were fresh (cmc.py:285-323, 580-601).
PricesAreRead == pc = "tick" /\ key => snap.read = snap.at

\* A token that once could be traded can be traded in every later process that
\* has it in its settings, with or without an address there (run.py:84-104).
AddressesLast ==
  Running => \A t \in DOMAIN settings \cap addressed : addr[t] # NoAddress

\* An id that was written is never looked for again: the adapter of every later
\* process begins with it (run.py:54-83, 132-152).
IdsLast == Running => (dbId \cap DOMAIN settings) \subseteq cache
=============================================================================
