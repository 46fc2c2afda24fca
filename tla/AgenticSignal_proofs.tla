------------------------ MODULE AgenticSignal_proofs -----------------------
(***************************************************************************)
(* What a tick trades on, for every set of tokens and settings and every   *)
(* number of boots, ticks and rounds: the snapshot of a tick is fresh, and *)
(* neither an address nor an id that was written is lost.  The signal      *)
(* leaves the data alone but for the ids its tools look up, so most of     *)
(* that argument is about MarketData.  And for every answer of a model:    *)
(* the batch that goes to Keel is sound, and comes largest drift first.    *)
(***************************************************************************)
EXTENDS AgenticSignal, Sums, FunctionTheorems

\* The two steps of a tick that touch what MarketData keeps.
Learn ==
  /\ \E t \in Symbols, found \in BOOLEAN : CallTool(t, found)
  /\ UNCHANGED <<pc, conf, todo, prices, table, clock, boots, addressed>>
Finish ==
  /\ pc = "tick" /\ pc' = "up" /\ clock' = clock + 1
  /\ UNCHANGED <<conf, todo, ids, prices, table, boots, addressed>>

DataStep ==
  \/ Boot \/ PersistAddress \/ Search \/ RecordId \/ Start \/ Fetch
  \/ Crash \/ Learn \/ Finish \/ UNCHANGED dataVars

\* A tick in progress has been counted; a call under way has a round left.
Counted ==
  /\ pc = "tick" => clock < MaxTicks
  /\ calls > 0 => round < MaxRounds

\* The snapshot that is kept has a price for tokens of its own only.
LastGoodSound == lastGood.priced \subseteq lastGood.tokens

\* The pause after a rate limit never begins.
NeverPaused == limited = 0

\* An address a process runs with is in the table before it runs.
Lasting ==
  /\ \A t \in addressed : dbAddr[t] # NoAddress
  /\ pc = "persist" => \A t \in DOMAIN settings :
       addr[t] # NoAddress => t \in todo \/ dbAddr[t] # NoAddress
  /\ pc = "record" => \A t \in DOMAIN settings :
       addr[t] # NoAddress => dbAddr[t] # NoAddress
  /\ pc # "down" => \A t \in DOMAIN settings \cap addressed : addr[t] # NoAddress

\* The adapter knows the ids in the table, and those about to be written.
Known ==
  /\ pc # "down" => dbId \cap DOMAIN settings \subseteq cache
  /\ pc = "record" => todo \subseteq cache

Inv == TypeOK /\ Counted /\ LastGoodSound /\ NeverPaused /\ PricesAreRead /\ Lasting /\ Known

-----------------------------------------------------------------------------
(* The steps, as MarketData sees them. *)

\* A step of the whole is a step of the data, or leaves the data alone.
LEMMA StepOf == [Next]_vars => DataStep
<1> SUFFICES ASSUME [Next]_vars PROVE DataStep
  OBVIOUS
<1>1. CASE Data
  BY <1>1 DEF Data, BootStep, DataStep
<1>2. CASE TickStep
  <2>1. CASE AskTools \/ ModelFails \/ NoTools
    BY <2>1 DEF AskTools, ModelFails, NoTools, DataStep
  <2>2. CASE \E answer \in Answers : Answer(answer)
    BY <2>2 DEF Answer, DataStep
  <2>3. CASE RunTool
    BY <2>3 DEF RunTool, Learn, DataStep
  <2>4. CASE EndTick
    BY <2>4 DEF EndTick, Finish, DataStep
  <2> QED
    BY <1>2, <2>1, <2>2, <2>3, <2>4 DEF TickStep
<1>3. CASE Die
  BY <1>3 DEF Die, DataStep
<1>4. CASE UNCHANGED vars
  BY <1>4 DEF vars, DataStep
<1> QED
  BY <1>1, <1>2, <1>3, <1>4 DEF Next

\* A boot writes the address it resolved, with an id it knows or a new one.
Written(t) == Upsert(t, t \in cache, addr[t]) \/ Upsert(t, TRUE, addr[t])

\* upsert_token_metadata keeps the table well typed, never loses an address,
\* and knows the one it is given.
LEMMA WrittenRow ==
  ASSUME MarketTypeOK, NEW t \in DOMAIN settings, Written(t)
  PROVE  /\ dbId' \subseteq Symbols /\ dbId' \subseteq dbId \cup {t}
         /\ dbAddr' \in [Symbols -> Addresses \cup {NoAddress}]
         /\ \A u \in Symbols : dbAddr[u] # NoAddress => dbAddr'[u] # NoAddress
         /\ addr[t] # NoAddress => dbAddr'[t] # NoAddress
<1>1. t \in Symbols /\ addr[t] \in Addresses \cup {NoAddress}
  BY MarketDataAssumption DEF MarketTypeOK
<1>2. dbAddr' = [dbAddr EXCEPT ![t] = IF addr[t] = NoAddress THEN @ ELSE addr[t]]
  BY DEF Written, Upsert
<1>3. dbId' \subseteq dbId \cup {t}
  BY DEF Written, Upsert
<1> QED
  BY <1>1, <1>2, <1>3 DEF MarketTypeOK

-----------------------------------------------------------------------------
(* Types. *)

\* A settings file maps known tokens to addresses, or to none.
LEMMA SettingsTypes ==
  ASSUME NEW s \in Settings
  PROVE  DOMAIN s \subseteq Symbols /\ \A t \in DOMAIN s : s[t] \in Addresses \cup {NoAddress}
BY MarketDataAssumption

\* Every snapshot a fetch may return is one.
LEMMA FetchedType ==
  ASSUME MarketTypeOK, NEW reply \in Reply, NEW tokens \in SUBSET Symbols,
         NEW priced \in SUBSET tokens
  PROVE  LET fresh == Fresh(tokens, priced) IN
         /\ fresh \in Snapshot /\ fresh.priced \subseteq fresh.tokens
         /\ LastGoodSound => LET got == Fetched(reply, fresh) IN
              got \in Snapshot /\ got.priced \subseteq got.tokens
<1> DEFINE fresh == Fresh(tokens, priced)
           Whole(x) == x \in Snapshot /\ x.priced \subseteq x.tokens
<1>1. clock \in Nat /\ BuiltIn \subseteq Symbols
  BY MarketDataAssumption DEF MarketTypeOK
<1>2. Whole(fresh) /\ Whole(Fixture) /\ Whole(StaleFixture)
  BY <1>1 DEF Fresh, Fixture, StaleFixture, Snapshot, Never
<1>3. LastGoodSound => Whole(Cached)
  BY <1>1 DEF Cached, MarketTypeOK, Snapshot, LastGoodSound
<1>4. Fetched(reply, fresh) \in {fresh, Fixture, StaleFixture, Cached}
  BY DEF Fetched
<1> QED
  BY <1>2, <1>3, <1>4

\* Nothing is running and nothing is known.
LEMMA InitInv == Init => Inv
<1> SUFFICES ASSUME Init PROVE Inv
  OBVIOUS
<1>1. NoSnapshot \in Snapshot /\ NoSnapshot.priced \subseteq NoSnapshot.tokens
  BY DEF NoSnapshot, Snapshot, Never
<1>2. MarketTypeOK
  <2>1. settings \in Settings /\ addr = [t \in DOMAIN settings |-> NoAddress]
    BY DEF Init, MarketInit
  <2>2. addr \in [DOMAIN settings -> Addresses \cup {NoAddress}]
    BY <2>1
  <2>3. dbAddr \in [Symbols -> Addresses \cup {NoAddress}]
    BY DEF Init, MarketInit
  <2>4. clock \in 0 .. MaxTicks /\ boots \in 0 .. MaxBoots
    BY MarketDataAssumption DEF Init, MarketInit
  <2> QED
    BY <1>1, <2>1, <2>2, <2>3, <2>4, MarketDataAssumption
    DEF Init, MarketInit, MarketTypeOK
<1>3. TypeOK
  BY <1>2, AgenticAssumption DEF Init, MarketInit, TypeOK, Undecided
<1>4. Counted /\ LastGoodSound /\ NeverPaused /\ PricesAreRead /\ Lasting /\ Known
  BY DEF Init, MarketInit, Counted, LastGoodSound, NoSnapshot, NeverPaused, PricesAreRead, Lasting, Known
<1> QED
  BY <1>3, <1>4 DEF Inv

\* A fetch, by what it got: the tokens it asked about, those it has a price of.
GotSnapshot(reply, tokens, priced) ==
  LET fresh == Fresh(tokens, priced) IN
  /\ cache \subseteq cache' /\ cache' \subseteq shared' /\ shared' \subseteq Symbols
  /\ snap' = Fetched(reply, fresh)
  /\ lastGood' = IF CallsOut /\ reply = "ok" THEN fresh ELSE lastGood
  /\ limited' = 0

\* With no pause there are no other fetches.
LEMMA FetchGot ==
  ASSUME MarketTypeOK, NeverPaused, Fetch
  PROVE  \E reply \in Reply, tokens \in SUBSET Symbols : \E priced \in SUBSET tokens :
           GotSnapshot(reply, tokens, priced)
<1>1. PICK reply \in Reply, found \in SUBSET (DOMAIN settings \ cache) :
      \E priced \in SUBSET ((DOMAIN settings \cap cache) \cup found) :
        LET tokens == (DOMAIN settings \cap cache) \cup found
            fresh == Fresh(tokens, priced)
        IN /\ cache' = cache \cup found /\ shared' = shared \cup found
           /\ snap' = Fetched(reply, fresh)
           /\ lastGood' = IF CallsOut /\ reply = "ok" THEN fresh ELSE lastGood
           /\ limited' = IF ~CallsOut THEN limited
                         ELSE IF reply = "ok" THEN 0
                         ELSE IF Escapes(reply) /\ IsRateLimit(reply) THEN clock + Cooldown
                         ELSE limited
  BY DEF Fetch
<1> DEFINE tokens == (DOMAIN settings \cap cache) \cup found
<1>2. PICK priced \in SUBSET tokens :
        /\ cache' = cache \cup found /\ shared' = shared \cup found
        /\ snap' = Fetched(reply, Fresh(tokens, priced))
        /\ lastGood' = IF CallsOut /\ reply = "ok" THEN Fresh(tokens, priced) ELSE lastGood
        /\ limited' = IF ~CallsOut THEN limited
                      ELSE IF reply = "ok" THEN 0
                      ELSE IF Escapes(reply) /\ IsRateLimit(reply) THEN clock + Cooldown
                      ELSE limited
  BY <1>1
<1>3. limited' = 0
  BY <1>2 DEF NeverPaused, Escapes, IsRateLimit
<1>4. DOMAIN settings \subseteq Symbols
  BY SettingsTypes DEF MarketTypeOK
<1>5. GotSnapshot(reply, tokens, priced) /\ tokens \in SUBSET Symbols
  BY <1>2, <1>3, <1>4 DEF GotSnapshot, MarketTypeOK
<1> QED
  BY <1>5

\* What MarketData keeps stays well typed, whatever the signal does.
LEMMA DataTypes ==
  ASSUME MarketTypeOK, Counted, LastGoodSound, NeverPaused, DataStep
  PROVE  MarketTypeOK'
<1> USE MarketDataAssumption
<1>1. CASE Boot
  <2>1. PICK s \in Settings :
          /\ settings' = s /\ addr' = Resolved(s) /\ cache' = Seeded(s)
          /\ shared' = BuiltIn \cup Seeded(s) /\ todo' = ToPersist(Resolved(s))
    BY <1>1 DEF Boot
  <2>2. DOMAIN s \subseteq Symbols /\ \A t \in DOMAIN s : s[t] \in Addresses \cup {NoAddress}
    BY SettingsTypes
  <2>3. Resolved(s) \in [DOMAIN s -> Addresses \cup {NoAddress}]
    BY <2>2 DEF Resolved, MarketTypeOK
  <2>4. /\ ToPersist(Resolved(s)) \subseteq DOMAIN s
        /\ Seeded(s) \subseteq Symbols
    BY <2>2, <2>3 DEF ToPersist, Seeded
  <2>5. boots' \in 0 .. MaxBoots
    BY <1>1 DEF Boot, MarketTypeOK
  <2>6. NoSnapshot \in Snapshot /\ NoSnapshot.priced \subseteq NoSnapshot.tokens
    BY DEF NoSnapshot, Snapshot, Never
  <2>7. pc' = "persist" /\ key' \in BOOLEAN /\ limited' = 0
        /\ lastGood' = NoSnapshot /\ snap' = NoSnapshot
        /\ UNCHANGED <<table, clock, addressed>>
    BY <1>1 DEF Boot
  <2> QED
    BY <2>1, <2>3, <2>4, <2>5, <2>6, <2>7 DEF MarketTypeOK, table
<1>2. CASE PersistAddress
  <2>1. PICK t \in todo : todo' = todo \ {t} /\ Written(t)
    BY <1>2 DEF PersistAddress, Written
  <2>2. t \in DOMAIN settings
    BY <2>1 DEF MarketTypeOK
  <2>3. dbId' \subseteq Symbols /\ dbAddr' \in [Symbols -> Addresses \cup {NoAddress}]
    BY <2>1, <2>2, WrittenRow
  <2> QED
    BY <1>2, <2>1, <2>3 DEF PersistAddress, MarketTypeOK, conf, ids, prices
<1>3. CASE Search
  <2>1. PICK found \in SUBSET (DOMAIN settings \ cache) :
          todo' = found /\ cache' = cache \cup found /\ shared' = shared \cup found
    BY <1>3 DEF Search
  <2>2. DOMAIN settings \subseteq Symbols
    BY SettingsTypes DEF MarketTypeOK
  <2> QED
    BY <1>3, <2>1, <2>2 DEF Search, MarketTypeOK, conf, prices, table
<1>4. CASE RecordId
  <2>1. PICK t \in todo : todo' = todo \ {t} /\ Written(t)
    BY <1>4 DEF RecordId, Written
  <2>2. t \in DOMAIN settings
    BY <2>1 DEF MarketTypeOK
  <2>3. dbId' \subseteq Symbols /\ dbAddr' \in [Symbols -> Addresses \cup {NoAddress}]
    BY <2>1, <2>2, WrittenRow
  <2> QED
    BY <1>4, <2>1, <2>3 DEF RecordId, MarketTypeOK, conf, ids, prices
<1>5. CASE Start
  <2>1. DOMAIN addr \subseteq Symbols
    BY SettingsTypes DEF MarketTypeOK
  <2> QED
    BY <1>5, <2>1 DEF Start, MarketTypeOK, conf, ids, prices, table
<1>6. CASE Fetch
  <2>1. PICK reply \in Reply, tokens \in SUBSET Symbols : \E priced \in SUBSET tokens :
          GotSnapshot(reply, tokens, priced)
    BY <1>6, FetchGot
  <2>2. PICK priced \in SUBSET tokens : GotSnapshot(reply, tokens, priced)
    BY <2>1
  <2>3. /\ snap' \in Snapshot /\ snap'.priced \subseteq snap'.tokens
        /\ lastGood' \in Snapshot
    BY <2>2, FetchedType DEF GotSnapshot, MarketTypeOK
  <2>4. clock' \in 0 .. MaxTicks /\ pc' \in {"up", "tick"}
    BY <1>6 DEF Fetch, MarketTypeOK
  <2>5. limited' \in Nat
    BY <2>2 DEF GotSnapshot, MarketTypeOK
  <2> QED
    BY <1>6, <2>2, <2>3, <2>4, <2>5 DEF Fetch, GotSnapshot, MarketTypeOK, conf, table
<1>7. CASE Crash
  BY <1>7 DEF Crash, MarketTypeOK, conf, ids, prices, table
<1>8. CASE Learn
  <2>1. PICK t \in Symbols, found \in BOOLEAN : CallTool(t, found)
    BY <1>8 DEF Learn
  <2>2. cache' \subseteq shared' /\ shared' \subseteq Symbols
    BY <2>1 DEF CallTool, MarketTypeOK
  <2> QED
    BY <1>8, <2>2 DEF Learn, MarketTypeOK, conf, prices, table
<1>9. CASE Finish
  <2>1. clock' \in 0 .. MaxTicks
    BY <1>9 DEF Finish, Counted, MarketTypeOK
  <2> QED
    BY <1>9, <2>1 DEF Finish, MarketTypeOK, conf, ids, prices, table
<1>10. CASE UNCHANGED dataVars
  BY <1>10 DEF dataVars, MarketTypeOK, conf, ids, prices, table
<1> QED
  BY <1>1, <1>2, <1>3, <1>4, <1>5, <1>6, <1>7, <1>8, <1>9, <1>10 DEF DataStep

\* The snapshot that is kept stays sound, and the pause away.
LEMMA SnapshotKept ==
  ASSUME MarketTypeOK, LastGoodSound, NeverPaused, DataStep
  PROVE  LastGoodSound' /\ NeverPaused'
<1>1. CASE Boot
  BY <1>1 DEF Boot, LastGoodSound, NeverPaused, NoSnapshot
<1>2. CASE Fetch
  <2>1. PICK reply \in Reply, tokens \in SUBSET Symbols : \E priced \in SUBSET tokens :
          GotSnapshot(reply, tokens, priced)
    BY <1>2, FetchGot
  <2>2. PICK priced \in SUBSET tokens : GotSnapshot(reply, tokens, priced)
    BY <2>1
  <2>3. LET fresh == Fresh(tokens, priced) IN fresh.priced \subseteq fresh.tokens
    BY FetchedType
  <2> QED
    BY <2>2, <2>3 DEF GotSnapshot, LastGoodSound, NeverPaused
<1>3. CASE PersistAddress \/ Search \/ RecordId \/ Start \/ Crash \/ Learn \/ Finish
           \/ UNCHANGED dataVars
  BY <1>3 DEF PersistAddress, Search, RecordId, Start, Crash, Learn, Finish, dataVars,
              prices, LastGoodSound, NeverPaused
<1> QED
  BY <1>1, <1>2, <1>3 DEF DataStep

-----------------------------------------------------------------------------
(* What a tick trades on. *)

\* Only a fetch that succeeded gives a tick with a key its snapshot.
LEMMA PricesStep ==
  ASSUME MarketTypeOK, LastGoodSound, NeverPaused, PricesAreRead, DataStep
  PROVE  PricesAreRead'
<1>1. CASE Boot \/ PersistAddress \/ Search \/ RecordId \/ Start \/ Crash \/ Finish
  BY <1>1 DEF Boot, PersistAddress, Search, RecordId, Start, Crash, Finish, PricesAreRead
<1>2. CASE Learn \/ UNCHANGED dataVars
  BY <1>2 DEF Learn, dataVars, conf, prices, PricesAreRead
<1>3. CASE Fetch
  <2>1. PICK reply \in Reply, tokens \in SUBSET Symbols : \E priced \in SUBSET tokens :
          GotSnapshot(reply, tokens, priced)
    BY <1>3, FetchGot
  <2>2. PICK priced \in SUBSET tokens : GotSnapshot(reply, tokens, priced)
    BY <2>1
  <2>3. ~Paused
    BY DEF NeverPaused, Paused, MarketTypeOK
  <2>4. SUFFICES ASSUME pc' = "tick", key PROVE snap'.read = snap'.at
    BY <1>3 DEF Fetch, conf, PricesAreRead
  <2>5. ~snap'.stale
    BY <1>3, <2>4 DEF Fetch
  <2>6. CASE reply = "ok"
    BY <2>2, <2>3, <2>4, <2>6 DEF GotSnapshot, Fetched, CallsOut, Fresh
  <2>7. CASE reply # "ok"
    <3>1. snap' = StaleFixture
      BY <2>2, <2>3, <2>4, <2>7
      DEF GotSnapshot, Fetched, CallsOut, Escapes, IsRateLimit
    <3> QED
      BY <2>5, <3>1 DEF StaleFixture, Fixture
  <2> QED
    BY <2>6, <2>7
<1> QED
  BY <1>1, <1>2, <1>3 DEF DataStep

-----------------------------------------------------------------------------
(* What outlives a process. *)

\* Rows are written before the process runs, and never lose an address.
LEMMA LastingStep ==
  ASSUME MarketTypeOK, Lasting, DataStep
  PROVE  Lasting'
<1>1. CASE Boot
  <2>1. PICK s \in Settings :
          settings' = s /\ addr' = Resolved(s) /\ todo' = ToPersist(Resolved(s))
    BY <1>1 DEF Boot
  <2>2. pc' = "persist" /\ addressed' = addressed /\ dbAddr' = dbAddr
    BY <1>1 DEF Boot, table
  <2>3. \A t \in DOMAIN s : addr'[t] # NoAddress => t \in todo'
    BY <2>1 DEF Resolved, ToPersist
  <2>4. \A t \in DOMAIN s \cap addressed : addr'[t] # NoAddress
    BY <2>1 DEF Resolved, Lasting
  <2> QED
    BY <2>1, <2>2, <2>3, <2>4 DEF Lasting
<1>2. CASE PersistAddress
  <2>1. PICK t \in todo : todo' = todo \ {t} /\ Written(t)
    BY <1>2 DEF PersistAddress, Written
  <2>2. t \in DOMAIN settings /\ DOMAIN settings \subseteq Symbols /\ addressed \subseteq Symbols
    BY <2>1, SettingsTypes DEF MarketTypeOK
  <2>3. /\ \A u \in Symbols : dbAddr[u] # NoAddress => dbAddr'[u] # NoAddress
        /\ addr[t] # NoAddress => dbAddr'[t] # NoAddress
    BY <2>1, <2>2, WrittenRow
  <2> QED
    BY <1>2, <2>1, <2>2, <2>3 DEF PersistAddress, Lasting, conf
<1>3. CASE Search
  BY <1>3 DEF Search, Lasting, conf, table
<1>4. CASE RecordId
  <2>1. PICK t \in todo : todo' = todo \ {t} /\ Written(t)
    BY <1>4 DEF RecordId, Written
  <2>2. t \in DOMAIN settings /\ DOMAIN settings \subseteq Symbols /\ addressed \subseteq Symbols
    BY <2>1, SettingsTypes DEF MarketTypeOK
  <2>3. \A u \in Symbols : dbAddr[u] # NoAddress => dbAddr'[u] # NoAddress
    BY <2>1, <2>2, WrittenRow
  <2> QED
    BY <1>4, <2>2, <2>3 DEF RecordId, Lasting, conf
<1>5. CASE Start
  <2>1. DOMAIN addr = DOMAIN settings
    BY DEF MarketTypeOK
  <2> QED
    BY <1>5, <2>1 DEF Start, Lasting, conf, table
<1>6. CASE Fetch \/ Crash \/ Learn \/ Finish \/ UNCHANGED dataVars
  BY <1>6 DEF Fetch, Crash, Learn, Finish, dataVars, Lasting, conf, table
<1> QED
  BY <1>1, <1>2, <1>3, <1>4, <1>5, <1>6 DEF DataStep

\* Ids reach the cache before the table, and the cache only grows.
LEMMA KnownStep ==
  ASSUME MarketTypeOK, NeverPaused, Known, DataStep
  PROVE  Known'
<1>1. CASE Boot
  <2>1. PICK s \in Settings : settings' = s /\ cache' = Seeded(s)
    BY <1>1 DEF Boot
  <2> QED
    BY <1>1, <2>1 DEF Boot, Known, Seeded, table
<1>2. CASE PersistAddress
  <2>1. PICK t \in todo : Upsert(t, t \in cache, addr[t])
    BY <1>2 DEF PersistAddress
  <2>2. dbId' \subseteq dbId \cup cache
    BY <2>1 DEF Upsert
  <2> QED
    BY <1>2, <2>2 DEF PersistAddress, Known, conf, ids
<1>3. CASE Search
  BY <1>3 DEF Search, Known, conf, table
<1>4. CASE RecordId
  <2>1. PICK t \in todo : todo' = todo \ {t} /\ Written(t)
    BY <1>4 DEF RecordId, Written
  <2>2. dbId' \subseteq dbId \cup todo
    BY <2>1, WrittenRow DEF MarketTypeOK
  <2> QED
    BY <1>4, <2>1, <2>2 DEF RecordId, Known, conf, ids
<1>5. CASE Start
  BY <1>5 DEF Start, Known, conf, ids, table
<1>6. CASE Fetch
  <2>1. cache \subseteq cache'
    BY <1>6, FetchGot DEF GotSnapshot
  <2> QED
    BY <1>6, <2>1 DEF Fetch, Known, conf, table
<1>7. CASE Learn
  <2>1. cache \subseteq cache'
    BY <1>7 DEF Learn, CallTool
  <2> QED
    BY <1>7, <2>1 DEF Learn, Known, conf, table
<1>8. CASE Crash \/ Finish \/ UNCHANGED dataVars
  BY <1>8 DEF Crash, Finish, dataVars, Known, conf, ids, table
<1> QED
  BY <1>1, <1>2, <1>3, <1>4, <1>5, <1>6, <1>7, <1>8 DEF DataStep

-----------------------------------------------------------------------------
(* The rounds of the model, and the theorems. *)

Sources == {"none", "deterministic", "agentic", "oneshot", "raised"}

\* The signal's own state: rounds are counted, and a tick that ends clears it.
LEMMA SignalTypes ==
  ASSUME TypeOK, Counted, [Next]_vars, MarketTypeOK'
  PROVE  TypeOK' /\ Counted'
<1> USE AgenticAssumption
<1>0. /\ clock \in Nat /\ MaxTicks \in Nat
      /\ round \in 0 .. MaxRounds /\ calls \in 0 .. MaxCalls /\ decision.source \in Sources
  BY MarketDataAssumption DEF TypeOK, MarketTypeOK, Sources
<1>1. CASE Data
  <2>1. UNCHANGED <<helm, round, calls, decision>>
    BY <1>1 DEF Data
  <2>2. pc # "tick"
    BY <1>1 DEF Data, BootStep, Boot, PersistAddress, Search, RecordId, Start, Fetch
  <2>3. pc' = "tick" => clock' < MaxTicks
    BY <1>0, <1>1 DEF Data, BootStep, Boot, PersistAddress, Search, RecordId, Start, Fetch
  <2> QED
    BY <2>1, <2>2, <2>3 DEF TypeOK, Counted
<1>2. CASE AskTools
  BY <1>0, <1>2 DEF AskTools, AtModel, Deciding, TypeOK, Counted, dataVars
<1>3. CASE RunTool
  <2>1. round' \in 0 .. MaxRounds /\ calls' \in 0 .. MaxCalls
    BY <1>0, <1>3 DEF RunTool, NextRound, Counted
  <2>2. calls' > 0 => round' < MaxRounds
    BY <1>0, <1>3 DEF RunTool, Counted
  <2> QED
    BY <1>3, <2>1, <2>2 DEF RunTool, Deciding, TypeOK, Counted
<1>4. CASE (\E answer \in Answers : Answer(answer)) \/ ModelFails \/ NoTools
  <2>1. UNCHANGED <<dataVars, helm, round, calls>> /\ pc = "tick"
    BY <1>4 DEF Answer, ModelFails, NoTools, AtModel, Deciding
  <2>2. decision'.source \in Sources
    <3>1. CASE \E answer \in Answers : Answer(answer)
      BY <3>1 DEF Answer, OneShot, Agentic, Deterministic, Sources
    <3>2. CASE ModelFails
      BY <3>2 DEF ModelFails, Undecided, Deterministic, Sources
    <3>3. CASE NoTools
      BY <3>3 DEF NoTools, Deterministic, Sources
    <3> QED
      BY <1>4, <3>1, <3>2, <3>3
  <2> QED
    BY <2>1, <2>2 DEF TypeOK, Counted, Sources, dataVars
<1>5. CASE EndTick
  BY <1>5 DEF EndTick, TypeOK, Counted, Undecided
<1>6. CASE Die
  BY <1>6 DEF Die, Crash, TypeOK, Counted, Undecided
<1>7. CASE UNCHANGED vars
  BY <1>7 DEF vars, dataVars, TypeOK, Counted
<1> QED
  BY <1>1, <1>2, <1>3, <1>4, <1>5, <1>6, <1>7 DEF Next, TickStep

\* The invariant: of every step and every value of the constants.
THEOREM Inputs == Spec => []Inv
<1>1. Inv /\ [Next]_vars => Inv'
  <2> SUFFICES ASSUME Inv, [Next]_vars PROVE Inv'
    OBVIOUS
  <2>1. DataStep /\ MarketTypeOK
    BY StepOf DEF Inv, TypeOK
  <2>2. MarketTypeOK'
    BY <2>1, DataTypes DEF Inv
  <2>3. TypeOK' /\ Counted'
    BY <2>2, SignalTypes DEF Inv
  <2>4. LastGoodSound' /\ NeverPaused'
    BY <2>1, SnapshotKept DEF Inv
  <2>5. PricesAreRead' /\ Lasting' /\ Known'
    BY <2>1, PricesStep, LastingStep, KnownStep DEF Inv
  <2> QED
    BY <2>3, <2>4, <2>5 DEF Inv
<1> QED
  BY InitInv, <1>1, PTL DEF Spec

\* Types, of the data and of the tool loop, whose rounds never exceed the limit.
THEOREM InputTyping == Spec => []TypeOK
<1>1. Inv => TypeOK
  BY DEF Inv
<1> QED
  BY Inputs, <1>1, PTL

\* With a key, a tick trades on prices read in that tick.
THEOREM FreshPrices == Spec => []PricesAreRead
<1>1. Inv => PricesAreRead
  BY DEF Inv
<1> QED
  BY Inputs, <1>1, PTL

\* A token a process had an address for has one in every later process.
THEOREM AddressesSafe == Spec => []AddressesLast
<1>1. Inv => AddressesLast
  BY DEF Inv, Lasting, AddressesLast, Running
<1> QED
  BY Inputs, <1>1, PTL

\* An id in the table is known to every process that runs.
THEOREM IdsSafe == Spec => []IdsLast
<1>1. Inv => IdsLast
  BY DEF Inv, Known, IdsLast, Running
<1> QED
  BY Inputs, <1>1, PTL

-----------------------------------------------------------------------------
(* The batch. *)

(***************************************************************************)
(* B gives each member of S those that come before it in some strict and   *)
(* total order: to come before is to have fewer before one, and there is a *)
(* member for every rank.                                                  *)
(***************************************************************************)
LEMMA Ranking ==
  ASSUME NEW S, IsFiniteSet(S), NEW B, B \in [S -> SUBSET S],
         \A i \in S : i \notin B[i],
         \A i, j \in S : i # j => i \in B[j] \/ j \in B[i],
         \A i, j, k \in S : i \in B[j] /\ j \in B[k] => i \in B[k]
  PROVE  /\ \A i \in S : Cardinality(B[i]) \in Nat
         /\ \A i, j \in S : i \in B[j] => Cardinality(B[i]) < Cardinality(B[j])
         /\ \A k \in 1 .. Cardinality(S) : \E i \in S : Cardinality(B[i]) = k - 1
<1>1. \A i \in S : IsFiniteSet(B[i]) /\ Cardinality(B[i]) \in Nat
  BY FS_Subset, FS_CardinalityType
<1>2. ASSUME NEW i \in S, NEW j \in S, i \in B[j]
      PROVE  Cardinality(B[i]) < Cardinality(B[j])
  <2>1. B[i] \in SUBSET B[j] /\ B[i] # B[j]
    BY <1>2
  <2>2. Cardinality(B[i]) <= Cardinality(B[j]) /\ Cardinality(B[i]) # Cardinality(B[j])
    BY <1>1, <2>1, FS_Subset
  <2> QED
    BY <1>1, <2>2
<1> DEFINE n == Cardinality(S)
           f == [i \in S |-> Cardinality(B[i]) + 1]
<1>3. n \in Nat
  BY FS_CardinalityType
<1>4. ASSUME NEW i \in S PROVE f[i] \in 1 .. n
  <2>1. Cardinality(B[i]) <= n /\ Cardinality(B[i]) # n
    BY FS_Subset
  <2> DEFINE b == Cardinality(B[i])
  <2>2. b \in Nat /\ b <= n /\ b # n /\ f[i] = b + 1
    BY <1>1, <2>1
  <2> HIDE DEF b, n, f
  <2> QED
    BY <1>3, <2>2
<1>5. f \in Injection(S, 1 .. n)
  <2>1. ASSUME NEW i \in S, NEW j \in S, i # j PROVE f[i] # f[j]
    <3>1. \/ Cardinality(B[i]) < Cardinality(B[j])
          \/ Cardinality(B[j]) < Cardinality(B[i])
      BY <1>2, <2>1
    <3> QED
      BY <1>1, <3>1
  <2>2. f \in [S -> 1 .. n]
    BY <1>4
  <2> HIDE DEF f, n
  <2> QED
    BY <2>1, <2>2, Fun_IsInj
<1>6. IsFiniteSet(1 .. n) /\ Cardinality(1 .. n) = n
  <2> HIDE DEF n
  <2>1. 1 \in Int /\ n \in Int
    BY <1>3
  <2>2. IsFiniteSet(1 .. n) /\ Cardinality(1 .. n) = IF 1 > n THEN 0 ELSE n - 1 + 1
    BY ONLY <2>1, FS_Interval
  <2> QED
    BY <1>3, <2>2
<1>7. f \in Surjection(S, 1 .. n)
  <2> HIDE DEF f
  <2> QED
    BY <1>5, <1>6, FS_Injection
<1>8. ASSUME NEW k \in 1 .. n PROVE \E i \in S : Cardinality(B[i]) = k - 1
  <2>1. \E i \in S : f[i] = k
    <3> HIDE DEF f, n
    <3> QED
      BY <1>7 DEF Surjection
  <2>2. PICK i \in S : f[i] = k
    BY <2>1
  <2> QED
    BY <1>1, <2>2
<1> QED
  BY <1>1, <1>2, <1>8

\* The library's bounds of a small set.
LEMMA LeastOfTwo ==
  ASSUME NEW m \in Int, NEW n \in Int
  PROVE  Min({m, n}) = IF m <= n THEN m ELSE n
<1>1. PICK k \in {m, n} : k = (IF m <= n THEN m ELSE n) /\ \A j \in {m, n} : k <= j
  OBVIOUS
<1>2. Min({m, n}) \in {m, n} /\ \A j \in {m, n} : Min({m, n}) <= j
  BY <1>1 DEF Min
<1> DEFINE l == Min({m, n})
<1>3. l \in {m, n} /\ l <= m /\ l <= n
  BY <1>2
<1> HIDE DEF l
<1>4. l = IF m <= n THEN m ELSE n
  BY <1>3
<1> QED
  BY <1>4 DEF l

LEMMA LargestOfTwo ==
  ASSUME NEW m \in Int, NEW n \in Int
  PROVE  Max({m, n}) = IF m >= n THEN m ELSE n
<1>1. PICK k \in {m, n} : k = (IF m >= n THEN m ELSE n) /\ \A j \in {m, n} : k >= j
  OBVIOUS
<1>2. Max({m, n}) \in {m, n} /\ \A j \in {m, n} : Max({m, n}) >= j
  BY <1>1 DEF Max
<1> DEFINE l == Max({m, n})
<1>3. l \in {m, n} /\ l >= m /\ l >= n
  BY <1>2
<1> HIDE DEF l
<1>4. l = IF m >= n THEN m ELSE n
  BY <1>3
<1> QED
  BY <1>4 DEF l

\* The size of a row is brought within the trade cap.
LEMMA ClampedIn ==
  ASSUME NEW bps \in Int
  PROVE  Clamped(bps) \in 0 .. MaxTradeBps
<1> DEFINE least == Min({bps, MaxTradeBps})
<1>1. MaxTradeBps \in Nat
  BY AgenticAssumption
<1>2. least = IF bps <= MaxTradeBps THEN bps ELSE MaxTradeBps
  BY <1>1, LeastOfTwo
<1> HIDE DEF least
<1>3. least \in Int /\ least <= MaxTradeBps
  BY <1>1, <1>2
<1>4. Max({0, least}) = IF 0 >= least THEN 0 ELSE least
  BY <1>3, LargestOfTwo
<1>5. Clamped(bps) = Max({0, least})
  BY DEF Clamped, Within, least
<1> QED
  BY <1>1, <1>3, <1>4, <1>5

\* The smallest line is one of them.
LEMMA MinIn ==
  ASSUME NEW S, IsFiniteSet(S), S # {}, S \subseteq Nat
  PROVE  Min(S) \in S
<1> DEFINE f == [i \in S |-> -i]
<1>1. PICK k \in S : \A i \in S : f[i] <= f[k]
  <2>1. Ints(f, S)
    BY DEF Ints
  <2> HIDE DEF f
  <2> QED
    BY <2>1, LargestExists
<1>2. \A i \in S : k <= i
  BY <1>1
<1> QED
  BY <1>2 DEF Min

(***************************************************************************)
(* A batch is the first candidate where none trades; and otherwise as many *)
(* of those that trade as may, each once, by falling drift.                *)
(***************************************************************************)
LEMMA BatchOf ==
  ASSUME NEW cands, IsFiniteSet(DOMAIN cands), DOMAIN cands # {}, DOMAIN cands \subseteq Nat,
         \A i \in DOMAIN cands : DriftOf(cands[i]) \in Int
  PROVE  \/ /\ Actionable(cands) = {}
            /\ \E i \in DOMAIN cands : Batch(cands) = <<cands[i]>>
         \/ \E n \in 1 .. MaxActions : \E pick \in [1 .. n -> Actionable(cands)] :
              /\ Batch(cands) = [k \in 1 .. n |-> cands[pick[k]]]
              /\ \A k, l \in 1 .. n : pick[k] = pick[l] => k = l
              /\ \A k, l \in 1 .. n :
                   k <= l => DriftOf(cands[pick[k]]) >= DriftOf(cands[pick[l]])
<1> DEFINE act == Actionable(cands)
           d == [i \in act |-> DriftOf(cands[i])]
           B == [i \in act |-> Before(cands, i)]
           n == Min({MaxActions, Cardinality(act)})
           pick == [k \in 1 .. n |-> Ranked(cands, k)]
<1>1. CASE act = {}
  BY <1>1, MinIn DEF Batch
<1>2. CASE act # {}
  <2>1. act \subseteq DOMAIN cands /\ IsFiniteSet(act) /\ act \subseteq Nat
    BY FS_Subset DEF Actionable
  <2>2. \A i \in act : d[i] \in Int
    BY <2>1
  <2>3. \A i \in act : B[i] = {j \in act : d[j] > d[i] \/ (j < i /\ ~(d[i] > d[j]))}
    BY DEF Before, Outranks
  <2>4. Cardinality(act) \in Nat \ {0}
    <3>1. Cardinality(act) \in Nat
      BY <2>1, FS_CardinalityType
    <3>2. Cardinality(act) # 0
      BY <1>2, <2>1, FS_EmptySet
    <3> QED
      BY <3>1, <3>2
  <2>5. n \in 1 .. MaxActions /\ n \in Nat /\ n <= Cardinality(act)
    <3>1. MaxActions \in Nat \ {0}
      BY AgenticAssumption
    <3> DEFINE c == Cardinality(act)
    <3>2. c \in Nat \ {0}
      BY <2>4
    <3>3. n = IF MaxActions <= c THEN MaxActions ELSE c
      BY <3>1, <3>2, LeastOfTwo
    <3> HIDE DEF c, n
    <3>4. n \in 1 .. MaxActions /\ n \in Nat /\ n <= c
      BY <3>1, <3>2, <3>3
    <3> QED
      BY <3>4 DEF c
  <2>6. Batch(cands) = [k \in 1 .. n |-> cands[pick[k]]]
    BY <1>2 DEF Batch
  <2>7. B \in [act -> SUBSET act]
    BY <2>3
  <2> HIDE DEF act, d, B
  <2>8. /\ \A i \in act : i \notin B[i]
        /\ \A i, j \in act : i # j => i \in B[j] \/ j \in B[i]
        /\ \A i, j, k \in act : i \in B[j] /\ j \in B[k] => i \in B[k]
    BY <2>1, <2>2, <2>3
  <2>9. /\ \A i \in act : Cardinality(B[i]) \in Nat
        /\ \A i, j \in act : i \in B[j] => Cardinality(B[i]) < Cardinality(B[j])
        /\ \A k \in 1 .. Cardinality(act) : \E i \in act : Cardinality(B[i]) = k - 1
    BY <2>1, <2>7, <2>8, Ranking
  <2>10. \A k \in 1 .. n : pick[k] \in act /\ Cardinality(B[pick[k]]) = k - 1
    <3> SUFFICES ASSUME NEW k \in 1 .. n
                 PROVE  pick[k] \in act /\ Cardinality(B[pick[k]]) = k - 1
      OBVIOUS
    <3>1. k \in 1 .. Cardinality(act)
      <4> HIDE DEF n
      <4> QED
        BY <2>4, <2>5
    <3>2. \E i \in act : Cardinality(Before(cands, i)) = k - 1
      BY <2>9, <3>1 DEF B
    <3>3. Ranked(cands, k) \in act /\ Cardinality(Before(cands, Ranked(cands, k))) = k - 1
      BY <3>2 DEF Ranked, act
    <3>4. pick[k] \in act /\ Cardinality(Before(cands, pick[k])) = k - 1
      BY <3>3
    <3> QED
      BY <3>4 DEF B
  <2>11. pick \in [1 .. n -> act]
    BY <2>10
  <2> HIDE DEF pick, n
  <2>12. ASSUME NEW k \in 1 .. n, NEW l \in 1 .. n, pick[k] = pick[l]
         PROVE  k = l
    <3>1. k - 1 = l - 1 /\ k \in Nat /\ l \in Nat
      BY <2>5, <2>10, <2>12
    <3> QED
      BY <3>1
  <2>13. ASSUME NEW k \in 1 .. n, NEW l \in 1 .. n, k <= l
         PROVE  DriftOf(cands[pick[k]]) >= DriftOf(cands[pick[l]])
    <3> DEFINE i == pick[k]
               j == pick[l]
    <3>1. i \in act /\ j \in act /\ Cardinality(B[i]) = k - 1 /\ Cardinality(B[j]) = l - 1
      BY <2>10
    <3> HIDE DEF i, j
    <3>2. k - 1 <= l - 1
      BY <2>5, <2>13
    <3>3. j \notin B[i]
      BY <2>9, <3>1, <3>2
    <3>4. d[i] >= d[j]
      BY <2>2, <2>3, <3>1, <3>3
    <3>5. d[i] = DriftOf(cands[i]) /\ d[j] = DriftOf(cands[j])
      BY <3>1 DEF d
    <3> QED
      BY <3>4, <3>5 DEF i, j
  <2> QED
    BY <2>5, <2>6, <2>11, <2>12, <2>13 DEF act
<1> QED
  BY <1>1, <1>2

\* What a candidate keeps of its row.
LEMMA CandidatesTyped ==
  ASSUME NEW answer \in Answers,
         NEW cands, cands = Candidates(answer)
  PROVE  /\ IsFiniteSet(DOMAIN cands) /\ DOMAIN cands \subseteq Nat
         /\ \A i \in DOMAIN cands :
              /\ cands[i].token = answer[i].token /\ cands[i].token \in DOMAIN settings
              /\ cands[i].bps \in 0 .. MaxTradeBps
              /\ DriftOf(cands[i]) \in Int
              /\ cands[i].dir # "hold" => LeastBps <= cands[i].bps
              /\ cands[i].dir = "buy" => ~Overbought(cands[i].token)
         /\ \A i, j \in DOMAIN cands : cands[i].token = cands[j].token => i = j
<1>1. /\ answer \in Seq(AnswerLine) /\ MaxTradeBps \in Nat /\ LeastBps \in Nat
      /\ \A t \in DOMAIN Drift : Drift[t] \in Int
  BY AgenticAssumption
<1>2. DOMAIN answer \subseteq Nat /\ IsFiniteSet(DOMAIN answer)
  <2>1. Len(answer) \in Nat /\ DOMAIN answer = 1 .. Len(answer)
    BY <1>1
  <2> DEFINE n == Len(answer)
  <2> HIDE DEF n
  <2>2. n \in Nat => 1 \in Int /\ n \in Int
    OBVIOUS
  <2>3. n \in Nat => IsFiniteSet(1 .. n)
    BY ONLY <2>2, FS_Interval
  <2> QED
    BY <2>1, <2>3 DEF n
<1>3. /\ DOMAIN cands = {j \in Rows(answer) : Eligible(answer[j])}
      /\ \A i \in DOMAIN cands : cands[i] = CandidateOf(answer[i])
  BY DEF Candidates
<1>4. DOMAIN cands \subseteq DOMAIN answer
  BY <1>3 DEF Rows
<1>5. ASSUME NEW i \in DOMAIN cands
      PROVE  /\ cands[i].token = answer[i].token /\ cands[i].token \in DOMAIN settings
             /\ cands[i].bps \in 0 .. MaxTradeBps
             /\ DriftOf(cands[i]) \in Int
             /\ cands[i].dir # "hold" => LeastBps <= cands[i].bps
             /\ cands[i].dir = "buy" => ~Overbought(cands[i].token)
  <2> DEFINE row == answer[i]
             c == cands[i]
             bps == Clamped(row.bps)
  <2>1. row \in AnswerLine /\ row.token \in DOMAIN settings
    BY <1>1, <1>3, <1>4 DEF Eligible
  <2>2. bps \in 0 .. MaxTradeBps
    BY <2>1, ClampedIn DEF AnswerLine
  <2>3. c = IF Guarded(row) THEN Candidate(row.token, "hold", 0)
                            ELSE Candidate(row.token, row.dir, bps)
    BY <1>3 DEF CandidateOf
  <2>4. /\ Guarded(row) => c.token = row.token /\ c.dir = "hold" /\ c.bps = 0
        /\ ~Guarded(row) => c.token = row.token /\ c.dir = row.dir /\ c.bps = bps
    BY <2>3 DEF Candidate
  <2>5. ~Guarded(row) => /\ row.dir = "buy" => ~Overbought(row.token)
                         /\ row.dir # "hold" => ~(bps < LeastBps)
    BY DEF Guarded
  <2> HIDE DEF row, bps, c
  <2>6. bps \in Int /\ c.bps \in 0 .. MaxTradeBps
    BY <1>1, <2>2, <2>4
  <2>7. DriftOf(c) \in Int
    <3>1. CASE c.token \in DOMAIN Drift \cap snap.tokens
      <4> DEFINE x == Drift[c.token]
      <4>1. x \in Int /\ DriftOf(c) = Size(x)
        BY <1>1, <3>1 DEF DriftOf
      <4> HIDE DEF x
      <4> QED
        BY <4>1 DEF Size
    <3>2. CASE c.token \notin DOMAIN Drift \cap snap.tokens
      <4> DEFINE x == c.bps
      <4>1. x \in 0 .. MaxTradeBps /\ DriftOf(c) = x
        BY <2>6, <3>2 DEF DriftOf
      <4> HIDE DEF x
      <4> QED
        BY <1>1, <4>1
    <3> QED
      BY <3>1, <3>2
  <2>8. c.dir # "hold" => LeastBps <= c.bps
    BY <1>1, <2>4, <2>5, <2>6
  <2>9. c.dir = "buy" => ~Overbought(c.token)
    BY <2>4, <2>5
  <2> QED
    BY <2>1, <2>4, <2>6, <2>7, <2>8, <2>9 DEF row, c
<1>6. ASSUME NEW i \in DOMAIN cands, NEW j \in DOMAIN cands, cands[i].token = cands[j].token
      PROVE  i = j
  <2>1. i \in Rows(answer) /\ j \in Rows(answer) /\ answer[i].token = answer[j].token
    BY <1>3, <1>5, <1>6
  <2>2. i \in Nat /\ j \in Nat /\ i >= 1 /\ j >= 1
    BY <1>1, <1>4
  <2>3. ~(i < j) /\ ~(j < i)
    BY <2>1, <2>2 DEF Rows
  <2> QED
    BY <2>2, <2>3
<1> QED
  BY <1>2, <1>4, <1>5, <1>6, FS_Subset

LEMMA AgenticSound ==
  ASSUME NEW answer \in Answers, Agentic(answer).source = "agentic"
  PROVE  Sound(Agentic(answer).batch) /\ Urgent(Agentic(answer).batch)
<1> DEFINE cands == Candidates(answer)
           act == Actionable(cands)
           b == Agentic(answer).batch
<1>1. DOMAIN cands # {} /\ b = Batch(cands)
  BY DEF Agentic, Deterministic
<1> HIDE DEF cands, b
<1>2. /\ IsFiniteSet(DOMAIN cands) /\ DOMAIN cands \subseteq Nat
      /\ \A i \in DOMAIN cands :
           /\ cands[i].token \in DOMAIN settings
           /\ cands[i].bps \in 0 .. MaxTradeBps
           /\ DriftOf(cands[i]) \in Int
           /\ cands[i].dir # "hold" => LeastBps <= cands[i].bps
           /\ cands[i].dir = "buy" => ~Overbought(cands[i].token)
      /\ \A i, j \in DOMAIN cands : cands[i].token = cands[j].token => i = j
  BY CandidatesTyped DEF cands
<1>3. MaxActions \in Nat \ {0} /\ MaxTradeBps \in Nat /\ LeastBps \in Nat
  BY AgenticAssumption
<1>4. \/ /\ act = {}
         /\ \E i \in DOMAIN cands : b = <<cands[i]>>
      \/ \E n \in 1 .. MaxActions : \E pick \in [1 .. n -> act] :
           /\ b = [k \in 1 .. n |-> cands[pick[k]]]
           /\ \A k, l \in 1 .. n : pick[k] = pick[l] => k = l
           /\ \A k, l \in 1 .. n :
                k <= l => DriftOf(cands[pick[k]]) >= DriftOf(cands[pick[l]])
  BY <1>1, <1>2, BatchOf
<1>5. ASSUME act = {}, NEW i \in DOMAIN cands, b = <<cands[i]>>
      PROVE  Sound(b) /\ Urgent(b)
  <2>1. cands[i].dir = "hold"
    BY <1>5 DEF Actionable
  <2> DEFINE c == cands[i]
  <2>2. c.token \in DOMAIN settings /\ DriftOf(c) \in Int /\ b = <<c>>
    BY <1>2, <1>5
  <2> HIDE DEF c
  <2>3. Len(b) = 1 /\ DOMAIN b = {1} /\ b[1] = c
    BY <2>2
  <2>4. c.dir = "hold"
    BY <2>1 DEF c
  <2>5. Sound(b)
    BY <1>3, <2>2, <2>3, <2>4 DEF Sound
  <2>6. Urgent(b)
    BY <2>2, <2>3 DEF Urgent
  <2> QED
    BY <2>5, <2>6
<1>6. ASSUME NEW n \in 1 .. MaxActions, NEW pick \in [1 .. n -> act],
             b = [k \in 1 .. n |-> cands[pick[k]]],
             \A k, l \in 1 .. n : pick[k] = pick[l] => k = l,
             \A k, l \in 1 .. n :
               k <= l => DriftOf(cands[pick[k]]) >= DriftOf(cands[pick[l]])
      PROVE  Sound(b) /\ Urgent(b)
  <2>1. act \subseteq DOMAIN cands /\ \A i \in act : cands[i].dir # "hold"
    BY DEF Actionable
  <2> HIDE DEF act
  <2>2. n \in Nat /\ Len(b) = n /\ DOMAIN b = 1 .. n
    BY <1>3, <1>6
  <2>3. \A k \in 1 .. n : b[k] = cands[pick[k]] /\ pick[k] \in DOMAIN cands
                          /\ b[k].dir # "hold"
    BY <1>6, <2>1
  <2>4. \A k, l \in 1 .. n : b[k].token = b[l].token => k = l
    BY <1>2, <1>6, <2>3
  <2>5. ASSUME NEW k \in 1 .. n
        PROVE  /\ b[k].token \in DOMAIN settings
               /\ b[k].bps \in LeastBps .. MaxTradeBps
               /\ b[k].dir = "buy" => ~Overbought(b[k].token)
    <3> DEFINE c == cands[pick[k]]
    <3>1. /\ c.token \in DOMAIN settings /\ c.bps \in 0 .. MaxTradeBps
          /\ LeastBps <= c.bps /\ (c.dir = "buy" => ~Overbought(c.token)) /\ b[k] = c
      BY <1>2, <2>3
    <3> HIDE DEF c
    <3>2. c.bps \in LeastBps .. MaxTradeBps
      <4> DEFINE x == c.bps
      <4>1. x \in 0 .. MaxTradeBps /\ LeastBps <= x
        BY <3>1
      <4> HIDE DEF x
      <4>2. x \in LeastBps .. MaxTradeBps
        BY <1>3, <4>1
      <4> QED
        BY <4>2 DEF x
    <3> QED
      BY <3>1, <3>2
  <2>6. Sound(b)
    BY <1>6, <2>2, <2>3, <2>4, <2>5 DEF Sound
  <2>7. Urgent(b)
    BY <1>6, <2>2, <2>3 DEF Urgent
  <2> QED
    BY <2>6, <2>7
<1> QED
  BY <1>4, <1>5, <1>6 DEF b

\* A decision stands while its tick lasts, and so do the settings and the
\* snapshot it was made with.
LEMMA BatchStep ==
  ASSUME TypeOK, BatchSound, UrgentFirst, [Next]_vars
  PROVE  BatchSound' /\ UrgentFirst'
<1>1. CASE UNCHANGED <<settings, snap, decision>>
  BY <1>1 DEF BatchSound, UrgentFirst, Sound, Urgent, Overbought, DriftOf
<1>2. CASE Data
  <2>1. pc # "tick" /\ decision' = decision
    BY <1>2 DEF Data, BootStep, Boot, PersistAddress, Search, RecordId, Start, Fetch
  <2>2. decision' = Undecided
    BY <2>1 DEF TypeOK
  <2> QED
    BY <2>2 DEF BatchSound, UrgentFirst, Undecided
<1>3. CASE AskTools \/ RunTool \/ UNCHANGED vars
  BY <1>1, <1>3 DEF AskTools, RunTool, vars, dataVars, conf, prices
<1>4. CASE ModelFails \/ NoTools \/ EndTick \/ Die
  <2>1. decision'.source # "agentic"
    BY <1>4 DEF ModelFails, NoTools, EndTick, Die, Undecided, Deterministic
  <2> QED
    BY <2>1 DEF BatchSound, UrgentFirst
<1>5. ASSUME NEW answer \in Answers, Answer(answer)
      PROVE  BatchSound' /\ UrgentFirst'
  <2>1. UNCHANGED <<settings, snap>>
    BY <1>5 DEF Answer, dataVars, conf, prices
  <2> SUFFICES ASSUME decision'.source = "agentic" PROVE BatchSound' /\ UrgentFirst'
    BY DEF BatchSound, UrgentFirst
  <2>2. decision' = Agentic(answer)
    BY <1>5 DEF Answer, OneShot
  <2>3. Sound(decision'.batch) /\ Urgent(decision'.batch)
    BY <2>2, AgenticSound
  <2> QED
    BY <2>1, <2>3 DEF BatchSound, UrgentFirst, Sound, Urgent, Overbought, DriftOf
<1> QED
  BY <1>2, <1>3, <1>4, <1>5 DEF Next, TickStep

\* No decision has been made yet.
LEMMA BatchInit == Init => BatchSound /\ UrgentFirst
BY DEF Init, Undecided, BatchSound, UrgentFirst

LEMMA Batches == Spec => [](BatchSound /\ UrgentFirst)
<1>1. Init => BatchSound /\ UrgentFirst
  BY BatchInit
<1>2. TypeOK /\ BatchSound /\ UrgentFirst /\ [Next]_vars => BatchSound' /\ UrgentFirst'
  BY BatchStep
<1> QED
  BY <1>1, <1>2, InputTyping, PTL DEF Spec

\* For every answer a model may give, what reaches Keel is a hold alone, or at
\* most MaxActions trades of as many tokens with settings, each of a size that is
\* worth its cost and within the trade cap, and none a purchase of what is
\* overbought (_generate_agentic).
THEOREM SoundBatches == Spec => []BatchSound
BY Batches, PTL

\* For every answer a model may give, the trades of the batch come largest drift
\* first (the stable sort of _generate_agentic).
THEOREM MostUrgentFirst == Spec => []UrgentFirst
BY Batches, PTL
=============================================================================
