---------------------------- MODULE ResolveProofs ----------------------------
(***************************************************************************)
(* The pool cache, and Resolve, which with its reads spelled out           *)
(* implements it.                                                          *)
(*                                                                         *)
(* First, what PoolCache keeps for any contracts, any configurations and   *)
(* any number of failures, deaths and restarts.  A row says of its address *)
(* what the contracts said, wherever it is; in memory it is also           *)
(* classified under the configuration of this run; and while the process   *)
(* runs, an address that only the table knows is one that was passed over  *)
(* for its factory.                                                        *)
(*                                                                         *)
(* Then Resolve: what was shown of PoolCache and of Multicall holds of it. *)
(* The heart is FoundRight: an address that is misread shared the request  *)
(* with a contract that eats the gas, which is all PoolCache allows for.   *)
(***************************************************************************)
EXTENDS Resolve, MulticallProofs

(* Row i of address a, where b are the addresses asked beside an eater.    *)
RowRight(a, i, b) ==
    /\ i \in Infos /\ i.factory = Factory(a)
    /\ i.pair # NoTokens => i.pair = Pair(a) /\ Genuine(a) /\ i.status # "ignored_fake"
    /\ i.pair = NoTokens => i.status \in {"ignored_fake", "ignored_factory"}
    /\ i.status = "ignored_fake" /\ Genuine(a) => a \in b

(* It is classified under a configuration.                                 *)
Under(a, i, cfg) ==
    /\ i.status = "ignored_factory" => Factory(a) \notin cfg.factories
    /\ i.pair # NoTokens =>
          (i.status \in Watched \cup {"ignored_broken"} <=>
              Factory(a) \in cfg.factories /\ Quotes(i.pair, cfg) # {})

(* What is found out, before the verdict.                                  *)
Fresh(a, i, cfg) ==
    /\ i.status \in {"tracked", "ignored_fake", "ignored_factory"}
    /\ i.status = "ignored_factory" => Factory(a) \notin cfg.factories
    /\ i.status # "tracked" => i.pair = NoTokens

CacheInv ==
    /\ CacheType
    /\ DOMAIN dbTokens \subseteq Tokens /\ \A t \in DOMAIN dbTokens : dbTokens[t] \in BOOLEAN
    /\ \A a \in DOMAIN dbPools : RowRight(a, dbPools[a], beside)
    /\ \A a \in DOMAIN pools : RowRight(a, pools[a], beside) /\ Under(a, pools[a], config)
    /\ at # "down" => \A a \in DOMAIN dbPools \ DOMAIN pools : dbPools[a].status = "ignored_factory"
    /\ at \in {"metadata", "verdict"} \/ DOMAIN found = {}
    /\ \A a \in DOMAIN found :
          a \notin DOMAIN pools /\ RowRight(a, found[a], beside) /\ Fresh(a, found[a], config)
    /\ MetadataKnown
    /\ at = "verdict" => NewTokens \subseteq DOMAIN tokens

-----------------------------------------------------------------------------
(* A pair has a token.                                                     *)
LEMMA PairNonempty ==
    ASSUME NEW a \in Addresses
    PROVE  Pair(a) # {}
BY PoolCacheConfig, FS_EmptySet

(* _classify puts a row under the configuration it is given.               *)
LEMMA ClassifiedUnder ==
    ASSUME NEW a \in Addresses, NEW i, NEW b, NEW cfg \in Configs, NEW known,
           RowRight(a, i, b),
           i.pair = NoTokens /\ i.status = "ignored_factory" => Factory(a) \notin cfg.factories
    PROVE  /\ RowRight(a, Classified(i, cfg, known), b)
           /\ Under(a, Classified(i, cfg, known), cfg)
           /\ Classified(i, cfg, known).pair = i.pair
<1> DEFINE c == Classified(i, cfg, known)
<1>1. CASE i.pair = NoTokens
  <2>1. c = i
    BY <1>1 DEF Classified
  <2>2. QED
    BY <2>1, <1>1 DEF RowRight, Under
<1>2. CASE i.pair # NoTokens
  <2>1. /\ i \in Infos /\ i.factory = Factory(a) /\ i.pair = Pair(a) /\ Genuine(a)
        /\ i.status # "ignored_fake" /\ i.pair # {}
    BY <1>2, PairNonempty DEF RowRight
  <2> DEFINE st == IF i.factory \notin cfg.factories THEN "ignored_factory"
                   ELSE IF Quotes(i.pair, cfg) = i.pair THEN "quote_pair"
                   ELSE IF Quotes(i.pair, cfg) = {} THEN "ignored_no_quote"
                   ELSE LET t == Target(i.pair, cfg)
                        IN  IF t \in DOMAIN known /\ ~known[t] THEN "ignored_broken" ELSE "tracked"
  <2>2. c = [i EXCEPT !.status = st]
    BY <1>2, <2>1 DEF Classified
  <2>3. /\ st \in Statuses \ {"ignored_fake"}
        /\ st = "ignored_factory" <=> Factory(a) \notin cfg.factories
        /\ st \in Watched \cup {"ignored_broken"} <=>
              Factory(a) \in cfg.factories /\ Quotes(i.pair, cfg) # {}
    BY <2>1 DEF Statuses, Watched
  <2> HIDE DEF st
  <2>4. /\ c \in Infos /\ c.status = st /\ c.factory = i.factory /\ c.pair = i.pair
    BY <2>1, <2>2, <2>3 DEF Infos
  <2>5. QED
    BY <2>1, <2>3, <2>4, <1>2 DEF RowRight, Under
<1>3. QED
  BY <1>1, <1>2

(* The pairs of known pools are tokens, and so are the quote tokens.       *)
LEMMA PairsAreTokens ==
    ASSUME NEW a \in Addresses, NEW i, NEW b, RowRight(a, i, b)
    PROVE  i.pair \subseteq Tokens
BY DEF RowRight, Tokens, NoTokens

(* Metadata is added, never lost.                                          *)
LEMMA MetadataAdded ==
    ASSUME NEW known, NEW new, DOMAIN known \subseteq Tokens, new \subseteq Tokens,
           \A t \in DOMAIN known : known[t] \in BOOLEAN
    PROVE  /\ DOMAIN WithMetadata(known, new) = DOMAIN known \cup new
           /\ \A t \in DOMAIN known \cup new : WithMetadata(known, new)[t] \in BOOLEAN
BY PoolCacheConfig DEF WithMetadata

(* What is found out about an address is right and fresh.                  *)
LEMMA FindingRight ==
    ASSUME NEW asked \in SUBSET Addresses, NEW a \in asked, NEW i \in Findings(a, asked), NEW b,
           BesideEater(a, asked) => a \in b
    PROVE  RowRight(a, i, b) /\ Fresh(a, i, config)
<1>1. Pair(a) # {}
  BY PairNonempty
<1>2. i = Sound(a) \/ (i = Fake(a) /\ BesideEater(a, asked))
  BY DEF Findings
<1>3. Factory(a) \in {Factory(x) : x \in Addresses} /\ Pair(a) \in {Pair(x) : x \in Addresses}
  OBVIOUS
<1>4. QED
  BY <1>1, <1>2, <1>3 DEF Sound, Fake, RowRight, Fresh, Infos, Statuses, NoTokens

-----------------------------------------------------------------------------
LEMMA InitKeeps ==
    ASSUME CacheInit
    PROVE  CacheInv
<1>1. pools = <<>> /\ tokens = <<>> /\ dbPools = <<>> /\ dbTokens = <<>> /\ found = <<>> /\ beside = {}
  BY DEF CacheInit
<1>2. DOMAIN pools = {} /\ DOMAIN tokens = {} /\ DOMAIN dbPools = {} /\ DOMAIN dbTokens = {} /\ DOMAIN found = {}
  BY <1>1
<1>3. CacheType
  BY <1>2, PoolCacheConfig DEF CacheInit, CacheType
<1>4. QED
  BY <1>2, <1>3 DEF CacheInit, CacheInv, MetadataKnown, Ready

LEMMA LoadKeeps ==
    ASSUME CacheInv, NEW cfg \in Configs, Load(cfg)
    PROVE  CacheInv'
<1>1. /\ at = "down" /\ at' = "starting" /\ config' = cfg /\ tokens' = dbTokens
      /\ pools' = [a \in RowsKept(cfg) |-> Classified(dbPools[a], cfg, dbTokens)]
      /\ UNCHANGED <<dbPools, dbTokens, found, beside, failures>>
  BY DEF Load
<1>2. RowsKept(cfg) \subseteq DOMAIN dbPools /\ DOMAIN dbPools \subseteq Addresses /\ DOMAIN pools' = RowsKept(cfg)
  BY <1>1 DEF RowsKept, CacheInv, CacheType
<1>3. ASSUME NEW a \in DOMAIN pools'
      PROVE  RowRight(a, pools'[a], beside) /\ Under(a, pools'[a], cfg)
  <2>1. /\ a \in Addresses /\ RowRight(a, dbPools[a], beside)
        /\ pools'[a] = Classified(dbPools[a], cfg, dbTokens)
    BY <1>1, <1>2 DEF CacheInv
  <2>2. dbPools[a].status = "ignored_factory" => Factory(a) \notin cfg.factories
    BY <2>1, <1>2 DEF RowsKept, RowRight
  <2>3. QED
    BY <2>1, <2>2, ClassifiedUnder
<1>4. \A a \in DOMAIN dbPools \ DOMAIN pools' : dbPools[a].status = "ignored_factory"
  BY <1>2 DEF RowsKept
<1>5. CacheType'
  <2>1. \A a \in DOMAIN pools' : pools'[a] \in Infos
    BY <1>3 DEF RowRight
  <2>2. QED
    BY <2>1, <1>1, <1>2 DEF CacheInv, CacheType
<1>6. DOMAIN found = {}
  BY <1>1 DEF CacheInv
<1>7. QED
  BY <1>1, <1>2, <1>3, <1>4, <1>5, <1>6 DEF CacheInv, MetadataKnown, Ready

(* Memory is lost.                                                         *)
LEMMA StopKeeps ==
    ASSUME CacheInv, Stop
    PROVE  CacheInv'
<1>1. /\ at' = "down" /\ pools' = <<>> /\ tokens' = <<>> /\ found' = <<>>
      /\ UNCHANGED <<config, dbPools, dbTokens, beside>> /\ failures' \in 0 .. Failures
  BY PoolCacheConfig DEF Stop, Forget, Fault, CacheInv, CacheType
<1>2. DOMAIN pools' = {} /\ DOMAIN tokens' = {} /\ DOMAIN found' = {}
  BY <1>1
<1>3. CacheType'
  BY <1>1, <1>2 DEF CacheInv, CacheType
<1>4. QED
  BY <1>1, <1>2, <1>3 DEF CacheInv, MetadataKnown, Ready

LEMMA StartKeeps ==
    ASSUME CacheInv, Start
    PROVE  CacheInv'
<1>1. /\ at = "starting" /\ at' = "up"
      /\ tokens' = WithMetadata(tokens, Pending) /\ dbTokens' = WithMetadata(dbTokens, Pending \ DOMAIN tokens)
      /\ UNCHANGED <<config, pools, dbPools, found, beside, failures>>
  BY DEF Start, ReadTokens, SaveTokens
<1>2. Pending \subseteq Tokens
  <2>1. config.quotes \subseteq Tokens
    <3>1. config.quotes \in {c.quotes : c \in Configs}
      BY DEF CacheInv, CacheType
    <3>2. config.quotes \subseteq UNION {c.quotes : c \in Configs}
      BY <3>1, Zenon
    <3>3. QED
      BY <3>2 DEF Tokens
  <2>2. \A a \in DOMAIN pools : pools[a].pair \subseteq Tokens
    BY PairsAreTokens DEF CacheInv, CacheType
  <2>3. QED
    BY <2>1, <2>2 DEF Pending
<1>3. /\ DOMAIN tokens' = DOMAIN tokens \cup Pending /\ \A t \in DOMAIN tokens' : tokens'[t] \in BOOLEAN
  BY <1>1, <1>2, MetadataAdded DEF CacheInv, CacheType
<1>4. /\ DOMAIN dbTokens' = DOMAIN dbTokens \cup (Pending \ DOMAIN tokens)
      /\ \A t \in DOMAIN dbTokens' : dbTokens'[t] \in BOOLEAN
  <2>1. Pending \ DOMAIN tokens \subseteq Tokens
    BY <1>2
  <2>2. QED
    BY <1>1, <2>1, MetadataAdded DEF CacheInv
<1>5. CacheType'
  BY <1>1, <1>2, <1>3, <1>4 DEF CacheInv, CacheType
<1>6. MetadataKnown'
  BY <1>1, <1>3 DEF MetadataKnown, Pending
<1>7. QED
  BY <1>1, <1>2, <1>3, <1>4, <1>5, <1>6 DEF CacheInv

(* The rows of addresses that are asked are no fakes: what is remembered   *)
(* of eaters may change for them.                                          *)
LEMMA AskKeeps ==
    ASSUME CacheInv, Ask
    PROVE  CacheInv'
<1>0. PICK asked \in (SUBSET Unknown) \ {{}} :
         \E f \in [asked -> UNION {Findings(a, asked) : a \in asked}] :
            (\A a \in asked : f[a] \in Findings(a, asked)) /\ Learn(asked, f)
  BY DEF Ask
<1>1. PICK f \in [asked -> UNION {Findings(a, asked) : a \in asked}] :
         (\A a \in asked : f[a] \in Findings(a, asked)) /\ Learn(asked, f)
  BY <1>0
<1>2. /\ at = "up" /\ at' = "metadata" /\ found' = f
      /\ beside' = (beside \ asked) \cup {a \in asked : BesideEater(a, asked)}
      /\ UNCHANGED <<config, pools, tokens, dbPools, dbTokens, failures>>
  BY <1>1 DEF Learn
<1>3. asked \subseteq Addresses /\ asked \cap DOMAIN pools = {} /\ DOMAIN f = asked
  BY <1>1 DEF Unknown
<1>4. ASSUME NEW a \in asked
      PROVE  RowRight(a, f[a], beside') /\ Fresh(a, f[a], config)
  <2>1. asked \in SUBSET Addresses /\ f[a] \in Findings(a, asked) /\ (BesideEater(a, asked) => a \in beside')
    BY <1>1, <1>2, <1>3
  <2>2. QED
    BY <2>1, FindingRight
<1>5. ASSUME NEW a \in DOMAIN pools PROVE RowRight(a, pools[a], beside')
  <2>1. RowRight(a, pools[a], beside) /\ (a \in beside => a \in beside')
    BY <1>2, <1>3 DEF CacheInv
  <2>2. QED
    BY <2>1 DEF RowRight
<1>6. ASSUME NEW a \in DOMAIN dbPools PROVE RowRight(a, dbPools[a], beside')
  <2>1. RowRight(a, dbPools[a], beside)
    BY DEF CacheInv
  <2>2. dbPools[a].status = "ignored_factory" \/ (a \in beside => a \in beside')
    BY <1>2, <1>3 DEF CacheInv
  <2>3. QED
    BY <2>1, <2>2 DEF RowRight
<1>7. CacheType'
  <2>1. \A a \in DOMAIN found' : found'[a] \in Infos
    BY <1>2, <1>3, <1>4 DEF RowRight
  <2>2. beside' \subseteq Addresses
    BY <1>2, <1>3 DEF CacheInv, CacheType
  <2>3. QED
    BY <2>1, <2>2, <1>2, <1>3 DEF CacheInv, CacheType
<1>8. MetadataKnown'
  BY <1>2 DEF CacheInv, MetadataKnown, Ready
<1>9. QED
  BY <1>2, <1>3, <1>4, <1>5, <1>6, <1>7, <1>8 DEF CacheInv

LEMMA ReadFailsKeeps ==
    ASSUME CacheInv, ReadFails
    PROVE  CacheInv'
<1>1. /\ at \in {"up", "metadata"} /\ at' = "up" /\ found' = <<>> /\ failures' \in 0 .. Failures
      /\ UNCHANGED <<config, pools, tokens, dbPools, dbTokens, beside>>
  BY PoolCacheConfig DEF ReadFails, Fault, CacheInv, CacheType
<1>2. DOMAIN found' = {}
  BY <1>1
<1>3. CacheType'
  BY <1>1, <1>2 DEF CacheInv, CacheType
<1>4. MetadataKnown'
  BY <1>1 DEF CacheInv, MetadataKnown, Ready
<1>5. QED
  BY <1>1, <1>2, <1>3, <1>4 DEF CacheInv

LEMMA MetadataKeeps ==
    ASSUME CacheInv, Metadata
    PROVE  CacheInv'
<1>1. /\ at = "metadata" /\ tokens' = WithMetadata(tokens, NewTokens)
      /\ UNCHANGED <<config, pools, dbPools, beside>>
  BY DEF Metadata, ReadTokens
<1>2. NewTokens \subseteq Tokens
  <2>1. \A a \in DOMAIN found : found[a].pair \subseteq Tokens
    BY PairsAreTokens DEF CacheInv, CacheType
  <2>2. QED
    BY <2>1 DEF NewTokens
<1>3. /\ DOMAIN tokens' = DOMAIN tokens \cup NewTokens /\ \A t \in DOMAIN tokens' : tokens'[t] \in BOOLEAN
  BY <1>1, <1>2, MetadataAdded DEF CacheInv, CacheType
<1>4. MetadataKnown' \/ ~Ready'
  BY <1>1, <1>3 DEF CacheInv, MetadataKnown, Ready
<1>5. CASE SaveTokens(NewTokens) /\ at' = "verdict" /\ UNCHANGED <<found, failures>>
  <2>1. NewTokens \ DOMAIN tokens \subseteq Tokens /\ dbTokens' = WithMetadata(dbTokens, NewTokens \ DOMAIN tokens)
    BY <1>2, <1>5 DEF SaveTokens
  <2>2. /\ DOMAIN dbTokens' = DOMAIN dbTokens \cup (NewTokens \ DOMAIN tokens)
        /\ \A t \in DOMAIN dbTokens' : dbTokens'[t] \in BOOLEAN
    BY <2>1, MetadataAdded DEF CacheInv
  <2>3. CacheType'
    BY <2>2, <1>1, <1>2, <1>3, <1>5 DEF CacheInv, CacheType
  <2>4. NewTokens' \subseteq DOMAIN tokens'
    BY <1>1, <1>3, <1>5 DEF NewTokens
  <2>5. QED
    BY <2>2, <2>3, <2>4, <1>1, <1>2, <1>4, <1>5 DEF CacheInv, MetadataKnown, Ready
<1>6. CASE Fault /\ at' = "up" /\ found' = <<>> /\ UNCHANGED dbTokens
  <2>1. DOMAIN found' = {} /\ failures' \in 0 .. Failures
    BY <1>6, PoolCacheConfig DEF Fault, CacheInv, CacheType
  <2>2. CacheType'
    BY <2>1, <1>1, <1>2, <1>3, <1>6 DEF CacheInv, CacheType
  <2>3. QED
    BY <2>1, <2>2, <1>1, <1>4, <1>6 DEF CacheInv, MetadataKnown, Ready
<1>7. QED
  BY <1>5, <1>6 DEF Metadata

LEMMA VerdictRight ==
    ASSUME CacheInv, at = "verdict", NEW a \in DOMAIN found
    PROVE  /\ RowRight(a, Verdict(a), beside) /\ Under(a, Verdict(a), config)
           /\ Verdict(a).status \in Watched => Verdict(a).pair \subseteq DOMAIN tokens
<1>1. /\ a \in Addresses /\ RowRight(a, found[a], beside) /\ Fresh(a, found[a], config) /\ config \in Configs
      /\ NewTokens \subseteq DOMAIN tokens
  BY DEF CacheInv, CacheType
<1>2. CASE found[a].status = "tracked"
  <2>1. Verdict(a) = Classified(found[a], config, tokens)
    BY <1>2 DEF Verdict
  <2>2. /\ RowRight(a, Verdict(a), beside) /\ Under(a, Verdict(a), config)
        /\ Verdict(a).pair = found[a].pair
    <3>1. found[a].pair = NoTokens /\ found[a].status = "ignored_factory" => Factory(a) \notin config.factories
      BY <1>2
    <3>2. /\ RowRight(a, Classified(found[a], config, tokens), beside)
          /\ Under(a, Classified(found[a], config, tokens), config)
          /\ Classified(found[a], config, tokens).pair = found[a].pair
      <4> DEFINE i == found[a]
                 b == beside
                 cfg == config
      <4>1. /\ a \in Addresses /\ cfg \in Configs /\ RowRight(a, i, b)
            /\ i.pair = NoTokens /\ i.status = "ignored_factory" => Factory(a) \notin cfg.factories
        BY <3>1, <1>1
      <4> HIDE DEF i, b, cfg
      <4>2. /\ RowRight(a, Classified(i, cfg, tokens), b)
            /\ Under(a, Classified(i, cfg, tokens), cfg)
            /\ Classified(i, cfg, tokens).pair = i.pair
        BY <4>1, ClassifiedUnder
      <4>3. QED
        BY <4>2 DEF i, b, cfg
    <3>3. QED
      BY <2>1, <3>2
  <2>3. found[a].pair # NoTokens
    BY <1>1, <1>2 DEF RowRight
  <2>4. Verdict(a).status \in Watched => Quotes(found[a].pair, config) # {}
    BY <2>2, <2>3 DEF Under
  <2>5. Quotes(found[a].pair, config) # {} => found[a].pair \subseteq NewTokens
    BY <1>2 DEF NewTokens
  <2>6. QED
    BY <1>1, <2>2, <2>4, <2>5
<1>3. CASE found[a].status # "tracked"
  BY <1>1, <1>3 DEF Verdict, Fresh, Under, Watched
<1>4. QED
  BY <1>2, <1>3

LEMMA DecideKeeps ==
    ASSUME CacheInv, Decide
    PROVE  CacheInv'
<1> DEFINE verdicts == [a \in DOMAIN found |-> Verdict(a)]
<1>1. /\ at = "verdict" /\ at' = "up" /\ found' = <<>> /\ pools' = Overlaid(pools, verdicts)
      /\ UNCHANGED <<config, tokens, dbTokens, beside>>
      /\ \/ dbPools' = Overlaid(dbPools, verdicts) /\ UNCHANGED failures
         \/ Fault /\ UNCHANGED dbPools
  BY DEF Decide
<1>2. DOMAIN found' = {} /\ failures' \in 0 .. Failures
  BY <1>1, PoolCacheConfig DEF Fault, CacheInv, CacheType
<1>3. ASSUME NEW a \in DOMAIN found
      PROVE  /\ RowRight(a, verdicts[a], beside) /\ Under(a, verdicts[a], config)
             /\ verdicts[a].status \in Watched => verdicts[a].pair \subseteq DOMAIN tokens
  BY <1>1, VerdictRight
<1>4. DOMAIN verdicts = DOMAIN found
  OBVIOUS
<1> HIDE DEF verdicts
<1>5. /\ DOMAIN pools' = DOMAIN pools \cup DOMAIN found
      /\ \A a \in DOMAIN pools' : pools'[a] = IF a \in DOMAIN found THEN verdicts[a] ELSE pools[a]
  BY <1>1, <1>4 DEF Overlaid
<1>6. \/ dbPools' = dbPools
      \/ /\ DOMAIN dbPools' = DOMAIN dbPools \cup DOMAIN found
         /\ \A a \in DOMAIN dbPools' : dbPools'[a] = IF a \in DOMAIN found THEN verdicts[a] ELSE dbPools[a]
  BY <1>1, <1>4 DEF Overlaid
<1>7. \A a \in DOMAIN pools' : RowRight(a, pools'[a], beside) /\ Under(a, pools'[a], config)
  BY <1>3, <1>5 DEF CacheInv
<1>8. \A a \in DOMAIN dbPools' : RowRight(a, dbPools'[a], beside)
  BY <1>3, <1>6 DEF CacheInv
<1>9. \A a \in DOMAIN dbPools' \ DOMAIN pools' : dbPools'[a].status = "ignored_factory"
  BY <1>1, <1>5, <1>6 DEF CacheInv
<1>10. MetadataKnown'
  BY <1>1, <1>3, <1>5 DEF CacheInv, MetadataKnown, Ready
<1>11. CacheType'
  <2>1. DOMAIN pools' \subseteq Addresses /\ DOMAIN dbPools' \subseteq Addresses
    BY <1>5, <1>6 DEF CacheInv, CacheType
  <2>2. (\A a \in DOMAIN pools' : pools'[a] \in Infos) /\ \A a \in DOMAIN dbPools' : dbPools'[a] \in Infos
    BY <1>7, <1>8 DEF RowRight
  <2>3. QED
    BY <2>1, <2>2, <1>1, <1>2 DEF CacheInv, CacheType
<1>12. QED
  BY <1>1, <1>2, <1>7, <1>8, <1>9, <1>10, <1>11 DEF CacheInv

(* The strengthening holds at first and is kept by every step.             *)
THEOREM CacheInductive == CacheSpec => []CacheInv
<1>1. CacheInit => CacheInv
  BY InitKeeps
<1>2. CacheInv /\ [CacheNext]_cacheVars => CacheInv'
  <2> SUFFICES ASSUME CacheInv, [CacheNext]_cacheVars PROVE CacheInv'
    OBVIOUS
  <2>1. ASSUME NEW cfg \in Configs, Load(cfg) PROVE CacheInv'
    BY <2>1, LoadKeeps
  <2>2. CASE Stop
    BY <2>2, StopKeeps
  <2>3. CASE Ask
    BY <2>3, AskKeeps
  <2>4. CASE ReadFails
    BY <2>4, ReadFailsKeeps
  <2>5. CASE Start
    BY <2>5, StartKeeps
  <2>6. CASE Metadata
    BY <2>6, MetadataKeeps
  <2>7. CASE Decide
    BY <2>7, DecideKeeps
  <2>8. CASE UNCHANGED cacheVars
    BY <2>8 DEF cacheVars, CacheInv, CacheType, MetadataKnown, Ready, NewTokens
  <2>9. QED
    BY <2>1, <2>2, <2>3, <2>4, <2>5, <2>6, <2>7, <2>8 DEF CacheNext, Deliberate, NothingToAsk
<1>3. QED
  BY <1>1, <1>2, PTL DEF CacheSpec

(* Whatever configurations the rows were written under and whatever was    *)
(* lost in between, the pools that are watched are the real ones of the    *)
(* configuration, but those asked together with an eater of gas            *)
(* (README.md:25-29; cache.py:57-78, 89-109, 132-155).                     *)
THEOREM CacheWatchesRightly == CacheSpec => []WatchedRightly
<1>1. CacheInv => WatchedRightly
  <2> SUFFICES ASSUME CacheInv, NEW a \in DOMAIN pools
               PROVE  LET watched == pools[a].status \in Watched \cup {"ignored_broken"}
                          real == Truth(a) \in Watched \cup {"ignored_broken"}
                      IN  (watched => real) /\ (real => watched \/ a \in beside)
    BY DEF WatchedRightly
  <2> DEFINE i == pools[a]
             q == Quotes(Pair(a), config)
  <2>1. /\ a \in Addresses /\ RowRight(a, i, beside) /\ Under(a, i, config) /\ Pair(a) # {}
    BY PairNonempty DEF CacheInv, CacheType
  <2>2. Truth(a) \in Watched \cup {"ignored_broken"} <=>
          Factory(a) \in config.factories /\ Genuine(a) /\ q # {}
    BY <2>1 DEF Truth, Watched
  <2>3. CASE i.pair = NoTokens
    BY <2>1, <2>2, <2>3 DEF RowRight, Under, Watched
  <2>4. CASE i.pair # NoTokens
    BY <2>1, <2>2, <2>4 DEF RowRight, Under
  <2>5. QED
    BY <2>3, <2>4
<1>2. QED
  BY <1>1, CacheInductive, PTL

(* The decimals of both tokens of every watched pool are known, or known   *)
(* to be unreadable (cache.py:72-74, 181-183, 210-213).                    *)
THEOREM CacheKnowsMetadata == CacheSpec => []MetadataKnown
<1>1. CacheInv => MetadataKnown
  BY DEF CacheInv
<1>2. QED
  BY <1>1, CacheInductive, PTL

-----------------------------------------------------------------------------
(* Where the divergence about broken tokens ends: with one configuration,  *)
(* and while the tokens table has all that memory has.  It has not when    *)
(* the commit of new tokens fails: what memory has is not written again.   *)

OneConfiguration == \A c, d \in Configs : c = d
TokensSaved == at # "down" => tokens = dbTokens

(* As BrokenIgnored, but for addresses asked beside an eater of gas.       *)
BrokenKnown ==
    Ready => \A a \in DOMAIN pools :
        Truth(a) = "ignored_broken" => pools[a].status = "ignored_broken" \/ a \in beside

Broken(a, cfg) ==
    /\ Factory(a) \in cfg.factories /\ Genuine(a)
    /\ Quotes(Pair(a), cfg) # Pair(a) /\ Quotes(Pair(a), cfg) # {}
    /\ ~ Readable(Target(Pair(a), cfg))

(* Row i says so, and will after the next start, if the tokens known are.  *)
BrokenRow(a, i, cfg, known, b) ==
    Broken(a, cfg) =>
        \/ i.status = "ignored_broken" /\ i.pair = Pair(a) /\ Target(Pair(a), cfg) \in known
        \/ a \in b

BrokenInv ==
    /\ \A t \in DOMAIN dbTokens : dbTokens[t] = Readable(t)
    /\ \A a \in DOMAIN pools : BrokenRow(a, pools[a], config, DOMAIN dbTokens, beside)
    /\ \A a \in DOMAIN dbPools : BrokenRow(a, dbPools[a], config, DOMAIN dbTokens, beside)
    /\ \A a \in DOMAIN dbPools :
          dbPools[a].status = "ignored_factory" => Factory(a) \notin config.factories

(* What Truth says of a pool with a broken token.                          *)
LEMMA BrokenIs ==
    ASSUME NEW a
    PROVE  Truth(a) = "ignored_broken" <=> Broken(a, config)
BY DEF Broken, Truth

(* _classify finds it broken again, once its tokens are known.             *)
LEMMA ClassifiedBroken ==
    ASSUME NEW a \in Addresses, NEW cfg, NEW i \in Infos, NEW known, Broken(a, cfg),
           i.factory = Factory(a), i.pair = Pair(a), i.status # "ignored_fake",
           Target(Pair(a), cfg) \in DOMAIN known, ~ known[Target(Pair(a), cfg)]
    PROVE  Classified(i, cfg, known).status = "ignored_broken" /\ Classified(i, cfg, known).pair = Pair(a)
<1>1. i.pair # NoTokens
  BY PairNonempty DEF NoTokens
<1>2. Classified(i, cfg, known) = [i EXCEPT !.status = "ignored_broken"]
  BY <1>1 DEF Classified, Broken
<1>3. QED
  BY <1>2 DEF Infos

(* The metadata that is added is what the tokens' own contracts say.       *)
LEMMA MetadataTrue ==
    ASSUME NEW known, NEW new, \A t \in DOMAIN known : known[t] = Readable(t)
    PROVE  /\ DOMAIN WithMetadata(known, new) = DOMAIN known \cup new
           /\ \A t \in DOMAIN known \cup new : WithMetadata(known, new)[t] = Readable(t)
BY DEF WithMetadata

(* A row stays right while the table of tokens grows.                      *)
LEMMA BrokenRowStays ==
    ASSUME NEW a, NEW i, NEW cfg, NEW known, NEW more, NEW b, NEW c, BrokenRow(a, i, cfg, known, b),
           known \subseteq more, a \in b => a \in c
    PROVE  BrokenRow(a, i, cfg, more, c)
BY DEF BrokenRow

(* The verdict on a new pool is right, for its metadata has been read.     *)
LEMMA VerdictBroken ==
    ASSUME CacheInv, BrokenInv, TokensSaved, at = "verdict", NEW a \in DOMAIN found
    PROVE  BrokenRow(a, Verdict(a), config, DOMAIN dbTokens, beside)
<1> SUFFICES ASSUME Broken(a, config), a \notin beside
             PROVE  /\ Verdict(a).status = "ignored_broken" /\ Verdict(a).pair = Pair(a)
                    /\ Target(Pair(a), config) \in DOMAIN dbTokens
  BY DEF BrokenRow
<1>1. /\ a \in Addresses /\ RowRight(a, found[a], beside) /\ Fresh(a, found[a], config)
      /\ NewTokens \subseteq DOMAIN dbTokens /\ tokens = dbTokens
  BY DEF CacheInv, CacheType, TokensSaved
<1>2. found[a].status = "tracked" /\ found[a] \in Infos /\ found[a].factory = Factory(a)
  BY <1>1 DEF RowRight, Fresh, Broken
<1>3. found[a].pair = Pair(a)
  BY <1>1, <1>2 DEF RowRight
<1>4. Pair(a) \subseteq NewTokens
  BY <1>2, <1>3 DEF NewTokens, Broken
<1>5. \E t \in Pair(a) : t \notin config.quotes
  BY DEF Broken, Quotes
<1>6. Target(Pair(a), config) \in Pair(a)
  BY <1>5 DEF Target
<1>7. Target(Pair(a), config) \in DOMAIN dbTokens /\ ~ dbTokens[Target(Pair(a), config)]
  BY <1>1, <1>4, <1>6 DEF BrokenInv, Broken
<1>8. Verdict(a) = Classified(found[a], config, tokens)
  BY <1>2 DEF Verdict
<1>9. Verdict(a).status = "ignored_broken" /\ Verdict(a).pair = Pair(a)
  <2> DEFINE i == found[a]
             cfg == config
             known == dbTokens
  <2>1. /\ i \in Infos /\ Broken(a, cfg) /\ i.factory = Factory(a) /\ i.pair = Pair(a)
        /\ i.status # "ignored_fake" /\ Target(Pair(a), cfg) \in DOMAIN known
        /\ ~ known[Target(Pair(a), cfg)] /\ Verdict(a) = Classified(i, cfg, known)
    BY <1>1, <1>2, <1>3, <1>7, <1>8
  <2> HIDE DEF i, cfg, known
  <2>2. QED
    BY <1>1, <2>1, ClassifiedBroken
<1>10. QED
  BY <1>7, <1>9

LEMMA LoadKeepsBroken ==
    ASSUME OneConfiguration, CacheInv, BrokenInv, NEW cfg \in Configs, Load(cfg)
    PROVE  BrokenInv'
<1>1. cfg = config /\ config' = config
  BY DEF OneConfiguration, Load, CacheInv, CacheType
<1>2. /\ pools' = [a \in RowsKept(cfg) |-> Classified(dbPools[a], cfg, dbTokens)]
      /\ UNCHANGED <<dbPools, dbTokens, beside>>
  BY DEF Load
<1>3. RowsKept(cfg) \subseteq DOMAIN dbPools /\ DOMAIN dbPools \subseteq Addresses /\ DOMAIN pools' = RowsKept(cfg)
  BY <1>2 DEF RowsKept, CacheInv, CacheType
<1>4. ASSUME NEW a \in DOMAIN pools', Broken(a, cfg), a \notin beside
      PROVE  /\ pools'[a].status = "ignored_broken" /\ pools'[a].pair = Pair(a)
             /\ Target(Pair(a), cfg) \in DOMAIN dbTokens
  <2> DEFINE i == dbPools[a]
             known == dbTokens
             t == Target(Pair(a), cfg)
  <2>1. /\ a \in Addresses /\ RowRight(a, i, beside) /\ BrokenRow(a, i, cfg, DOMAIN known, beside)
        /\ pools'[a] = Classified(i, cfg, known)
    BY <1>1, <1>2, <1>3 DEF CacheInv, BrokenInv
  <2>2. i.status = "ignored_broken" /\ i.pair = Pair(a) /\ t \in DOMAIN known
    BY <1>4, <2>1 DEF BrokenRow
  <2>3. i \in Infos /\ i.factory = Factory(a)
    BY <2>1 DEF RowRight
  <2>4. ~ known[t]
    BY <1>4, <2>2 DEF BrokenInv, Broken
  <2> HIDE DEF i, known
  <2>5. Classified(i, cfg, known).status = "ignored_broken" /\ Classified(i, cfg, known).pair = Pair(a)
    BY <1>4, <2>1, <2>2, <2>3, <2>4, ClassifiedBroken
  <2>6. QED
    BY <2>1, <2>2, <2>5 DEF known
<1>5. QED
  BY <1>1, <1>2, <1>4 DEF BrokenInv, BrokenRow

LEMMA AskKeepsBroken ==
    ASSUME CacheInv, BrokenInv, Ask
    PROVE  BrokenInv'
<1>1. PICK asked \in SUBSET Unknown : \E f : Learn(asked, f)
  BY DEF Ask
<1>2. /\ at = "up" /\ UNCHANGED <<config, pools, dbPools, dbTokens>>
      /\ \A a : a \notin asked => (a \in beside' <=> a \in beside)
  BY <1>1 DEF Learn
<1>3. asked \cap DOMAIN pools = {}
  BY <1>1 DEF Unknown
<1>4. ASSUME NEW a \in DOMAIN dbPools PROVE BrokenRow(a, dbPools[a], config, DOMAIN dbTokens, beside')
  <2>1. CASE a \in asked
    BY <1>2, <1>3, <2>1 DEF CacheInv, BrokenInv, BrokenRow, Broken
  <2>2. CASE a \notin asked
    BY <1>2, <2>2 DEF BrokenInv, BrokenRow
  <2>3. QED
    BY <2>1, <2>2
<1>5. ASSUME NEW a \in DOMAIN pools PROVE BrokenRow(a, pools[a], config, DOMAIN dbTokens, beside')
  BY <1>2, <1>3 DEF BrokenInv, BrokenRow
<1>6. QED
  BY <1>2, <1>4, <1>5 DEF BrokenInv

LEMMA DecideKeepsBroken ==
    ASSUME CacheInv, BrokenInv, TokensSaved, Decide
    PROVE  BrokenInv'
<1> DEFINE verdicts == [a \in DOMAIN found |-> Verdict(a)]
<1>1. /\ at = "verdict" /\ pools' = Overlaid(pools, verdicts)
      /\ UNCHANGED <<config, dbTokens, beside>>
      /\ dbPools' = Overlaid(dbPools, verdicts) \/ dbPools' = dbPools
  BY DEF Decide
<1>2. ASSUME NEW a \in DOMAIN found
      PROVE  /\ BrokenRow(a, verdicts[a], config, DOMAIN dbTokens, beside)
             /\ verdicts[a].status = "ignored_factory" => Factory(a) \notin config.factories
  BY <1>1, VerdictBroken, VerdictRight DEF Under
<1>3. DOMAIN verdicts = DOMAIN found
  OBVIOUS
<1> HIDE DEF verdicts
<1>4. /\ DOMAIN pools' = DOMAIN pools \cup DOMAIN found
      /\ \A a \in DOMAIN pools' : pools'[a] = IF a \in DOMAIN found THEN verdicts[a] ELSE pools[a]
  BY <1>1, <1>3 DEF Overlaid
<1>5. \/ dbPools' = dbPools
      \/ /\ DOMAIN dbPools' = DOMAIN dbPools \cup DOMAIN found
         /\ \A a \in DOMAIN dbPools' : dbPools'[a] = IF a \in DOMAIN found THEN verdicts[a] ELSE dbPools[a]
  BY <1>1, <1>3 DEF Overlaid
<1>6. /\ \A a \in DOMAIN pools' : BrokenRow(a, pools'[a], config, DOMAIN dbTokens, beside)
      /\ \A a \in DOMAIN dbPools' : BrokenRow(a, dbPools'[a], config, DOMAIN dbTokens, beside)
      /\ \A a \in DOMAIN dbPools' : dbPools'[a].status = "ignored_factory" => Factory(a) \notin config.factories
  BY <1>2, <1>4, <1>5 DEF BrokenInv
<1>7. QED
  BY <1>1, <1>6 DEF BrokenInv

(* Metadata is read at a start and for new pools; the rows stay.           *)
LEMMA TokensKeepBroken ==
    ASSUME CacheInv, BrokenInv, Start \/ Metadata
    PROVE  BrokenInv'
<1>1. UNCHANGED <<config, pools, dbPools, beside>>
  BY DEF Start, Metadata
<1>2. dbTokens' = dbTokens \/ \E new : dbTokens' = WithMetadata(dbTokens, new)
  BY DEF Start, Metadata, SaveTokens
<1>3. DOMAIN dbTokens \subseteq DOMAIN dbTokens' /\ \A t \in DOMAIN dbTokens' : dbTokens'[t] = Readable(t)
  <2>1. ASSUME NEW new, dbTokens' = WithMetadata(dbTokens, new)
        PROVE  /\ DOMAIN dbTokens' = DOMAIN dbTokens \cup new
               /\ \A t \in DOMAIN dbTokens \cup new : dbTokens'[t] = Readable(t)
    <3> DEFINE known == dbTokens
    <3>1. \A t \in DOMAIN known : known[t] = Readable(t)
      BY DEF BrokenInv
    <3> HIDE DEF known
    <3>2. /\ DOMAIN WithMetadata(known, new) = DOMAIN known \cup new
          /\ \A t \in DOMAIN known \cup new : WithMetadata(known, new)[t] = Readable(t)
      BY <3>1, MetadataTrue
    <3>3. QED
      BY <2>1, <3>2 DEF known
  <2>2. QED
    BY <1>2, <2>1 DEF BrokenInv
<1>4. QED
  BY <1>1, <1>3 DEF BrokenInv, BrokenRow

(* A pool with a broken token is ignored, unless it was asked beside an    *)
(* eater: provided that the configuration stays and that no commit of new  *)
(* tokens fails (README.md:28-29; cache.py:57-78, 105-109, 210-213).       *)
THEOREM BrokenAreKnown ==
    ASSUME OneConfiguration
    PROVE  CacheSpec /\ []TokensSaved => []BrokenKnown
<1>1. CacheInit => BrokenInv
  <2> SUFFICES ASSUME CacheInit PROVE BrokenInv
    OBVIOUS
  <2>1. pools = <<>> /\ dbPools = <<>> /\ dbTokens = <<>>
    BY DEF CacheInit
  <2>2. DOMAIN pools = {} /\ DOMAIN dbPools = {} /\ DOMAIN dbTokens = {}
    BY <2>1
  <2>3. QED
    BY <2>2 DEF BrokenInv
<1>2. CacheInv /\ TokensSaved /\ BrokenInv /\ [CacheNext]_cacheVars => BrokenInv'
  <2> SUFFICES ASSUME CacheInv, TokensSaved, BrokenInv, [CacheNext]_cacheVars PROVE BrokenInv'
    OBVIOUS
  <2>1. ASSUME NEW cfg \in Configs, Load(cfg) PROVE BrokenInv'
    BY <2>1, LoadKeepsBroken
  <2>2. CASE Stop
    <3>1. pools' = <<>> /\ UNCHANGED <<config, dbPools, dbTokens, beside>>
      BY <2>2 DEF Stop, Forget
    <3>2. DOMAIN pools' = {}
      BY <3>1
    <3>3. QED
      BY <3>1, <3>2 DEF BrokenInv
  <2>3. CASE Ask
    BY <2>3, AskKeepsBroken
  <2>4. CASE Start \/ Metadata
    BY <2>4, TokensKeepBroken
  <2>5. CASE Decide
    BY <2>5, DecideKeepsBroken
  <2>6. CASE ReadFails \/ UNCHANGED cacheVars
    BY <2>6 DEF ReadFails, cacheVars, BrokenInv
  <2>7. QED
    BY <2>1, <2>2, <2>3, <2>4, <2>5, <2>6 DEF CacheNext, Deliberate, NothingToAsk
<1>3. BrokenInv => BrokenKnown
  BY BrokenIs DEF BrokenInv, BrokenRow, BrokenKnown
<1>4. QED
  BY <1>1, <1>2, <1>3, CacheInductive, PTL DEF CacheSpec

NoneBeside == beside = {}

(* Without eaters of gas, none is misjudged.                               *)
THEOREM BrokenAreIgnored ==
    ASSUME OneConfiguration, \A a \in Addresses : ~ Eater(a)
    PROVE  CacheSpec /\ []TokensSaved => []BrokenIgnored
<1>1. CacheInit => NoneBeside
  BY DEF CacheInit, NoneBeside
<1>2. NoneBeside /\ CacheInv /\ [CacheNext]_cacheVars => NoneBeside'
  <2> SUFFICES ASSUME beside = {}, CacheInv, [CacheNext]_cacheVars PROVE beside' = {}
    BY DEF NoneBeside
  <2>1. CASE Ask
    <3>1. PICK asked \in SUBSET Unknown : \E f : Learn(asked, f)
      BY <2>1 DEF Ask
    <3>2. \A a \in asked : ~ BesideEater(a, asked)
      BY <3>1 DEF BesideEater, Unknown
    <3>3. QED
      BY <3>1, <3>2 DEF Learn
  <2>2. CASE ~ Ask
    BY <2>2 DEF CacheNext, Load, Stop, Forget, ReadFails, Deliberate, Start, Metadata, Decide,
       NothingToAsk, cacheVars
  <2>3. QED
    BY <2>1, <2>2
<1>3. NoneBeside /\ BrokenKnown => BrokenIgnored
  BY DEF NoneBeside, BrokenKnown, BrokenIgnored
<1>4. CacheSpec /\ []TokensSaved => []BrokenKnown
  BY BrokenAreKnown
<1>5. QED
  BY <1>1, <1>2, <1>3, <1>4, CacheInductive, PTL DEF CacheSpec

-----------------------------------------------------------------------------
(* The calls of a read are those of the addresses in their order.          *)
Asking ==
    read # "idle" =>
        /\ at = "up"
        /\ order # <<>>
        /\ Elements(order) \subseteq Unknown
        /\ calls = FourCalls(order)
        /\ required = FactoryCalls(order)

ResolveInv == CacheInv /\ ReadInv /\ order \in Seq(Addresses) /\ Asking

-----------------------------------------------------------------------------
(* Where the four calls of the n-th address are.                           *)
LEMMA Places ==
    ASSUME NEW m \in Nat
    PROVE  /\ \A n \in 1 .. m, k \in 1 .. 4 :
                 /\ 4 * (n - 1) + k \in 1 .. 4 * m
                 /\ Address(4 * (n - 1) + k) = n /\ Function(4 * (n - 1) + k) = k
           /\ \A i \in 1 .. 4 * m : Address(i) \in 1 .. m /\ Function(i) \in 1 .. 4
BY DEF Address, Function

LEMMA CallsOf ==
    ASSUME NEW s \in Seq(Addresses), s # <<>>
    PROVE  /\ FourCalls(s) \in Seq(Behaviour) /\ FourCalls(s) # <<>> /\ Len(FourCalls(s)) = 4 * Len(s)
           /\ FactoryCalls(s) \subseteq 1 .. Len(FourCalls(s))
           /\ \A i \in 1 .. 4 * Len(s) :
                 /\ FourCalls(s)[i] = Contract(s[Address(i)])[Function(i)]
                 /\ s[Address(i)] \in Addresses /\ s[Address(i)] \in Elements(s)
<1> DEFINE m == Len(s)
           f == FourCalls(s)
<1>1. m \in Nat /\ m >= 1 /\ 4 * m \in Nat /\ 4 * m >= 1
  BY EmptySeq
<1>2. f = [i \in 1 .. 4 * m |-> Contract(s[Address(i)])[Function(i)]]
  BY DEF FourCalls
<1>3. ASSUME NEW i \in 1 .. 4 * m
      PROVE  /\ f[i] = Contract(s[Address(i)])[Function(i)] /\ f[i] \in Behaviour
             /\ s[Address(i)] \in Addresses /\ s[Address(i)] \in Elements(s)
  <2>1. Address(i) \in 1 .. m /\ Function(i) \in 1 .. 4
    BY <1>1, Places
  <2>2. s[Address(i)] \in Addresses /\ s[Address(i)] \in Elements(s)
    BY <2>1 DEF Elements
  <2>3. Contract(s[Address(i)]) \in [1 .. 4 -> Behaviours]
    BY <2>2, ResolveConfig
  <2>4. QED
    BY <1>2, <2>1, <2>2, <2>3 DEF Behaviours, Behaviour
<1>4. f \in Seq(Behaviour) /\ Len(f) = 4 * m
  <2>1. f = [i \in 1 .. 4 * m |-> f[i]] /\ \A i \in 1 .. 4 * m : f[i] \in Behaviour
    BY <1>2, <1>3
  <2> HIDE DEF f, m
  <2>2. QED
    BY <1>1, <2>1, SeqOf
<1>5. f # <<>>
  <2> HIDE DEF f, m
  <2>1. QED
    BY <1>1, <1>4, EmptySeq
<1>6. FactoryCalls(s) \subseteq 1 .. 4 * m
  BY DEF FactoryCalls
<1>7. QED
  BY <1>3, <1>4, <1>5, <1>6

-----------------------------------------------------------------------------
(* A finished read finds out what PoolCache allows.                        *)
LEMMA FoundRight ==
    ASSUME ResolveInv, read = "done", NEW n \in 1 .. Len(order)
    PROVE  FoundAt(n) \in Findings(order[n], Elements(order))
<1> DEFINE a == order[n]
           asked == Elements(order)
           Place(k) == 4 * (n - 1) + k
<1>1. /\ order \in Seq(Addresses) /\ order # <<>> /\ Len(order) \in Nat /\ calls = FourCalls(order)
      /\ required = FactoryCalls(order) /\ config \in Configs /\ a \in Addresses
      /\ Aligned /\ RequiredRight /\ StarvedOnlyBehindEater
  BY ReadDone DEF ResolveInv, Asking, CacheInv, CacheType
<1>2. ASSUME NEW k \in 1 .. 4
      PROVE  /\ Place(k) \in 1 .. 4 * Len(order) /\ Place(k) \in Positions
             /\ Address(Place(k)) = n /\ Function(Place(k)) = k
             /\ calls[Place(k)] = Contract(a)[k]
             /\ Result(n, k) = results[Place(k)]
  <2>1. /\ Place(k) \in 1 .. 4 * Len(order) /\ Address(Place(k)) = n /\ Function(Place(k)) = k
    BY <1>1, Places
  <2>2. Positions = 1 .. 4 * Len(order)
    BY <1>1, CallsOf DEF Positions
  <2>3. calls[Place(k)] = Contract(a)[k]
    BY <1>1, <2>1, CallsOf
  <2>4. QED
    BY <2>1, <2>2, <2>3 DEF Result
<1>3. CASE Factory(a) \notin config.factories
  BY <1>3 DEF FoundAt, Findings, Sound
<1>4. CASE Factory(a) \in config.factories
  <2>1. Contract(a)[1] = "good"
    BY <1>1, <1>4, ResolveConfig
  <2>2. Result(n, 1)
    <3>1. Place(1) \in required /\ Succeeds(Place(1))
      BY <1>1, <1>2, <2>1 DEF FactoryCalls, Succeeds
    <3>2. results[Place(1)] = Succeeds(Place(1))
      BY <1>1, <3>1 DEF RequiredRight
    <3>3. QED
      BY <1>2, <3>1, <3>2
  <2>3. CASE ~Genuine(a)
    BY <2>2, <2>3, <1>4 DEF FoundAt, Findings, Sound
  <2>4. CASE Genuine(a) /\ Result(n, 2) /\ Result(n, 3) /\ (NeedsFee(a) => Result(n, 4))
    BY <2>2, <2>4, <1>4 DEF FoundAt, Findings, Sound
  <2>5. CASE Genuine(a) /\ ~(Result(n, 2) /\ Result(n, 3) /\ (NeedsFee(a) => Result(n, 4)))
    <3>1. PICK k \in 1 .. 4 : ~Result(n, k) /\ Contract(a)[k] = "good"
      <4>1. \A k \in 1 .. IF V3(a) THEN 4 ELSE 3 : Contract(a)[k] = "good"
        BY <1>1, <2>5, ResolveConfig
      <4>2. Contract(a)[2] = "good" /\ Contract(a)[3] = "good" /\ (V3(a) => Contract(a)[4] = "good")
        BY <4>1
      <4>3. 2 \in 1 .. 4 /\ 3 \in 1 .. 4 /\ 4 \in 1 .. 4
        OBVIOUS
      <4>4. QED
        BY <2>5, <4>2, <4>3 DEF NeedsFee
    <3>2. Place(k) \in Positions /\ Succeeds(Place(k)) /\ ~results[Place(k)]
      BY <1>2, <3>1 DEF Succeeds
    <3>3. PICK c : \E e \in Eaters(c) : e < Place(k)
                     /\ \E j \in DOMAIN Chunks(Len(calls)) : c = Chunks(Len(calls))[j]
      BY <1>1, <3>2 DEF StarvedOnlyBehindEater
    <3>4. PICK e \in Eaters(c) :
             e < Place(k) /\ \E j \in DOMAIN Chunks(Len(calls)) : c = Chunks(Len(calls))[j]
      BY <3>3
    <3>5. e \in 1 .. 4 * Len(order) /\ calls[e] = "eater"
      <4>1. calls[e] = "eater" /\ e \in c.from .. c.to
        BY <3>4 DEF Eaters, Members
      <4>2. c.from \in 1 .. Len(calls) /\ c.to \in 1 .. Len(calls)
        <5> DEFINE N == Len(calls)
                   T == [from : 1 .. N, to : 1 .. N]
        <5>1. N = 4 * Len(order) /\ N \in Nat \ {0}
          <6>1. N = 4 * Len(order) /\ Len(order) \in Nat \ {0}
            BY <1>1, CallsOf, EmptySeq
          <6>2. QED
            BY <6>1
        <5> HIDE DEF N
        <5>2. Chunks(N) \in Seq(T)
          BY <5>1, ChunksLeft
        <5>3. c \in T
          <6> HIDE DEF T
          <6>1. QED
            BY <3>4, <5>2 DEF N
        <5>4. QED
          BY <5>3 DEF N
      <4>3. Len(calls) = 4 * Len(order)
        BY <1>1, CallsOf
      <4>4. QED
        BY <4>1, <4>2, <4>3, <1>1
    <3> DEFINE b == order[Address(e)]
    <3>6. /\ b \in Addresses /\ b \in asked /\ Contract(b)[Function(e)] = "eater" /\ Function(e) \in 1 .. 4
      BY <1>1, <3>5, CallsOf, Places
    <3>7. Eater(b)
      BY <3>6, ResolveConfig
    <3>8. b # a
      BY <1>1, <2>5, <3>7, PoolCacheConfig
    <3>9. BesideEater(a, asked)
      BY <3>6, <3>7, <3>8 DEF BesideEater
    <3>10. FoundAt(n) = Fake(a)
      BY <2>2, <2>5, <1>4 DEF FoundAt
    <3>11. QED
      BY <3>9, <3>10, <1>4 DEF Findings
  <2>6. QED
    BY <2>3, <2>4, <2>5
<1>5. QED
  BY <1>3, <1>4

(* So the end of a read is a block with events of unknown addresses.       *)
LEMMA FinishIsAsk ==
    ASSUME ResolveInv, Finish
    PROVE  Ask
<1> DEFINE asked == Elements(order)
           f == FoundOut
<1>1. read = "done" /\ Learn(asked, f) /\ order \in Seq(Addresses) /\ order # <<>> /\ asked \subseteq Unknown
  BY DEF Finish, ResolveInv, Asking
<1>2. asked # {}
  <2>1. 1 \in 1 .. Len(order)
    BY <1>1, EmptySeq
  <2>2. order[1] \in asked
    BY <2>1 DEF Elements
  <2>3. QED
    BY <2>2
<1>3. ASSUME NEW a \in asked PROVE FoundAt(CHOOSE n \in 1 .. Len(order) : order[n] = a) \in Findings(a, asked)
  <2>1. \E n \in 1 .. Len(order) : order[n] = a
    BY DEF Elements
  <2> DEFINE k == CHOOSE n \in 1 .. Len(order) : order[n] = a
  <2>2. k \in 1 .. Len(order) /\ order[k] = a
    BY <2>1
  <2> HIDE DEF k
  <2>3. FoundAt(k) \in Findings(order[k], asked)
    BY <1>1, <2>2, FoundRight
  <2>4. QED
    BY <2>2, <2>3 DEF k
<1>4. \A a \in asked : f[a] \in Findings(a, asked)
  BY <1>3 DEF FoundOut
<1>5. f \in [asked -> UNION {Findings(a, asked) : a \in asked}]
  <2> DEFINE Any == UNION {Findings(a, asked) : a \in asked}
  <2>1. \A a \in asked : f[a] \in Any
    BY <1>4
  <2>2. f = [a \in asked |-> f[a]]
    BY DEF FoundOut
  <2> HIDE DEF Any, f, asked
  <2>3. f \in [asked -> Any]
    BY <2>1, <2>2
  <2>4. QED
    BY <2>3 DEF Any
<1>6. asked \in (SUBSET Unknown) \ {{}} /\ at = "up" /\ at' = "metadata"
  BY <1>1, <1>2 DEF Learn
<1> HIDE DEF asked, f
<1>7. QED
  BY <1>1, <1>4, <1>5, <1>6 DEF Ask

(* Every step of Resolve is one of PoolCache, or leaves it alone.          *)
LEMMA StepImplements ==
    ASSUME ResolveInv, [Next]_vars
    PROVE  [CacheNext]_cacheVars
<1>1. ASSUME NEW asked \in (SUBSET Unknown) \ {{}}, Begin(asked) PROVE UNCHANGED cacheVars
  BY <1>1 DEF Begin
<1>2. CASE Reading
  BY <1>2 DEF Reading
<1>3. CASE Finish
  BY <1>3, FinishIsAsk DEF CacheNext
<1>4. CASE Break
  BY <1>4 DEF Break, CacheNext
<1>5. CASE Die
  BY <1>5 DEF Die, CacheNext
<1>6. CASE Later
  BY <1>6 DEF Later, CacheNext
<1>7. CASE Continue
  BY <1>7 DEF Continue, CacheNext
<1>8. CASE UNCHANGED vars
  BY <1>8 DEF vars
<1>9. QED
  BY <1>1, <1>2, <1>3, <1>4, <1>5, <1>6, <1>7, <1>8 DEF Next

-----------------------------------------------------------------------------
(* What a step of PoolCache keeps.                                         *)
LEMMA CacheStepKeeps ==
    ASSUME CacheInv, [CacheNext]_cacheVars
    PROVE  CacheInv'
<1>1. ASSUME NEW cfg \in Configs, Load(cfg) PROVE CacheInv'
  BY <1>1, LoadKeeps
<1>2. CASE UNCHANGED cacheVars
  BY <1>2 DEF cacheVars, CacheInv, CacheType, MetadataKnown, Ready, NewTokens
<1>3. QED
  BY <1>1, <1>2, StopKeeps, AskKeeps, ReadFailsKeeps, StartKeeps, MetadataKeeps, DecideKeeps
  DEF CacheNext, Deliberate, NothingToAsk

LEMMA SameRead ==
    ASSUME ReadInv, UNCHANGED readVars
    PROVE  ReadInv'
BY DEF readVars, ReadInv, ReadType, Positions, Justified, Succeeds, Starved, Eaters, Members

(* A read that is over leaves nothing to keep.                             *)
LEMMA OverKeeps ==
    ASSUME EndRead, order' = <<>>
    PROVE  ReadInv' /\ order' \in Seq(Addresses) /\ Asking'
BY EndKeeps, EmptySeq DEF EndRead, Asking

(* The addresses that are asked, in some order.                            *)
LEMMA SortedIs ==
    ASSUME NEW asked \in (SUBSET Unknown) \ {{}}, NEW s \in Sorted(asked)
    PROVE  s \in Seq(asked) /\ s \in Seq(Addresses) /\ s # <<>>
<1> DEFINE m == Cardinality(asked)
<1>1. asked \subseteq Addresses /\ asked # {} /\ s \in [1 .. m -> asked]
  BY DEF Unknown, Sorted
<1>2. m \in Nat /\ m # 0
  <2>1. IsFiniteSet(asked)
    BY <1>1, ResolveConfig, FS_Subset
  <2>2. QED
    BY <2>1, <1>1, FS_CardinalityType, FS_EmptySet
<1> HIDE DEF m
<1>3. s \in Seq(asked) /\ s \in Seq(Addresses) /\ Len(s) = m
  BY <1>1, <1>2
<1>4. QED
  BY <1>2, <1>3, EmptySeq

LEMMA BeginAsks ==
    ASSUME ResolveInv, NEW asked \in (SUBSET Unknown) \ {{}}, Begin(asked)
    PROVE  ReadInv' /\ order' \in Seq(Addresses) /\ Asking'
<1>1. PICK s \in Sorted(asked) :
         /\ order' = s /\ at = "up"
         /\ BeginRead(FourCalls(s), FactoryCalls(s))
         /\ UNCHANGED cacheVars
  BY DEF Begin
<1>4. asked \subseteq Unknown /\ s \in Seq(asked) /\ s \in Seq(Addresses) /\ s # <<>>
  BY SortedIs
<1>5. Elements(s) \subseteq asked
  BY <1>4 DEF Elements
<1>6. /\ FourCalls(s) \in Seq(Behaviour) /\ FourCalls(s) # <<>>
      /\ FactoryCalls(s) \in SUBSET (1 .. Len(FourCalls(s)))
  BY <1>4, CallsOf
<1>7. ReadInv'
  BY <1>1, <1>6, BeginKeeps
<1>8. Asking'
  <2>1. at' = "up" /\ Unknown' = Unknown
    BY <1>1 DEF cacheVars, Unknown
  <2>2. calls' = FourCalls(s) /\ required' = FactoryCalls(s)
    BY <1>1 DEF BeginRead
  <2>3. Elements(order') \subseteq Unknown'
    BY <1>1, <1>5, <2>1
  <2>4. order' # <<>> /\ calls' = FourCalls(order') /\ required' = FactoryCalls(order')
    BY <1>1, <1>4, <2>2
  <2>5. QED
    BY <2>1, <2>3, <2>4 DEF Asking
<1>9. QED
  BY <1>1, <1>4, <1>7, <1>8

LEMMA StepKeeps ==
    ASSUME ResolveInv, [Next]_vars
    PROVE  ResolveInv'
<1>1. CacheInv'
  BY StepImplements, CacheStepKeeps DEF ResolveInv
<1> SUFFICES ReadInv' /\ order' \in Seq(Addresses) /\ Asking'
  BY <1>1 DEF ResolveInv
<1>2. ASSUME NEW asked \in (SUBSET Unknown) \ {{}}, Begin(asked)
      PROVE  ReadInv' /\ order' \in Seq(Addresses) /\ Asking'
  BY <1>2, BeginAsks
<1>3. CASE Reading
  <2>1. ReadStep /\ UNCHANGED <<cacheVars, order>>
    BY <1>3 DEF Reading
  <2>2. ReadInv'
    BY <2>1, ReadStepKeeps DEF ResolveInv
  <2>3. calls' = calls /\ required' = required /\ read # "idle"
    BY <2>1 DEF ReadStep, Single, Aggregate, Divide, Recheck, Return, Asked
  <2>4. at' = at /\ Unknown' = Unknown /\ order' = order
    BY <2>1 DEF cacheVars, Unknown
  <2>5. Asking'
    BY <2>3, <2>4 DEF ResolveInv, Asking
  <2>6. QED
    BY <2>2, <2>4, <2>5 DEF ResolveInv
<1>4. CASE Finish
  BY <1>4, OverKeeps DEF Finish
<1>5. CASE Break
  <2>1. CASE at = "up"
    BY <1>5, <2>1, OverKeeps DEF Break, NetworkFails
  <2>2. CASE at # "up"
    <3>1. UNCHANGED readVars /\ order' = <<>> /\ read = "idle"
      BY <1>5, <2>2 DEF Break, ResolveInv, Asking
    <3>2. read' = "idle"
      BY <3>1 DEF readVars
    <3>3. QED
      BY <3>1, <3>2, SameRead, EmptySeq DEF ResolveInv, Asking
  <2>3. QED
    BY <2>1, <2>2
<1>6. CASE Die
  BY <1>6, OverKeeps DEF Die
<1>7. CASE Later \/ Continue
  <2>1. UNCHANGED <<readVars, order>> /\ read = "idle"
    BY <1>7 DEF Later, Load, Continue, ResolveInv, Asking
  <2>2. read' = "idle" /\ order' = order
    BY <2>1 DEF readVars
  <2>3. QED
    BY <2>1, <2>2, SameRead DEF ResolveInv, Asking
<1>8. CASE UNCHANGED vars
  <2>1. UNCHANGED readVars /\ order' = order /\ UNCHANGED cacheVars
    BY <1>8 DEF vars
  <2>2. ReadInv'
    BY <2>1, SameRead DEF ResolveInv
  <2>3. Asking'
    <3>1. read' = read /\ calls' = calls /\ required' = required /\ at' = at /\ Unknown' = Unknown
      BY <2>1 DEF readVars, cacheVars, Unknown
    <3>2. QED
      BY <2>1, <3>1 DEF ResolveInv, Asking
  <2>4. QED
    BY <2>1, <2>2, <2>3 DEF ResolveInv
<1>9. QED
  BY <1>2, <1>3, <1>4, <1>5, <1>6, <1>7, <1>8 DEF Next

(* The strengthening holds at first and is kept by every step.             *)
THEOREM ResolveInductive == Spec => []ResolveInv
<1>1. Init => ResolveInv
  <2> SUFFICES ASSUME Init PROVE ResolveInv
    OBVIOUS
  <2>1. CacheInv
    BY InitKeeps DEF Init
  <2>2. Len(<<>>) = 0 /\ \A S : <<>> \in Seq(S)
    BY EmptySeq
  <2>3. ReadType
    BY <2>2, MulticallConfig DEF Init, ReadInit, ReadType, Positions
  <2>4. ReadInv
    BY <2>2, <2>3 DEF Init, ReadInit, ReadInv
  <2>5. QED
    BY <2>1, <2>2, <2>4 DEF Init, ReadInit, ResolveInv, Asking
<1>2. ResolveInv /\ [Next]_vars => ResolveInv'
  BY StepKeeps
<1>3. QED
  BY <1>1, <1>2, PTL DEF Spec

(* The variables keep their types.                                         *)
THEOREM ResolveTypeCorrect == Spec => []TypeOK
<1>1. ResolveInv => TypeOK
  BY DEF ResolveInv, CacheInv, ReadInv, TypeOK
<1>2. QED
  BY <1>1, ResolveInductive, PTL

(* resolve with its reads through Multicall does what PoolCache says it    *)
(* does: whatever the chunks, the failed calls and the garbage, an address *)
(* is only misread beside a contract that eats the gas of the request      *)
(* (cache.py:111-155 over multicall.py:60-93).                             *)
THEOREM ResolveImplementsCache == Spec => CacheSpec
<1>1. Init => CacheInit
  BY DEF Init
<1>2. ResolveInv /\ [Next]_vars => [CacheNext]_cacheVars
  BY StepImplements
<1>3. QED
  BY <1>1, <1>2, ResolveInductive, PTL DEF Spec, CacheSpec

(* A success is never taken from another contract (multicall.py:60-86).    *)
THEOREM ReadsAligned == Spec => []Aligned
<1>1. ResolveInv => Aligned
  BY ReadDone DEF ResolveInv
<1>2. QED
  BY <1>1, ResolveInductive, PTL

(* factory() is not misjudged, whatever shared its chunk                   *)
(* (cache.py:111-119).                                                     *)
THEOREM RequiredCallsRight == Spec => []RequiredRight
<1>1. ResolveInv => RequiredRight
  BY ReadDone DEF ResolveInv
<1>2. QED
  BY <1>1, ResolveInductive, PTL

(* A bad contract does no harm across chunks, or backwards                 *)
(* (multicall.py:60-86).                                                   *)
THEOREM HarmIsLocal == Spec => []StarvedOnlyBehindEater
<1>1. ResolveInv => StarvedOnlyBehindEater
  BY ReadDone DEF ResolveInv
<1>2. QED
  BY <1>1, ResolveInductive, PTL

(* Only real pools of the configured factories with a configured quote     *)
(* token are watched, and all of them but those asked beside an eater      *)
(* (README.md:25-29; cache.py:57-78, 89-109, 121-191).                     *)
THEOREM WatchesRightly == Spec => []WatchedRightly
BY ResolveImplementsCache, CacheWatchesRightly, PTL

(* The decimals of the tokens of every watched pool are known, or known to *)
(* be unreadable (cache.py:72-74, 181-183, 210-213).                       *)
THEOREM KnowsMetadata == Spec => []MetadataKnown
BY ResolveImplementsCache, CacheKnowsMetadata, PTL

-----------------------------------------------------------------------------
(* A step of the cache that asks for nothing leaves the bounds alone.      *)
LEMMA SameCosts ==
    ASSUME CostInv, UNCHANGED readVars
    PROVE  CostInv'
<1>1. calls' = calls /\ UNCHANGED <<chunks, results, read, requests, garbage>>
  BY DEF readVars
<1>2. Parts' = Parts /\ AllEaters' = AllEaters /\ Positions' = Positions
  BY <1>1, SameCalls
<1>3. QED
  BY <1>1, <1>2 DEF CostInv, Twofold, Dearest, Members, Size

(* Every step of resolve keeps to the bounds on the requests of a read.    *)
LEMMA StepCosts ==
    ASSUME ResolveInv, CostInv, [Next]_vars
    PROVE  CostInv'
<1>1. ASSUME NEW asked \in (SUBSET Unknown) \ {{}}, Begin(asked) PROVE CostInv'
  <2>1. PICK s \in Sorted(asked) : BeginRead(FourCalls(s), FactoryCalls(s))
    BY <1>1 DEF Begin
  <2>2. s \in Seq(Addresses) /\ s # <<>>
    BY <2>1, SortedIs
  <2>3. FourCalls(s) \in Seq(Behaviour) /\ FourCalls(s) # <<>>
    BY <2>2, CallsOf
  <2>4. QED
    BY <2>1, <2>3, BeginCosts
<1>2. CASE Reading
  BY <1>2, ReadStepCosts DEF Reading, ResolveInv
<1>3. ASSUME EndRead PROVE CostInv'
  BY <1>3 DEF EndRead, CostInv
<1>4. CASE Finish
  BY <1>3, <1>4 DEF Finish
<1>5. CASE Break
  BY <1>3, <1>5, SameCosts DEF Break, NetworkFails
<1>6. CASE Die
  BY <1>3, <1>6 DEF Die
<1>7. CASE Later \/ Continue
  BY <1>7, SameCosts DEF Later, Continue
<1>8. CASE UNCHANGED vars
  BY <1>8, SameCosts DEF vars
<1>9. QED
  BY <1>1, <1>2, <1>4, <1>5, <1>6, <1>7, <1>8 DEF Next

THEOREM CostInductive == Spec => []CostInv
<1>1. Init => CostInv
  BY DEF Init, ReadInit, CostInv
<1>2. ResolveInv /\ CostInv /\ [Next]_vars => CostInv'
  BY StepCosts
<1>3. QED
  BY <1>1, <1>2, ResolveInductive, PTL DEF Spec

(* One bad call costs at most two requests for every halving of a chunk    *)
(* more than the chunks do, however large they are and wherever it stands  *)
(* (multicall.py:82-84: about 2 log2(N), not N).                           *)
THEOREM BadCallIsCheap == Spec => []OneBadCallIsCheap
<1>1. ResolveInv /\ CostInv => OneBadCallIsCheap
  BY CostDone DEF ResolveInv
<1>2. QED
  BY <1>1, ResolveInductive, CostInductive, PTL

(* However many calls are bad and answers cannot be decoded, the chunks of *)
(* a read take fewer than two requests a call (multicall.py:60-93).        *)
THEOREM ReadsEnd == Spec => []UnderTwoACall
<1>1. ResolveInv /\ CostInv => UnderTwoACall
  BY CostDone DEF ResolveInv
<1>2. QED
  BY <1>1, ResolveInductive, CostInductive, PTL
=============================================================================
