------------------------------ MODULE PoolCache ------------------------------
(***************************************************************************)
(* pools/cache.py: what the bot knows of pools and tokens, in memory and   *)
(* in the pools and tokens tables of its database.                         *)
(*                                                                         *)
(* The steps of resolve that are apart in time are apart here: the reads,  *)
(* the metadata of new tokens with their commit, the verdicts with theirs. *)
(* Reads fail, writes fail, the process dies, and a restart may come with  *)
(* another configuration.  What contracts say never changes, but a pool    *)
(* may be misread beside a contract that eats the gas of a request: how    *)
(* that comes about is module Resolve's.                                   *)
(***************************************************************************)
EXTENDS Integers, FiniteSets, Functions

CONSTANTS
    Factory(_),     \* the factory a contract claims, by address
    Pair(_),        \* the set of its two tokens
    Genuine(_),     \* the factory confirms it, and its answers make sense
    Readable(_),    \* decimals() of a token can be read
    Eater(_),       \* one of its functions eats all the gas it is given
    Addresses,      \* contracts that emit events of pools
    Configs,        \* configurations: their factories and quote tokens
    Failures        \* bound: reads and writes that fail, deaths, restarts

Tokens == (UNION {Pair(a) : a \in Addresses}) \cup (UNION {c.quotes : c \in Configs})

ASSUME PoolCacheConfig ==
    /\ Failures \in Nat
    /\ \A a \in Addresses : Cardinality(Pair(a)) = 2 /\ (Genuine(a) => ~Eater(a))
    /\ \A t \in Tokens : Readable(t) \in BOOLEAN

VARIABLES
    config,       \* the configuration of this run
    pools,        \* PoolCache.pools: status and what is known of each pool
    tokens,       \* PoolCache.tokens: whether decimals are known, by token
    dbPools,      \* the pools table
    dbTokens,     \* the tokens table
    at,           \* where the engine is
    found,        \* what resolve found out about the addresses it works on
    beside,       \* ghost: addresses last asked together with an eater
    failures      \* failures still allowed

cacheVars == <<config, pools, tokens, dbPools, dbTokens, at, found, beside, failures>>

Statuses == {"tracked", "quote_pair", "ignored_factory", "ignored_fake", "ignored_no_quote", "ignored_broken"}
Watched == {"tracked", "quote_pair"}
NoTokens == {}
Infos == [status : Statuses, factory : {Factory(a) : a \in Addresses}, pair : {NoTokens} \cup {Pair(a) : a \in Addresses}]

CacheType ==
    /\ config \in Configs
    /\ DOMAIN pools \subseteq Addresses /\ \A a \in DOMAIN pools : pools[a] \in Infos
    /\ DOMAIN dbPools \subseteq Addresses /\ \A a \in DOMAIN dbPools : dbPools[a] \in Infos
    /\ DOMAIN tokens \subseteq Tokens /\ \A t \in DOMAIN tokens : tokens[t] \in BOOLEAN
    /\ DOMAIN dbTokens \subseteq DOMAIN tokens \/ at = "down"
    /\ at \in {"down", "starting", "up", "metadata", "verdict"}
    /\ DOMAIN found \subseteq Addresses /\ \A a \in DOMAIN found : found[a] \in Infos
    /\ beside \subseteq Addresses
    /\ failures \in 0 .. Failures

CacheInit ==
    /\ config \in Configs
    /\ pools = <<>> /\ tokens = <<>> /\ dbPools = <<>> /\ dbTokens = <<>>
    /\ at = "down" /\ found = <<>> /\ beside = {}
    /\ failures = Failures

Fault == failures > 0 /\ failures' = failures - 1

-----------------------------------------------------------------------------
Quotes(pair, cfg) == pair \cap cfg.quotes
Target(pair, cfg) == CHOOSE t \in pair : t \notin cfg.quotes

(* _classify: the verdict that needs no read.                              *)
Classified(info, cfg, known) ==
    IF info.status = "ignored_fake" \/ info.pair = NoTokens THEN info
    ELSE [info EXCEPT !.status =
            IF info.factory \notin cfg.factories THEN "ignored_factory"
            ELSE IF Quotes(info.pair, cfg) = info.pair THEN "quote_pair"
            ELSE IF Quotes(info.pair, cfg) = {} THEN "ignored_no_quote"
            ELSE LET t == Target(info.pair, cfg)
                 IN  IF t \in DOMAIN known /\ ~known[t] THEN "ignored_broken" ELSE "tracked"]

(* Mutant: every row is taken as it is.                                    *)
RowsKeptAll(cfg) == DOMAIN dbPools

(* Rows of a factory that has since been allowed are resolved anew.        *)
RowsKept(cfg) ==
    {a \in DOMAIN dbPools : ~ (dbPools[a].status = "ignored_factory" /\ dbPools[a].factory \in cfg.factories)}

(* Mutant: the tokens table is not read.                                   *)
LoadPoolsOnly(cfg) ==
    /\ at = "down"
    /\ config' = cfg
    /\ tokens' = <<>>
    /\ pools' = [a \in RowsKept(cfg) |-> Classified(dbPools[a], cfg, <<>>)]
    /\ at' = "starting"
    /\ UNCHANGED <<dbPools, dbTokens, found, beside, failures>>

(* PoolCache.__init__, with the configuration the process is started with. *)
Load(cfg) ==
    /\ at = "down"
    /\ config' = cfg
    /\ tokens' = dbTokens
    /\ pools' = [a \in RowsKept(cfg) |-> Classified(dbPools[a], cfg, dbTokens)]
    /\ at' = "starting"
    /\ UNCHANGED <<dbPools, dbTokens, found, beside, failures>>

(* Mutant: only the quote tokens are made sure of.                         *)
PendingQuotes == config.quotes

(* The tokens ensure_tokens is called with by start().                     *)
Pending == config.quotes \cup UNION {pools[a].pair : a \in {b \in DOMAIN pools : pools[b].status \in Watched}}

WithMetadata(known, new) ==
    [t \in DOMAIN known \cup new |-> IF t \in DOMAIN known THEN known[t] ELSE Readable(t)]

(* _resolve_tokens: memory first, then the table; a token that memory has  *)
(* is not written again.                                                   *)
ReadTokens(new) == tokens' = WithMetadata(tokens, new)
SaveTokens(new) == dbTokens' = WithMetadata(dbTokens, new \ DOMAIN tokens)

(* Everything in memory goes; the engine is made anew.                     *)
Forget ==
    /\ at' = "down"
    /\ pools' = <<>> /\ tokens' = <<>> /\ found' = <<>>
    /\ UNCHANGED <<config, dbPools, dbTokens, beside>>

(* engine.start; the ETH/USD pool it resolves next is one of the addresses *)
(* that Ask may begin with.                                                *)
Start ==
    /\ at = "starting"
    /\ ReadTokens(Pending) /\ SaveTokens(Pending)
    /\ at' = "up"
    /\ UNCHANGED <<config, pools, dbPools, found, beside, failures>>

(* A death, or a start that fails.                                         *)
Stop == at # "down" /\ Fault /\ Forget

-----------------------------------------------------------------------------
Fake(a) == [status |-> "ignored_fake", factory |-> Factory(a), pair |-> NoTokens]

(* What the contracts' own answers say of an address.                      *)
Sound(a) ==
    IF Factory(a) \notin config.factories
    THEN [status |-> "ignored_factory", factory |-> Factory(a), pair |-> NoTokens]
    ELSE IF Genuine(a) THEN [status |-> "tracked", factory |-> Factory(a), pair |-> Pair(a)]
    ELSE Fake(a)

BesideEater(a, asked) == \E b \in asked \ {a} : Eater(b)

(* What steps 1 and 2 of resolve may find: token0(), token1() and fee()    *)
(* are not asked again when they failed beside an eater.                   *)
Findings(a, asked) ==
    {Sound(a)} \cup (IF Factory(a) \in config.factories /\ BesideEater(a, asked) THEN {Fake(a)} ELSE {})

Unknown == Addresses \ DOMAIN pools

(* The first two steps of resolve leave f about the addresses asked.       *)
Learn(asked, f) ==
    /\ at = "up" /\ at' = "metadata"
    /\ found' = f
    /\ beside' = (beside \ asked) \cup {a \in asked : BesideEater(a, asked)}
    /\ UNCHANGED <<config, pools, tokens, dbPools, dbTokens, failures>>

(* A block with events of unknown addresses.                               *)
Ask ==
    /\ at = "up" /\ at' = "metadata"
    /\ \E asked \in (SUBSET Unknown) \ {{}} :
          \E f \in [asked -> UNION {Findings(a, asked) : a \in asked}] :
             /\ \A a \in asked : f[a] \in Findings(a, asked)
             /\ Learn(asked, f)

(* RpcError: nothing is remembered, the block comes again.                 *)
ReadFails ==
    /\ at \in {"up", "metadata"}
    /\ Fault
    /\ at' = "up" /\ found' = <<>>
    /\ UNCHANGED <<config, pools, tokens, dbPools, dbTokens, beside>>

NewTokens ==
    UNION {found[a].pair :
        a \in {b \in DOMAIN found : found[b].status = "tracked" /\ Quotes(found[b].pair, config) # {}}}

Metadata ==
    /\ at = "metadata"
    /\ ReadTokens(NewTokens)
    /\ \/ SaveTokens(NewTokens) /\ at' = "verdict" /\ UNCHANGED <<found, failures>>
       \/ /\ NewTokens \ DOMAIN tokens # {}
          /\ Fault
          /\ at' = "up" /\ found' = <<>>
          /\ UNCHANGED dbTokens
    /\ UNCHANGED <<config, pools, dbPools, beside>>

Verdict(a) == IF found[a].status = "tracked" THEN Classified(found[a], config, tokens) ELSE found[a]

Overlaid(f, g) == [a \in DOMAIN f \cup DOMAIN g |-> IF a \in DOMAIN g THEN g[a] ELSE f[a]]

(* Memory first; the commit may fail.                                      *)
Decide ==
    /\ at = "verdict"
    /\ LET verdicts == [a \in DOMAIN found |-> Verdict(a)]
       IN  /\ pools' = Overlaid(pools, verdicts)
           /\ \/ dbPools' = Overlaid(dbPools, verdicts) /\ UNCHANGED failures
              \/ Fault /\ UNCHANGED dbPools
    /\ at' = "up" /\ found' = <<>>
    /\ UNCHANGED <<config, tokens, dbTokens, beside>>

(* Nothing is unknown any more.                                            *)
NothingToAsk == at = "up" /\ Unknown = {} /\ UNCHANGED cacheVars

Deliberate == Start \/ Metadata \/ Decide

CacheNext ==
    \/ \E cfg \in Configs : Load(cfg)
    \/ Stop \/ Ask \/ ReadFails \/ Deliberate
    \/ NothingToAsk

CacheSpec == CacheInit /\ [][CacheNext]_cacheVars

-----------------------------------------------------------------------------
(* What the contracts and the configuration say of an address.             *)
Truth(a) ==
    IF Factory(a) \notin config.factories THEN "ignored_factory"
    ELSE IF ~Genuine(a) THEN "ignored_fake"
    ELSE IF Quotes(Pair(a), config) = Pair(a) THEN "quote_pair"
    ELSE IF Quotes(Pair(a), config) = {} THEN "ignored_no_quote"
    ELSE IF Readable(Target(Pair(a), config)) THEN "tracked" ELSE "ignored_broken"

Ready == at \in {"up", "metadata", "verdict"}

(* Whatever configurations the rows were written under, and whatever was   *)
(* lost in between: only real pools of the configured factories with a     *)
(* configured quote token are watched, and all of them are, but those that *)
(* were asked together with an eater of gas (README.md:25-29;              *)
(* cache.py:57-78, 89-109, 132-155).                                       *)
WatchedRightly ==
    Ready => \A a \in DOMAIN pools :
        LET watched == pools[a].status \in Watched \cup {"ignored_broken"}
            real == Truth(a) \in Watched \cup {"ignored_broken"}
        IN  (watched => real) /\ (real => watched \/ a \in beside)

(* The decimals of both tokens of a watched pool are known, or known to be *)
(* unreadable: its events would be passed over in silence otherwise        *)
(* (cache.py:72-74, 181-183, 210-213; engine.py:97-99, 173-175).           *)
MetadataKnown ==
    Ready => \A a \in DOMAIN pools : pools[a].status \in Watched => pools[a].pair \subseteq DOMAIN tokens

(* README.md:28-29: tokens without decimals() are cached as ignored.       *)
BrokenIgnored ==
    Ready => \A a \in DOMAIN pools : Truth(a) = "ignored_broken" => pools[a].status = "ignored_broken"
=============================================================================
