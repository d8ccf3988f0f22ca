------------------------------- MODULE Resolve -------------------------------
(***************************************************************************)
(* pools/cache.py: resolve with its first read spelled out.  The functions *)
(* factory(), token0(), token1() and fee() of all unknown addresses of a   *)
(* block go through Multicall, four calls an address in alphabetical       *)
(* order, and the results are told apart by position.  The rest of         *)
(* PoolCache is as it is; that module is what this one implements.         *)
(*                                                                         *)
(* The second read (getPair, getPool) asks every call again that fails,    *)
(* and asks trusted contracts: by RequiredRight it is Genuine(a).          *)
(***************************************************************************)
EXTENDS PoolCache, Multicall

CONSTANTS
    Contract(_),      \* how the four functions of an address behave
    V3(_),            \* its factory is a V3 factory
    Rank(_),          \* the place of an address in alphabetical order
    MaxUnknown        \* bound: unknown addresses of one block

Behaviours == {"good", "reverts", "eater"}

ASSUME ResolveConfig ==
    /\ MaxUnknown \in Nat \ {0}
    /\ IsFiniteSet(Addresses)
    /\ \A a \in Addresses :
          /\ Rank(a) \in Nat /\ \A b \in Addresses : Rank(a) = Rank(b) => a = b
          /\ Contract(a) \in [1 .. 4 -> Behaviours]
          /\ Eater(a) <=> \E k \in 1 .. 4 : Contract(a)[k] = "eater"
          /\ Genuine(a) => \A k \in 1 .. IF V3(a) THEN 4 ELSE 3 : Contract(a)[k] = "good"
          /\ Contract(a)[1] # "good" => \A c \in Configs : Factory(a) \notin c.factories

VARIABLE order    \* resolve's todo: the addresses it asks, in their order

vars == <<cacheVars, readVars, order>>

Elements(s) == {s[i] : i \in 1 .. Len(s)}

TypeOK == CacheType /\ ReadType /\ order \in Seq(Addresses)

Init == CacheInit /\ ReadInit /\ order = <<>>

-----------------------------------------------------------------------------
Address(i) == (i - 1) \div 4 + 1
Function(i) == ((i - 1) % 4) + 1

FourCalls(asked) == [i \in 1 .. 4 * Len(asked) |-> Contract(asked[Address(i)])[Function(i)]]

(* Mutant: token0() instead of factory() is the call that is asked again.  *)
FactoryCallsShifted(asked) == {i \in 1 .. 4 * Len(asked) : Function(i) = 2}

FactoryCalls(asked) == {i \in 1 .. 4 * Len(asked) : Function(i) = 1}

(* sorted(...)                                                             *)
Sorted(asked) ==
    {s \in [1 .. Cardinality(asked) -> asked] : \A i, j \in DOMAIN s : i < j => Rank(s[i]) < Rank(s[j])}

(* A block with events of unknown addresses.                               *)
Begin(asked) ==
    /\ at = "up"
    /\ \E s \in Sorted(asked) :
          /\ order' = s
          /\ BeginRead(FourCalls(s), FactoryCalls(s))
    /\ UNCHANGED cacheVars

Reading == ReadStep /\ UNCHANGED <<cacheVars, order>>

(* The result of one function of the n-th address.                         *)
Result(n, k) == results[4 * (n - 1) + k]

NeedsFee(a) == V3(a)

FoundAt(n) ==
    LET a == order[n]
    IN  IF ~Result(n, 1) \/ Factory(a) \notin config.factories
        THEN [status |-> "ignored_factory", factory |-> Factory(a), pair |-> NoTokens]
        ELSE IF Result(n, 2) /\ Result(n, 3) /\ (NeedsFee(a) => Result(n, 4)) /\ Genuine(a)
        THEN [status |-> "tracked", factory |-> Factory(a), pair |-> Pair(a)]
        ELSE Fake(a)

FoundOut == [a \in Elements(order) |-> FoundAt(CHOOSE n \in 1 .. Len(order) : order[n] = a)]

Finish ==
    /\ read = "done"
    /\ Learn(Elements(order), FoundOut)
    /\ EndRead /\ order' = <<>>

(* RpcError of the first read, or of a later one.                          *)
Break ==
    /\ ReadFails
    /\ IF at = "up" THEN NetworkFails ELSE UNCHANGED readVars
    /\ order' = <<>>

Die == Stop /\ EndRead /\ order' = <<>>

Later ==
    /\ \E cfg \in Configs : Load(cfg)
    /\ UNCHANGED <<readVars, order>>

Continue == read = "idle" /\ (Deliberate \/ NothingToAsk) /\ UNCHANGED <<readVars, order>>

Next ==
    \/ \E asked \in (SUBSET Unknown) \ {{}} : Cardinality(asked) <= MaxUnknown /\ Begin(asked)
    \/ Reading \/ Finish \/ Break \/ Die \/ Later \/ Continue

Spec == Init /\ [][Next]_vars
=============================================================================
