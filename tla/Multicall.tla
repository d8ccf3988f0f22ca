------------------------------ MODULE Multicall ------------------------------
(***************************************************************************)
(* chain/multicall.py, and pools/cache.py's _calls_with_fallback on top of *)
(* it: many reads of contracts in few requests.                            *)
(*                                                                         *)
(* A request whose calls include one that eats all the gas reverts, or     *)
(* comes back with calls failed that would have succeeded alone.  A chunk  *)
(* that reverts, or whose answer cannot be decoded, is cut in two.         *)
(*                                                                         *)
(* The module is a component: its caller begins a read and takes the       *)
(* results, or learns that the network failed.                             *)
(***************************************************************************)
EXTENDS Integers, Sequences, FiniteSets

CONSTANTS
    ChunkSize,      \* rpc.multicall_chunk
    MaxGarbage      \* bound: answers of a read that cannot be decoded

ASSUME MulticallConfig == ChunkSize \in Nat \ {0} /\ MaxGarbage \in Nat

VARIABLES
    calls,        \* calls[i]: how the contract of call i behaves
    required,     \* positions of the calls that are asked again
    chunks,       \* chunks still to be asked, the next one first
    results,      \* results[i]: success of call i
    recheck,      \* required calls still to be asked again
    read,         \* where _calls_with_fallback is
    requests,     \* ghost: requests of the chunks
    garbage       \* undecodable answers still allowed

readVars == <<calls, required, chunks, results, recheck, read, requests, garbage>>

Positions == 1 .. Len(calls)
Chunk(a, b) == [from |-> a, to |-> b]
Size(c) == c.to - c.from + 1
Members(c) == c.from .. c.to

ReadType ==
    /\ calls \in Seq({"good", "reverts", "eater"})
    /\ required \subseteq Positions
    /\ chunks \in Seq([from : Positions, to : Positions])
    /\ results \in Seq(BOOLEAN) /\ Len(results) <= Len(calls)
    /\ recheck \subseteq required
    /\ read \in {"idle", "chunks", "recheck", "done"}
    /\ requests \in Nat
    /\ garbage \in 0 .. MaxGarbage

Chunks(n) ==
    [i \in 1 .. (n + ChunkSize - 1) \div ChunkSize |->
        LET last == i * ChunkSize
        IN  Chunk(last - ChunkSize + 1, IF last < n THEN last ELSE n)]

ReadInit ==
    /\ calls = <<>> /\ required = {}
    /\ chunks = <<>> /\ results = <<>> /\ recheck = {}
    /\ read = "idle"
    /\ requests = 0 /\ garbage = MaxGarbage

(* Mutant: all calls in one request.                                       *)
BeginReadWhole(c, req) ==
    /\ read = "idle"
    /\ calls' = c /\ required' = req
    /\ chunks' = <<Chunk(1, Len(c))>> /\ results' = <<>> /\ recheck' = {}
    /\ read' = "chunks"
    /\ requests' = 0 /\ garbage' = MaxGarbage

(* The caller awaits _calls_with_fallback; c is never empty.               *)
BeginRead(c, req) ==
    /\ read = "idle"
    /\ calls' = c /\ required' = req
    /\ chunks' = Chunks(Len(c)) /\ results' = <<>> /\ recheck' = {}
    /\ read' = "chunks"
    /\ requests' = 0 /\ garbage' = MaxGarbage

(* The caller has taken the results, or an exception ends the read.        *)
EndRead ==
    /\ calls' = <<>> /\ required' = {}
    /\ chunks' = <<>> /\ results' = <<>> /\ recheck' = {}
    /\ read' = "idle"
    /\ requests' = 0 /\ garbage' = MaxGarbage

Succeeds(i) == calls[i] = "good"
Eaters(c) == {i \in Members(c) : calls[i] = "eater"}

(* What an aggregate may say of its calls: those after an eater may fail.  *)
Answers(c) ==
    {a \in [1 .. Size(c) -> BOOLEAN] :
        \A k \in 1 .. Size(c) :
            /\ a[k] => Succeeds(c.from + k - 1)
            /\ ~a[k] => ~Succeeds(c.from + k - 1) \/ \E e \in Eaters(c) : e < c.from + k - 1}

(* The chunks that are left; after the last one the failed required calls. *)
GoOn(left, answers) ==
    /\ chunks' = left
    /\ results' = results \o answers
    /\ IF left = <<>>
       THEN /\ read' = "recheck"
            /\ recheck' = {i \in required : ~results'[i]}
       ELSE UNCHANGED <<read, recheck>>

Asked == read = "chunks" /\ requests' = requests + 1 /\ UNCHANGED <<calls, required>>

(* call_single, of a chunk of one.                                         *)
Single ==
    /\ Asked
    /\ Size(chunks[1]) = 1
    /\ GoOn(Tail(chunks), <<Succeeds(chunks[1].from)>>)
    /\ UNCHANGED garbage

Aggregate ==
    /\ Asked
    /\ Size(chunks[1]) > 1
    /\ \E a \in Answers(chunks[1]) : GoOn(Tail(chunks), a)
    /\ UNCHANGED garbage

(* Mutant: the halves trade places.                                        *)
HalvesSwapped(c) ==
    <<Chunk(c.from + Size(c) \div 2, c.to), Chunk(c.from, c.from + Size(c) \div 2 - 1)>>

(* Mutant: one call is taken off at a time.                                *)
HalvesUneven(c) == <<Chunk(c.from, c.from), Chunk(c.from + 1, c.to)>>

Halves(c) ==
    <<Chunk(c.from, c.from + Size(c) \div 2 - 1), Chunk(c.from + Size(c) \div 2, c.to)>>

(* CallReverted, DecodingError or a wrong number of results.               *)
Refused ==
    \/ Eaters(chunks[1]) # {} /\ UNCHANGED garbage
    \/ garbage > 0 /\ garbage' = garbage - 1

Divide ==
    /\ Asked
    /\ Size(chunks[1]) > 1
    /\ Refused
    /\ GoOn(Halves(chunks[1]) \o Tail(chunks), <<>>)

(* Mutant: a call that failed inside its chunk is not asked again.         *)
RecheckTrusting ==
    /\ read = "recheck" /\ recheck # {}
    /\ \E i \in recheck : recheck' = recheck \ {i}
    /\ UNCHANGED <<calls, required, chunks, results, read, requests, garbage>>

Recheck ==
    /\ read = "recheck" /\ recheck # {}
    /\ \E i \in recheck :
          /\ results' = [results EXCEPT ![i] = Succeeds(i)]
          /\ recheck' = recheck \ {i}
    /\ UNCHANGED <<calls, required, chunks, read, requests, garbage>>

Return ==
    /\ read = "recheck" /\ recheck = {}
    /\ read' = "done"
    /\ UNCHANGED <<calls, required, chunks, results, recheck, requests, garbage>>

(* RpcError, of any request: the caller learns that it knows nothing.      *)
NetworkFails ==
    /\ read = "chunks" \/ recheck # {}
    /\ EndRead

ReadStep == Single \/ Aggregate \/ Divide \/ Recheck \/ Return

-----------------------------------------------------------------------------
(* Each result is that of the call in its place: a success is never taken  *)
(* from another contract, however the chunks were cut, and there are as    *)
(* many as calls (multicall.py:60-86; the caller reads them by position,   *)
(* cache.py:141, 172, 200).                                                *)
Aligned ==
    read = "done" =>
        /\ Len(results) = Len(calls)
        /\ \A i \in Positions : results[i] => Succeeds(i)

(* A call that must not be misjudged is not, whatever shared its chunk:    *)
(* factory(), the factory's own answer, decimals() (cache.py:111-119).     *)
RequiredRight == read = "done" => \A i \in required : results[i] = Succeeds(i)

(* A call that would have succeeded is reported failed only when it need   *)
(* not be right and a call before it in its own chunk ate the gas: a bad   *)
(* contract does no harm across chunks or backwards (multicall.py:60-86).  *)
StarvedOnlyBehindEater ==
    read = "done" =>
        \A i \in Positions :
            Succeeds(i) /\ ~results[i] =>
                /\ i \notin required
                /\ \E k \in DOMAIN Chunks(Len(calls)) :
                      LET c == Chunks(Len(calls))[k]
                      IN  i \in Members(c) /\ \E e \in Eaters(c) : e < i

(* multicall.py:82-84: one bad call costs about 2 log2(N) requests more,   *)
(* not N: at every halving it is asked for with its half and the other.    *)
Log2Up[n \in 0 .. ChunkSize] == IF n <= 1 THEN 0 ELSE 1 + Log2Up[(n + 1) \div 2]
OneBadCallIsCheap ==
    read = "done" /\ Cardinality(Eaters(Chunk(1, Len(calls)))) = 1 /\ garbage = MaxGarbage =>
        requests <= Len(Chunks(Len(calls))) + 2 * Log2Up[ChunkSize]
=============================================================================
