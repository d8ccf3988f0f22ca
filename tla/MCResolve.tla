------------------------------ MODULE MCResolve ------------------------------
(***************************************************************************)
(* Four contracts: a V3 pool of a factory, a V2 pool of it with a token    *)
(* whose decimals() cannot be read, a V2 pool of another factory, and a    *)
(* contract that claims the first factory and whose fee() eats all gas; by *)
(* the alphabet it comes second.  Three configurations: the first factory, *)
(* both factories, another quote token.                                    *)
(***************************************************************************)
EXTENDS Resolve

MCFactory(a) == IF a = "other" THEN "fork" ELSE "uniswap"
MCPair(a) == CASE a = "pool" -> {"weth", "pepe"}
               [] a = "broken" -> {"pepe", "brk"}
               [] a = "other" -> {"weth", "usdc"}
               [] a = "eater" -> {"weth", "pepe"}
MCGenuine(a) == a # "eater"
MCReadable(t) == t # "brk"
MCEater(a) == a = "eater"
MCV3(a) == a = "pool"
MCContract(a) == <<"good", "good", "good",
    CASE a = "pool" -> "good" [] a = "eater" -> "eater" [] OTHER -> "reverts">>
MCRank(a) == CASE a = "broken" -> 1 [] a = "eater" -> 2 [] a = "other" -> 3 [] a = "pool" -> 4
MCAddresses == {"broken", "eater", "other", "pool"}
MCConfigs == {
    [factories |-> {"uniswap"}, quotes |-> {"weth"}],
    [factories |-> {"uniswap", "fork"}, quotes |-> {"weth", "usdc"}],
    [factories |-> {"uniswap"}, quotes |-> {"weth", "pepe"}]}
=============================================================================
