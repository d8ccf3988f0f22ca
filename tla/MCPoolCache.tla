---------------------------- MODULE MCPoolCache ------------------------------
(***************************************************************************)
(* Four contracts: two pools of a factory, the second with a token whose   *)
(* decimals() cannot be read, a pool of another factory, and a fake that   *)
(* claims the first factory.  Three configurations: the first, one with    *)
(* the other factory, one with another quote token.                        *)
(***************************************************************************)
EXTENDS PoolCache

MCFactory(a) == IF a = "other" THEN "fork" ELSE "uniswap"
MCPair(a) == CASE a = "pool" -> {"weth", "pepe"}
               [] a = "broken" -> {"pepe", "brk"}
               [] a = "other" -> {"weth", "usdc"}
               [] a = "fake" -> {"weth", "pepe"}
MCGenuine(a) == a # "fake"
MCEater(a) == FALSE
MCReadable(t) == t # "brk"
MCAddresses == {"pool", "broken", "other", "fake"}
MCConfigs == {
    [factories |-> {"uniswap"}, quotes |-> {"weth"}],
    [factories |-> {"uniswap", "fork"}, quotes |-> {"weth", "usdc"}],
    [factories |-> {"uniswap"}, quotes |-> {"weth", "pepe"}]}
=============================================================================
