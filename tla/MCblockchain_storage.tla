------------------------ MODULE MCblockchain_storage ------------------------
(***************************************************************************)
(* A small block tree for blockchain_storage: two branches that grow from  *)
(* a checkpointed block and spend the same key image.                      *)
(*                                                                         *)
(*   g - a1 - b2 - b3 - b4      b2 has t1, b3 has t3 (spends t1's output)  *)
(*   |    |     \                                                          *)
(*   |    |      d3             d3 has t2 (same key image as t1)           *)
(*   x1    \ c2 - c3 - c4 - c5  c2 may have t2                             *)
(*                                                                         *)
(* A run has some of these blocks.  The output of g is locked until there  *)
(* are two blocks.                                                         *)
(***************************************************************************)
EXTENDS blockchain_storage

CONSTANTS g, a1, b2, b3, b4, c2, c3, c4, c5, d3, x1, t1, t2, t3, k1, k2, k3,
          alice, bob, name,
          BadHeader, Future, BadReward,   \* the blocks with these verdicts
          Heavy,          \* the blocks of difficulty 2
          TimeLocked,     \* the transactions whose outputs are locked by time
          TxsOfC2,        \* <<t2>>, or <<>> for a branch without t2
          AliasCarriers   \* the transactions that register the alias

FullPrev == (g :> NoBlock) @@ (a1 :> g) @@ (x1 :> g) @@ (b2 :> a1) @@ (b3 :> b2)
            @@ (b4 :> b3) @@ (c2 :> a1) @@ (c3 :> c2) @@ (c4 :> c3) @@ (c5 :> c4)
            @@ (d3 :> b2)
FullHeight == (g :> 0) @@ (a1 :> 1) @@ (x1 :> 1) @@ (b2 :> 2) @@ (c2 :> 2) @@ (b3 :> 3)
              @@ (c3 :> 3) @@ (d3 :> 3) @@ (b4 :> 4) @@ (c4 :> 4) @@ (c5 :> 5)
MCPrev == Restrict(FullPrev, Blocks)
MCBlockHeight == Restrict(FullHeight, Blocks)

\* The coinbase of a block has the block's own name.
MCTxs == Blocks \cup {t1, t2, t3}
OtherTxs == (b2 :> <<t1>>) @@ (b3 :> <<t3>>) @@ (c2 :> TxsOfC2) @@ (d3 :> <<t2>>)
MCBlockTxs == [b \in Blocks |-> IF b \in DOMAIN OtherTxs THEN <<b>> \o OtherTxs[b] ELSE <<b>>]
MCVin == [t \in MCTxs |->
            IF t = t1 THEN <<[k_image |-> k1, offset |-> 0, key |-> g]>>
            ELSE IF t = t2 THEN <<[k_image |-> k2, offset |-> 1, key |-> a1],
                                  [k_image |-> k1, offset |-> 0, key |-> g]>>
            ELSE IF t = t3 THEN <<[k_image |-> k3, offset |-> 3, key |-> t1]>>
            ELSE <<>>]
MCUnlockTime == [t \in MCTxs |-> IF t = g THEN 2
                                 ELSE IF t \in TimeLocked THEN CURRENCY_MAX_BLOCK_NUMBER
                                 ELSE 0]
MCDifficulty == [b \in Blocks |-> IF b \in Heavy THEN 2 ELSE 1]
MCVerdict == [b \in Blocks |-> CASE b \in BadHeader -> "bad_header"
                                 [] b \in Future -> "future"
                                 [] b \in BadReward -> "bad_reward"
                                 [] OTHER -> "valid"]
MCAliasOf == [t \in MCTxs |->
                IF t \in AliasCarriers
                THEN [m_alias |-> name, m_address |-> IF t = c2 THEN bob ELSE alice,
                      m_sign |-> null_sig]
                ELSE NoAlias]

T2 == <<t2>>
NoTxs == <<>>

CheckpointA1 == 1 :> a1
CheckpointC3 == 3 :> c3

=============================================================================
