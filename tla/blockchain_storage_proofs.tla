---------------------- MODULE blockchain_storage_proofs ----------------------
(***************************************************************************)
(* Proofs about blockchain_storage, for every block tree, every set of     *)
(* checkpoints and every pool.                                             *)
(***************************************************************************)
EXTENDS blockchain_storage_lemmas, TLAPS

-----------------------------------------------------------------------------
(* The steps that connect and pop a block, and the pool. *)

\* Popping the last block leaves a consistent chain that is one block shorter.
LEMMA PopBlockInv ==
  ASSUME IInv, PopBlock
  PROVE  IInv'
<1>. USE DEF IInv, TypeOK
<1>. DEFINE done == frame.ok /\ m_blocks_index # <<>> /\ Last(m_blocks_index) = frame.bl
<1>1. /\ SideTypeOK' /\ PoolTypeOK' /\ m_is_in_checkpoint_zone' \in BOOLEAN
      /\ now' \in BOOLEAN /\ unwound' \in BOOLEAN
  BY SideKept, PoolKept DEF PopBlock
<1>2. done \in BOOLEAN
  BY DEF CallTypeOK, Frames
<1>3. CallTypeOK' /\ CallsOK'
  BY <1>2, PopReturnsType, BetweenCalls DEF PopBlock
<1>4. CASE ~done
  BY <1>1, <1>3, <1>4, StoreKept, ChainKept DEF PopBlock, chainVars
<1>5. CASE done
  <2>1. m_blocks' = Front(m_blocks) /\ m_blocks_index' = Front(m_blocks_index)
    BY <1>5 DEF PopBlock
  <2>2. PICK n \in Nat \ {0} : Size = n + 1
    BY TopType DEF PopBlock, CallsOK
  <2>3. m_blocks_index # <<>> /\ Len(m_blocks_index) = n + 1
    BY <2>2, <1>5 DEF ChainConsistent, ChainTypeOK
  <2>4. /\ m_blocks' \in Seq(BlockEntry) /\ Len(m_blocks') = n
        /\ \A i \in 1..n : m_blocks'[i] = m_blocks[i]
    BY <2>1, <2>2, FrontProperties DEF ChainTypeOK, Size
  <2>5. /\ m_blocks_index' \in Seq(Blocks) /\ Len(m_blocks_index') = n
        /\ \A i \in 1..n : m_blocks_index'[i] = m_blocks_index[i]
    BY <2>1, <2>3, FrontProperties DEF ChainTypeOK
  <2>6. ChainTypeOK'
    BY <2>4, <2>5 DEF PopBlock, ChainTypeOK
  <2>7. ChainConsistent'
    <3>1. Size' = n
      BY <2>4 DEF Size
    <3>2. m_blocks_index' = [i \in 1..n |-> m_blocks'[i].bl]
      <4>1. \A i \in 1..n : m_blocks_index[i] = m_blocks[i].bl
        BY <2>2 DEF ChainConsistent
      <4>. QED
        BY <2>4, <2>5, <4>1
    <3>3. \A h \in 0..(n - 1) : BlockAt(h)' = BlockAt(h)
      BY <2>4 DEF BlockAt
    <3>. QED
      <4>1. BlockAt(0)' = Genesis
        BY <3>3 DEF ChainConsistent
      <4>2. ASSUME NEW h \in 1..(n - 1)
            PROVE  /\ BlockAt(h)' = BlockAt(h) /\ BlockAt(h - 1)' = BlockAt(h - 1)
                   /\ m_blocks'[h + 1] = m_blocks[h + 1] /\ m_blocks'[h] = m_blocks[h]
                   /\ h \in 1..(Size - 1)
        BY <2>2, <2>4, <3>3
      <4>. QED
        BY <3>1, <3>2, <4>1, <4>2 DEF ChainConsistent
  <2>. QED
    BY <1>1, <1>3, <2>6, <2>7
<1>. QED
  BY <1>4, <1>5

\* Pushing a block leaves a consistent chain that is one block longer.
LEMMA ConnectBlockInv ==
  ASSUME IInv, ConnectBlock
  PROVE  IInv'
<1>. USE DEF IInv, TypeOK
<1>1. SideTypeOK' /\ PoolTypeOK' /\ m_is_in_checkpoint_zone' \in BOOLEAN /\ now' \in BOOLEAN
  BY SideKept, PoolKept DEF ConnectBlock
<1>2. CASE Reject /\ UNCHANGED chainVars
  BY <1>1, <1>2, UnwindType, BetweenCalls, StoreKept, ChainKept DEF Reject, chainVars
<1>. DEFINE e == [bl |-> frame.bl,
                  cumulative_difficulty |-> TopDifficulty + Difficulty[frame.bl]]
<1>3. CASE /\ m_blocks_index' = Append(m_blocks_index, frame.bl)
           /\ m_blocks' = Append(m_blocks, e)
           /\ ConnectReturns(frame.caller, TRUE)
           /\ UNCHANGED <<m_transactions, m_spent_keys, m_outputs, m_aliases, unwound>>
  <2>1. frame.bl \in Blocks /\ Difficulty[frame.bl] \in Nat
    BY StorageAssumption DEF CallTypeOK, Frames
  <2>2. e \in BlockEntry /\ e.bl = frame.bl
        /\ e.cumulative_difficulty = TopDifficulty + Difficulty[frame.bl]
    BY <2>1, TopType DEF BlockEntry
  <2>. HIDE DEF e
  <2>3. PICK n \in Nat \ {0} : Size = n
    BY TopType
  <2>4. /\ m_blocks' \in Seq(BlockEntry) /\ Len(m_blocks') = n + 1 /\ m_blocks'[n + 1] = e
        /\ \A i \in 1..n : m_blocks'[i] = m_blocks[i]
    BY <1>3, <2>2, <2>3 DEF ChainTypeOK, Size
  <2>5. /\ m_blocks_index \in Seq(Blocks) /\ Len(m_blocks_index) = n
        /\ \A i \in 1..n : m_blocks_index[i] = m_blocks[i].bl
    BY <2>3 DEF ChainConsistent, ChainTypeOK
  <2>6. /\ m_blocks_index' \in Seq(Blocks) /\ Len(m_blocks_index') = n + 1
        /\ m_blocks_index'[n + 1] = frame.bl
        /\ \A i \in 1..n : m_blocks_index'[i] = m_blocks_index[i]
    BY <1>3, <2>1, <2>5
  <2>7. ChainTypeOK'
    BY <1>3, <2>4, <2>6 DEF ChainTypeOK
  <2>8. CallTypeOK' /\ CallsOK'
    BY <1>3, ConnectReturnsType, BetweenCalls
  <2>9. ChainConsistent'
    <3>1. Size' = n + 1
      BY <2>4 DEF Size
    <3>2. m_blocks_index' = [i \in 1..(n + 1) |-> m_blocks'[i].bl]
      <4>1. \A i \in 1..(n + 1) : m_blocks_index'[i] = m_blocks'[i].bl
        <5>. TAKE i \in 1..(n + 1)
        <5>1. CASE i = n + 1
          BY <5>1, <2>2, <2>4, <2>6
        <5>2. CASE i \in 1..n
          BY <5>2, <2>4, <2>5, <2>6
        <5>. QED
          BY <5>1, <5>2
      <4>. QED
        BY <2>6, <4>1
    <3>3. \A h \in 0..(n - 1) : BlockAt(h)' = BlockAt(h)
      BY <2>4 DEF BlockAt
    <3>4. BlockAt(n)' = frame.bl /\ TopBlock = BlockAt(n - 1)
          /\ TopDifficulty = m_blocks[n].cumulative_difficulty
      BY <2>2, <2>3, <2>4 DEF BlockAt, TopBlock, TopDifficulty
    <3>5. /\ Prev[frame.bl] = BlockAt(n - 1) /\ BlockHeight[frame.bl] = n
          /\ check_block(n, frame.bl)
      BY <2>3, <3>4 DEF ConnectBlock, CallsOK
    <3>6. BlockAt(0)' = Genesis
      BY <3>3 DEF ChainConsistent
    <3>7. ASSUME NEW h \in 1..n
          PROVE  /\ (Prev[BlockAt(h)] = BlockAt(h - 1))'
                 /\ (BlockHeight[BlockAt(h)] = h)'
                 /\ check_block(h, BlockAt(h))'
                 /\ (m_blocks[h + 1].cumulative_difficulty =
                        m_blocks[h].cumulative_difficulty + Difficulty[BlockAt(h)])'
      <4>1. CASE h = n
        BY <2>2, <2>4, <3>3, <3>4, <3>5, <4>1 DEF check_block
      <4>2. CASE h \in 1..(n - 1)
        <5>1. /\ BlockAt(h)' = BlockAt(h) /\ BlockAt(h - 1)' = BlockAt(h - 1)
              /\ m_blocks'[h + 1] = m_blocks[h + 1] /\ m_blocks'[h] = m_blocks[h]
              /\ h \in 1..(Size - 1)
          BY <4>2, <2>3, <2>4, <3>3
        <5>. QED
          BY <5>1 DEF ChainConsistent, check_block
      <4>. QED
        BY <4>1, <4>2
    <3>. QED
      BY <3>1, <3>2, <3>6, <3>7 DEF ChainConsistent
  <2>. QED
    BY <1>1, <1>3, <2>7, <2>8, <2>9
<1>. QED
  BY <1>2, <1>3 DEF ConnectBlock

\* Connecting one transaction of a block, or failing to, keeps the invariant.
LEMMA ConnectTransactionInv ==
  ASSUME IInv, ConnectTransaction
  PROVE  IInv'
<1>. USE DEF IInv, TypeOK
<1>. DEFINE t == BlockTxs[frame.bl][frame.n + 1]
            taken == take_tx(pool, t)
            signed == pool.transactions[t].signed /\ ~m_is_in_checkpoint_zone
<1>1. SideTypeOK' /\ m_is_in_checkpoint_zone' \in BOOLEAN /\ now' \in BOOLEAN
  BY SideKept DEF ConnectTransaction
<1>2. /\ frame \in Frames /\ frame.bl \in Blocks /\ frame.n \in Nat /\ frame.n >= 1
      /\ frame.n + 1 \in 1..Len(BlockTxs[frame.bl])
  <2>1. pc = "connect" /\ frame.n < Len(BlockTxs[frame.bl])
    BY DEF ConnectTransaction
  <2>2. frame \in Frames /\ frame.bl \in Blocks /\ frame.n \in Nat
    BY DEF CallTypeOK, Frames
  <2>3. frame.n >= 1 /\ Len(BlockTxs[frame.bl]) \in Nat
    BY <2>1, <2>2, BlockTxsType DEF CallsOK
  <2>. QED
    BY <2>1, <2>2, <2>3
<1>3. t \in Txs
  BY <1>2, BlockTxsType
<1>4. signed \in BOOLEAN /\ IsPool(taken)
  BY take_tx_type DEF PoolTypeOK
<1>5. NoAlias \in PoolAliases \cup {NoAlias}
  OBVIOUS
<1>. HIDE DEF t, taken, signed
<1>6. CASE /\ Unwind /\ UNCHANGED <<m_blocks, m_blocks_index, m_transactions, m_spent_keys, m_outputs>>
           /\ m_aliases' = m_aliases \/ m_aliases' = AliasesAfterDuplicate(t)
           /\ \/ pool' = pool \/ pool' = taken
              \/ \E ok \in BOOLEAN : pool' = add_tx(taken, t, TRUE, signed, ok, NoAlias)
           /\ UNCHANGED incoming
  <2>1. IsPool(pool')
    BY <1>3, <1>4, <1>5, <1>6, add_tx_type DEF PoolTypeOK
  <2>2. m_aliases' \in [AliasNames -> Seq(AliasInfo)]
    BY <1>3, <1>6, ProcessExtraType DEF AliasesAfterDuplicate, ChainTypeOK
  <2>3. ChainTypeOK' /\ PoolTypeOK'
    BY <1>6, <2>1, <2>2 DEF ChainTypeOK, PoolTypeOK
  <2>. QED
    BY <1>1, <1>6, <2>3, UnwindType, BetweenCalls, ChainKept
<1>7. CASE /\ pool' = taken /\ AddTransaction(t, Size, frame.n)
           /\ frame' = [frame EXCEPT !.n = @ + 1]
           /\ UNCHANGED <<m_blocks, m_blocks_index, pc, alt, sw, ret, unwound, incoming>>
  <2>1. ChainTypeOK' /\ PoolTypeOK'
    BY <1>2, <1>3, <1>4, <1>7, TopType, AddTransactionType DEF PoolTypeOK
  <2>2. frame'.bl = frame.bl /\ frame'.n = frame.n + 1
    BY <1>2, <1>7 DEF Frames
  <2>5. frame' \in Frames
    BY <1>2, <1>7 DEF Frames
  <2>3. CallTypeOK'
    BY <1>7, <2>5 DEF CallTypeOK
  <2>4. CallsOK'
    BY <1>2, <1>7, <2>2 DEF ConnectTransaction, CallsOK, Size, TopBlock, check_block
  <2>. QED
    BY <1>1, <1>7, <2>1, <2>3, <2>4, ChainKept
<1>. QED
  BY <1>6, <1>7 DEF ConnectTransaction, Reject, chainVars, t, taken, signed

\* An index that is neither beyond the chain nor beyond its block names a
\* transaction.
LEMMA TransactionByIndexType ==
  ASSUME ChainTypeOK, NEW i \in TransactionIndex, ~ReadThrows(i), ~ReadUndefined(i)
  PROVE  transactionByIndex(i) \in Txs
<1>1. i.block + 1 \in 1..Len(m_blocks) /\ i.transaction \in Nat
  BY TopType DEF TransactionIndex, ReadThrows, Size
<1>2. BlockAt(i.block) \in Blocks
  <2>1. m_blocks[i.block + 1] \in BlockEntry
    BY <1>1 DEF ChainTypeOK
  <2>. QED
    BY <2>1 DEF BlockAt, BlockEntry
<1>3. i.transaction + 1 \in 1..Len(BlockTxs[BlockAt(i.block)])
  <2>1. Len(BlockTxs[BlockAt(i.block)]) \in Nat
    BY <1>2, BlockTxsType
  <2>. QED
    BY <1>1, <2>1 DEF ReadUndefined
<1>. QED
  BY <1>2, <1>3, BlockTxsType DEF transactionByIndex

\* unprocess_blockchain_tx_extra leaves a registry of aliases.
LEMMA UnprocessExtraType ==
  ASSUME ChainTypeOK, NEW t \in Txs, unprocess_blockchain_tx_extra_ok(t)
  PROVE  unprocess_blockchain_tx_extra(t) \in [AliasNames -> Seq(AliasInfo)]
<1>1. CASE is_coinbase(t) /\ AliasOf[t] # NoAlias
  <2>. DEFINE a == AliasOf[t].m_alias
  <2>1. a \in AliasNames
    BY <1>1, StorageAssumption DEF AliasInfo
  <2>2. m_aliases[a] \in Seq(AliasInfo) /\ m_aliases[a] # <<>>
    BY <1>1, <2>1 DEF ChainTypeOK, unprocess_blockchain_tx_extra_ok, pop_alias_info_ok
  <2>3. Front(m_aliases[a]) \in Seq(AliasInfo)
    BY <2>2, FrontProperties
  <2>. QED
    BY <1>1, <2>3 DEF ChainTypeOK, unprocess_blockchain_tx_extra, pop_alias_info
<1>2. CASE ~(is_coinbase(t) /\ AliasOf[t] # NoAlias)
  BY <1>2 DEF ChainTypeOK, unprocess_blockchain_tx_extra
<1>. QED
  BY <1>1, <1>2

\* The loop over the transactions of a block updates its locals within their type.
LEMMA FrameUpdate ==
  ASSUME NEW f \in Frames, NEW n \in Nat, NEW ok \in BOOLEAN
  PROVE  [f EXCEPT !.n = n, !.ok = ok] \in Frames
  BY DEF Frames

\* Purging one transaction of a block, or failing to, keeps the invariant.
LEMMA PurgeTransactionInv ==
  ASSUME IInv, PurgeTransaction
  PROVE  IInv'
<1>. USE DEF IInv, TypeOK
<1>. DEFINE t == BlockTxs[frame.bl][frame.n]
            x == transactionByIndex(m_transactions[t])
            signed == ~is_in_checkpoint_zone(m_transactions[t].block)
            Found == /\ t \in DOMAIN m_transactions /\ ~ReadThrows(m_transactions[t])
                     /\ ~ReadUndefined(m_transactions[t])
<1>1. /\ SideTypeOK' /\ ChainConsistent' /\ UNCHANGED <<m_blocks, m_blocks_index, incoming>>
      /\ m_is_in_checkpoint_zone' \in BOOLEAN /\ now' \in BOOLEAN
  BY SideKept, ChainKept DEF PurgeTransaction
<1>2. ASSUME Found
      PROVE  x \in Txs
  BY <1>2, TransactionByIndexType DEF ChainTypeOK
<1>3. signed \in BOOLEAN
  OBVIOUS
<1>4. m_spent_keys' \subseteq KeyImages
  BY DEF PurgeTransaction, purge_transaction_keyimages_from_blockchain, ChainTypeOK
<1>5. m_aliases' \in [AliasNames -> Seq(AliasInfo)]
  <2>1. \/ m_aliases' = m_aliases
        \/ /\ Found /\ unprocess_blockchain_tx_extra_ok(x)
           /\ m_aliases' = unprocess_blockchain_tx_extra(x)
    BY DEF PurgeTransaction
  <2>. QED
    BY <1>2, <2>1, UnprocessExtraType DEF ChainTypeOK
<1>6. m_outputs' \in Seq(TransactionIndex)
  <2>1. \/ m_outputs' = m_outputs
        \/ /\ \E undefined \in Undefined : pop_transaction_from_global_index(t, undefined) = "ok"
           /\ m_outputs' = Front(m_outputs)
    BY DEF PurgeTransaction
  <2>2. ASSUME NEW undefined \in Undefined, m_outputs = <<>>
        PROVE  pop_transaction_from_global_index(t, undefined) # "ok"
    BY <2>2 DEF pop_transaction_from_global_index
  <2>. QED
    BY <2>1, <2>2, FrontProperties DEF ChainTypeOK
<1>7. /\ DOMAIN m_transactions' \subseteq Txs
      /\ m_transactions' \in [DOMAIN m_transactions' -> TransactionIndex]
  <2>1. \/ m_transactions' = m_transactions
        \/ m_transactions' = Restrict(m_transactions, DOMAIN m_transactions \ {t})
    BY DEF PurgeTransaction
  <2>. QED
    BY <2>1 DEF ChainTypeOK, Restrict
<1>8. PoolTypeOK'
  <2>1. \/ pool' = pool
        \/ /\ Found
           /\ \E ok \in BOOLEAN : pool' = add_tx(pool, x, TRUE, signed, ok, NoAlias)
    BY DEF PurgeTransaction
  <2>2. IsPool(pool')
    <3>. HIDE DEF x, signed, Found
    <3>. QED
      BY <1>2, <1>3, <2>1, add_tx_type DEF PoolTypeOK
  <2>. QED
    BY <1>1, <2>2 DEF PoolTypeOK
<1>9. CallTypeOK' /\ CallsOK' /\ unwound' \in BOOLEAN
  <2>1. CASE Unwind
    BY <2>1, UnwindType, BetweenCalls
  <2>2. ASSUME NEW ok \in BOOLEAN, frame' = [frame EXCEPT !.n = @ - 1, !.ok = @ /\ ok],
               UNCHANGED <<pc, alt, sw, ret, unwound>>
        PROVE  CallTypeOK' /\ CallsOK' /\ unwound' \in BOOLEAN
    <3>1. /\ frame \in Frames /\ frame.n \in Nat \ {0} /\ frame.bl \in Blocks
          /\ pc = "pop"
      <4>1. pc = "pop" /\ frame.n > 0
        BY DEF PurgeTransaction
      <4>. QED
        BY <4>1 DEF CallTypeOK, Frames
    <3>2. frame'.n = frame.n - 1 /\ frame'.bl = frame.bl /\ frame'.caller = frame.caller
      BY <2>2, <3>1 DEF Frames
    <3>3. frame' \in Frames
      <4>1. frame.n - 1 \in Nat /\ (frame.ok /\ ok) \in BOOLEAN
        BY <3>1
      <4>. QED
        BY <2>2, <3>1, <4>1, FrameUpdate
    <3>4. CallTypeOK'
      BY <2>2, <3>3 DEF CallTypeOK
    <3>5. Len(BlockTxs[frame.bl]) \in Nat
      BY <3>1, BlockTxsType
    <3>6. CallsOK'
      BY <1>1, <2>2, <3>1, <3>2, <3>5 DEF CallsOK, Size, TopBlock
    <3>. QED
      BY <2>2, <3>4, <3>6
  <2>. QED
    BY <2>1, <2>2 DEF PurgeTransaction
<1>. QED
  BY <1>1, <1>4, <1>5, <1>6, <1>7, <1>8, <1>9 DEF ChainTypeOK

\* check_tx_inputs succeeds, fails or throws.
LEMMA check_tx_inputs_type ==
  ASSUME NEW spent, NEW t, NEW signed, NEW undefined \in Undefined
  PROVE  check_tx_inputs(spent, t, signed, undefined) \in {"ok", "fail", "throw"}
<1>1. \A in : check_tx_input(in, undefined) \in {"ok", "fail", "throw"}
  BY DEF check_tx_input, Undefined
<1>. QED
  BY <1>1 DEF check_tx_inputs

\* The questions of handle_incoming_tx leave the pool alone.
LEMMA CheckIncomingInv ==
  ASSUME IInv, CheckIncomingTx
  PROVE  PoolTypeOK'
<1>. USE DEF IInv, TypeOK
<1>1. pool' = pool /\ incoming # <<>>
  BY DEF CheckIncomingTx
<1>2. PICK i \in Incoming : incoming = <<i>>
  BY <1>1 DEF PoolTypeOK
<1>3. \/ incoming' = <<>>
      \/ \E stage \in {"check_tx_inputs", "key_images"} :
            incoming' = [incoming EXCEPT ![1].stage = stage]
      \/ \E undefined \in Undefined :
            /\ check_tx_inputs(m_spent_keys, incoming[1].tx, TRUE, undefined) # "throw"
            /\ incoming' = [incoming EXCEPT ![1].stage = "insert",
                  ![1].inputs = check_tx_inputs(m_spent_keys, incoming[1].tx, TRUE, undefined)]
  BY DEF CheckIncomingTx, Answer, Advance
<1>4. ASSUME NEW stage \in {"check_tx_inputs", "key_images"},
             incoming' = [incoming EXCEPT ![1].stage = stage]
      PROVE  \E j \in Incoming : incoming' = <<j>>
  <2>1. [i EXCEPT !.stage = stage] \in Incoming
    BY DEF Incoming
  <2>2. incoming' = <<[i EXCEPT !.stage = stage]>>
    BY <1>2, <1>4
  <2>. QED
    BY <2>1, <2>2
<1>5. ASSUME NEW r \in {"ok", "fail"},
             incoming' = [incoming EXCEPT ![1].stage = "insert", ![1].inputs = r]
      PROVE  \E j \in Incoming : incoming' = <<j>>
  <2>1. [i EXCEPT !.stage = "insert", !.inputs = r] \in Incoming
    BY DEF Incoming
  <2>2. incoming' = <<[i EXCEPT !.stage = "insert", !.inputs = r]>>
    BY <1>2, <1>5
  <2>. QED
    BY <2>1, <2>2
<1>6. ASSUME NEW undefined \in Undefined,
             check_tx_inputs(m_spent_keys, incoming[1].tx, TRUE, undefined) # "throw"
      PROVE  check_tx_inputs(m_spent_keys, incoming[1].tx, TRUE, undefined) \in {"ok", "fail"}
  BY <1>6, check_tx_inputs_type
<1>7. incoming' = <<>> \/ \E j \in Incoming : incoming' = <<j>>
  BY <1>3, <1>4, <1>5, <1>6
<1>. QED
  BY <1>1, <1>7 DEF PoolTypeOK

\* The actions of the core and of the pool leave the chain and the call alone.
LEMMA PoolActionsInv ==
  ASSUME IInv,
         UNCHANGED <<chainVars, m_is_in_checkpoint_zone, pc, frame, alt, sw, ret, unwound>>,
         PoolTypeOK', SideTypeOK', now' \in BOOLEAN,
         m_alternative_chains' = m_alternative_chains \/ pc = "idle"
  PROVE  IInv'
<1>. USE DEF IInv, TypeOK
<1>1. ChainTypeOK' /\ ChainConsistent'
  BY StoreKept, ChainKept DEF chainVars
<1>2. CallTypeOK'
  BY DEF CallTypeOK
<1>3. CallsOK'
  BY DEF CallsOK, chainVars, Size, TopBlock, InIndex
<1>. QED
  BY <1>1, <1>2, <1>3

\* The calls that do not touch the chain keep the invariant.
LEMMA CallersInv ==
  ASSUME IInv,
         \/ \E t \in Txs, kept_by_block \in BOOLEAN : HandleIncomingTx(t, kept_by_block)
         \/ CheckIncomingTx \/ InsertIncomingTx
         \/ \E t \in Txs : RemoveStuckTransaction(t)
         \/ prune_aged_alt_blocks \/ Tick
  PROVE  IInv'
<1>. USE DEF IInv, TypeOK
<1>1. ASSUME NEW t \in Txs, NEW kept_by_block \in BOOLEAN, HandleIncomingTx(t, kept_by_block)
      PROVE  IInv'
  <2>1. [tx |-> t, kept_by_block |-> kept_by_block, stage |-> "have_tx",
         inputs |-> "fail"] \in Incoming
    BY DEF Incoming
  <2>2. PoolTypeOK'
    BY <1>1, <2>1 DEF HandleIncomingTx, PoolTypeOK
  <2>. QED
    BY <1>1, <2>2, SideKept, PoolActionsInv DEF HandleIncomingTx, sideVars
<1>2. CASE CheckIncomingTx
  BY <1>2, CheckIncomingInv, SideKept, PoolActionsInv DEF CheckIncomingTx, sideVars
<1>3. CASE InsertIncomingTx
  <2>1. PICK i \in Incoming : incoming = <<i>>
    BY <1>3 DEF InsertIncomingTx, PoolTypeOK
  <2>2. i.tx \in Txs /\ i.kept_by_block \in BOOLEAN /\ incoming[1] = i
    BY <2>1 DEF Incoming
  <2>3. AliasName(i.tx) \in PoolAliases \cup {NoAlias}
    BY <2>2, StorageAssumption DEF AliasName, AliasInfo
  <2>4. PICK ok \in BOOLEAN :
          pool' = add_tx(pool, i.tx, i.kept_by_block, TRUE, ok, AliasName(i.tx))
    BY <1>3, <2>2 DEF InsertIncomingTx
  <2>6. IsPool(pool')
    BY <2>2, <2>3, <2>4, add_tx_type DEF PoolTypeOK
  <2>5. PoolTypeOK'
    BY <1>3, <2>6 DEF InsertIncomingTx, Answer, PoolTypeOK
  <2>. QED
    BY <1>3, <2>5, SideKept, PoolActionsInv DEF InsertIncomingTx, sideVars
<1>4. ASSUME NEW t \in Txs, RemoveStuckTransaction(t)
      PROVE  IInv'
  <2>1. PoolTypeOK'
    BY <1>4, take_tx_type DEF RemoveStuckTransaction, PoolTypeOK
  <2>. QED
    BY <1>4, <2>1, SideKept, PoolActionsInv DEF RemoveStuckTransaction, sideVars
<1>5. CASE prune_aged_alt_blocks
  <2>1. SideTypeOK'
    BY <1>5, RestrictType DEF prune_aged_alt_blocks, SideTypeOK
  <2>. QED
    BY <1>5, <2>1, PoolKept, PoolActionsInv DEF prune_aged_alt_blocks
<1>6. CASE Tick
  BY <1>6, PoolKept, SideKept, PoolActionsInv DEF Tick, sideVars
<1>. QED
  BY <1>1, <1>2, <1>3, <1>4, <1>5, <1>6

-----------------------------------------------------------------------------
(* The theorems. *)

\* Every step keeps the invariant.
LEMMA NextInv == IInv /\ [Next]_vars => IInv'
<1>. SUFFICES ASSUME IInv, [Next]_vars PROVE IInv'
  OBVIOUS
<1>1. CASE UNCHANGED vars
  <2>1. UNCHANGED <<chainVars, m_is_in_checkpoint_zone, pc, frame, alt, sw, ret, unwound>>
        /\ UNCHANGED <<sideVars, pool, incoming, now, m_alternative_chains>>
    BY <1>1 DEF vars, chainVars, sideVars
  <2>. QED
    BY <2>1, SideKept, PoolKept, PoolActionsInv DEF IInv, TypeOK
<1>2. ASSUME NEW b \in Blocks, AddNewBlock(b)
      PROVE  IInv'
  BY <1>2, AddNewBlockInv
<1>3. CASE Step
  BY <1>3, ConnectTransactionInv, ConnectBlockInv, PurgeTransactionInv, PopBlockInv,
     CollectInv, AcceptAlternativeInv, SwitchPopInv, SwitchConnectInv, PushOldChainInv,
     RollbackPopInv, RollbackConnectInv, RollbackDoneInv DEF Step
<1>. QED
  BY <1>1, <1>2, <1>3, RollbackBlockchainInv, CallersInv DEF Next

\* The invariant of add_new_block, its switches and its rollbacks: types, a
\* consistent main chain and what the running call relies on.
THEOREM Invariance == Spec => []IInv
  BY InitInv, NextInv, PTL DEF Spec

\* Whatever blocks and transactions arrive, and wherever add_new_block is
\* interrupted by an exception, every container of the store and of the pool and
\* every local of the running call keeps its type.
THEOREM TypeCorrectness == Spec => []TypeOK
<1>1. IInv => TypeOK
  BY DEF IInv
<1>. QED
  BY <1>1, Invariance, PTL

\* For every block tree and every table of checkpoints the main chain is linked
\* from the genesis block on, m_blocks_index mirrors it, the cumulative
\* difficulty adds up and every checkpoint it has reached is on it: at every step
\* of a switch and of its rollback, and also after an exception.
THEOREM ChainCorrectness == Spec => []ChainConsistent
<1>1. IInv => ChainConsistent
  BY DEF IInv
<1>. QED
  BY <1>1, Invariance, PTL

-----------------------------------------------------------------------------
(* The claims of the pool. *)

\* What a step may do to the pool.
PoolMove ==
  \/ pool' = pool
  \/ \E t \in Txs : pool' = take_tx(pool, t)
  \/ \E t \in Txs, kept \in BOOLEAN, signed \in BOOLEAN, ok \in BOOLEAN,
        a \in PoolAliases \cup {NoAlias} :
       \/ pool' = add_tx(pool, t, kept, signed, ok, a)
       \/ pool' = add_tx(take_tx(pool, t), t, kept, signed, ok, a)

\* Connecting a transaction takes it from the pool, and may put it back.
LEMMA ConnectTransactionMove ==
  ASSUME IInv, ConnectTransaction
  PROVE  PoolMove
<1>. DEFINE t == BlockTxs[frame.bl][frame.n + 1]
            signed == pool.transactions[t].signed /\ ~m_is_in_checkpoint_zone
<1>1. t \in Txs
  <2>1. pc = "connect" /\ frame.n < Len(BlockTxs[frame.bl])
    BY DEF ConnectTransaction
  <2>2. frame.bl \in Blocks /\ frame.n \in Nat
    BY DEF IInv, TypeOK, CallTypeOK, Frames
  <2>3. frame.n + 1 \in 1..Len(BlockTxs[frame.bl])
    BY <2>1, <2>2, BlockTxsType
  <2>. QED
    BY <2>2, <2>3, BlockTxsType
<1>2. signed \in BOOLEAN
  OBVIOUS
<1>3. \/ pool' = pool \/ pool' = take_tx(pool, t)
      \/ \E ok \in BOOLEAN : pool' = add_tx(take_tx(pool, t), t, TRUE, signed, ok, NoAlias)
  BY DEF ConnectTransaction
<1>. HIDE DEF t, signed
<1>. QED
  BY <1>1, <1>2, <1>3 DEF PoolMove

\* Purging a transaction may put it into the pool.
LEMMA PurgeTransactionMove ==
  ASSUME IInv, PurgeTransaction
  PROVE  PoolMove
<1>. DEFINE t == BlockTxs[frame.bl][frame.n]
            x == transactionByIndex(m_transactions[t])
            signed == ~is_in_checkpoint_zone(m_transactions[t].block)
<1>1. \/ pool' = pool
      \/ /\ t \in DOMAIN m_transactions
         /\ ~ReadThrows(m_transactions[t]) /\ ~ReadUndefined(m_transactions[t])
         /\ \E ok \in BOOLEAN : pool' = add_tx(pool, x, TRUE, signed, ok, NoAlias)
  BY DEF PurgeTransaction
<1>2. pool' = pool \/ x \in Txs
  BY <1>1, TransactionByIndexType DEF IInv, TypeOK, ChainTypeOK
<1>3. signed \in BOOLEAN
  OBVIOUS
<1>. HIDE DEF x, signed
<1>. QED
  BY <1>1, <1>2, <1>3 DEF PoolMove

\* The last part of add_tx puts the incoming transaction into the pool.
LEMMA InsertIncomingMove ==
  ASSUME IInv, InsertIncomingTx
  PROVE  PoolMove
<1>1. PICK i \in Incoming : incoming = <<i>>
  BY DEF InsertIncomingTx, IInv, TypeOK, PoolTypeOK
<1>2. i.tx \in Txs /\ i.kept_by_block \in BOOLEAN /\ incoming[1] = i
  BY <1>1 DEF Incoming
<1>3. AliasName(i.tx) \in PoolAliases \cup {NoAlias}
  BY <1>2, StorageAssumption DEF AliasName, AliasInfo
<1>4. \E ok \in BOOLEAN : pool' = add_tx(pool, i.tx, i.kept_by_block, TRUE, ok, AliasName(i.tx))
  BY <1>2 DEF InsertIncomingTx
<1>. QED
  BY <1>2, <1>3, <1>4 DEF PoolMove

\* Every step leaves the pool alone or applies take_tx or add_tx to it.
LEMMA PoolMoves ==
  ASSUME IInv, [Next]_vars
  PROVE  PoolMove
<1>1. ASSUME NEW t \in Txs, RemoveStuckTransaction(t)
      PROVE  PoolMove
  BY <1>1 DEF RemoveStuckTransaction, PoolMove
<1>2. ASSUME Step
      PROVE  PoolMove \/ pool' = pool
  BY <1>2, ConnectTransactionMove, PurgeTransactionMove
     DEF Step, ConnectBlock, PopBlock, CollectAlternativeChain, AcceptAlternativeBlock,
         SwitchPop, SwitchConnect, PushOldChain, RollbackPop, RollbackConnect, RollbackDone
<1>3. ASSUME \/ \E b \in Blocks : AddNewBlock(b)
             \/ \E t \in Txs, kept_by_block \in BOOLEAN : HandleIncomingTx(t, kept_by_block)
             \/ \E height \in RollbackHeights : rollback_blockchain(height)
             \/ CheckIncomingTx \/ prune_aged_alt_blocks \/ Tick \/ UNCHANGED vars
      PROVE  pool' = pool
  BY <1>3 DEF AddNewBlock, rollback_blockchain, HandleIncomingTx, CheckIncomingTx,
              prune_aged_alt_blocks, Tick, vars
<1>. QED
  BY <1>1, <1>2, <1>3, InsertIncomingMove DEF Next, PoolMove

\* The pool of a node never keeps a key image claimed for a transaction it has
\* dropped: neither take_tx nor add_tx leaves a claim behind when its loop over the
\* inputs returns early, for every number of inputs and every order of calls.
THEOREM PoolCorrectness == Spec => []PoolClaimsBacked
<1>1. Init => Claims(pool)
  BY EmptyPool_claims DEF Init
<1>2. IInv /\ Claims(pool) /\ [Next]_vars => Claims(pool)'
  <2>. SUFFICES ASSUME IInv, Claims(pool), [Next]_vars PROVE Claims(pool')
    BY DEF Claims
  <2>. QED
    BY PoolMoves, take_tx_claims, add_tx_claims DEF PoolMove
<1>3. Claims(pool) => PoolClaimsBacked
  BY DEF Claims, PoolClaimsBacked
<1>. QED
  BY <1>1, <1>2, <1>3, Invariance, PTL DEF Spec

=============================================================================
