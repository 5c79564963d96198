--------------------- MODULE blockchain_storage_lemmas ---------------------
(***************************************************************************)
(* The inductive invariant of blockchain_storage, the lemmas on its calls  *)
(* and returns that the proof of every action uses, and the actions that   *)
(* decide about a block and direct a switch.                               *)
(***************************************************************************)
EXTENDS blockchain_storage, tx_pool_proofs, sequence_lemmas, TLAPS

-----------------------------------------------------------------------------
(* Calls and returns. *)

\* What the steps of a running call may rely on.
CallsOK ==
  /\ pc = "connect" => /\ frame.n \in 1..Len(BlockTxs[frame.bl])
                       /\ Prev[frame.bl] = TopBlock
                       /\ BlockHeight[frame.bl] = Size
                       /\ check_block(Size, frame.bl)
  /\ pc = "pop" => /\ frame.n \in 0..Len(BlockTxs[frame.bl])
                   /\ frame.bl = TopBlock /\ Size > 1
                   /\ frame.caller # "add"
  /\ pc = "collect" =>
       IF alt.chain = <<>>
       THEN alt.it = Prev[alt.bl] /\ (InIndex(alt.it) \/ alt.it \in DOMAIN m_alternative_chains)
       ELSE \A i \in DOMAIN alt.chain : alt.chain[i] \in DOMAIN m_alternative_chains

\* The positions of the call in which CallsOK claims nothing.
Between == Pcs \ {"connect", "pop", "collect"}

\* A block has a coinbase, and its transactions are transactions.
LEMMA BlockTxsType ==
  ASSUME NEW b \in Blocks
  PROVE  /\ BlockTxs[b] \in Seq(Txs) /\ Len(BlockTxs[b]) \in Nat \ {0}
         /\ \A i \in 1..Len(BlockTxs[b]) : BlockTxs[b][i] \in Txs
  BY StorageAssumption

\* m_blocks.back() exists and is a block entry.
LEMMA TopType ==
  ASSUME ChainTypeOK
  PROVE  Size \in Nat \ {0} /\ TopBlock \in Blocks /\ TopDifficulty \in Nat
<1>1. Len(m_blocks) \in Nat \ {0}
  BY DEF ChainTypeOK
<1>2. m_blocks[Len(m_blocks)] \in BlockEntry
  BY <1>1 DEF ChainTypeOK
<1>. QED
  BY <1>1, <1>2 DEF Size, TopBlock, TopDifficulty, BlockEntry

\* The locals of a call that is not running have their types.
LEMMA NoLocalsType == NoFrame \in Frames /\ NoAlt \in AltCalls /\ NoSwitch \in Switches
  BY StorageAssumption DEF NoFrame, NoAlt, NoSwitch, Frames, AltCalls, Switches

\* Returning from add_new_block clears the locals.
LEMMA LeaveType ==
  ASSUME NEW r \in Returns, Leave(r)
  PROVE  CallTypeOK' /\ pc' \in Between
  BY NoLocalsType DEF Leave, CallTypeOK, Pcs, Between

\* An exception leaves the call like a return does.
LEMMA UnwindType ==
  ASSUME Unwind
  PROVE  CallTypeOK' /\ pc' \in Between /\ unwound' \in BOOLEAN
  BY LeaveType DEF Unwind, Returns

\* The updates of the locals of switch_to_alternative_blockchain keep their type.
LEMMA SwitchUpdates ==
  ASSUME NEW s \in Switches
  PROVE  /\ [s EXCEPT !.next = @ + 1] \in Switches
         /\ [s EXCEPT !.re = @ + 1] \in Switches
         /\ [s EXCEPT !.re = 1] \in Switches
         /\ [s EXCEPT !.panic = TRUE] \in Switches
         /\ \A w \in {"connect", "repush"} : [s EXCEPT !.why = w] \in Switches
<1>1. /\ s.next + 1 \in Nat \ {0} /\ s.re + 1 \in Nat \ {0} /\ 1 \in Nat \ {0}
  BY DEF Switches
<1>2. \A n \in Nat \ {0} : [s EXCEPT !.next = n] \in Switches
  BY Zenon DEF Switches
<1>3. \A n \in Nat \ {0} : [s EXCEPT !.re = n] \in Switches
  BY Zenon DEF Switches
<1>4. [s EXCEPT !.panic = TRUE] \in Switches
  BY DEF Switches
<1>5. \A w \in {"connect", "repush"} : [s EXCEPT !.why = w] \in Switches
  BY DEF Switches
<1>. QED
  BY <1>1, <1>2, <1>3, <1>4, <1>5

\* The locals with which a switch starts.
LEMMA SwitchStart ==
  ASSUME NEW s \in Switches, NEW c \in Seq(Blocks), NEW h \in Nat, NEW before \in Seq(Blocks)
  PROVE  [s EXCEPT !.alt_chain = c, !.split_height = h, !.before = before] \in Switches
  BY Zenon DEF Switches

\* The locals of the daemon command rollback.
LEMMA CommandStart ==
  ASSUME NEW s \in Switches, NEW h \in Nat, NEW before \in Seq(Blocks)
  PROVE  [s EXCEPT !.split_height = h, !.why = "command", !.before = before] \in Switches
  BY Zenon DEF Switches

\* The history sw.before records a sequence of blocks.
LEMMA MainIdsType ==
  ASSUME ChainTypeOK
  PROVE  MainIds \in Seq(Blocks)
<1>1. Size \in Nat
  BY TopType
<1>2. \A i \in 1..Size : m_blocks[i] \in BlockEntry
  BY DEF ChainTypeOK, Size
<1>3. \A i \in 1..Size : m_blocks[i].bl \in Blocks
  BY <1>2 DEF BlockEntry
<1>4. MainIds \in [1..Size -> Blocks]
  BY <1>3 DEF MainIds
<1>. QED
  BY <1>1, <1>4

\* handle_block_to_main_chain returns into add_new_block, the switch or the
\* rollback with locals of the right type.
LEMMA ConnectReturnsType ==
  ASSUME CallTypeOK, NEW ok \in BOOLEAN, NEW caller, ConnectReturns(caller, ok)
  PROVE  CallTypeOK' /\ pc' \in Between
<1>1. CASE caller = "add"
  BY <1>1, LeaveType DEF ConnectReturns, Returns
<1>2. CASE caller # "add"
  <2>1. sw' \in Switches
    BY <1>2, SwitchUpdates DEF ConnectReturns, CallTypeOK
  <2>2. pc' \in Between /\ frame' = NoFrame /\ UNCHANGED <<alt, ret>>
    BY <1>2 DEF ConnectReturns, Pcs, Between
  <2>. QED
    BY <2>1, <2>2, NoLocalsType DEF CallTypeOK, Between
<1>. QED
  BY <1>1, <1>2

\* pop_block_from_blockchain returns into the switch or the rollback with locals
\* of the right type.
LEMMA PopReturnsType ==
  ASSUME CallTypeOK, NEW ok \in BOOLEAN, PopReturns(ok)
  PROVE  CallTypeOK' /\ pc' \in Between
<1>1. CASE frame.caller = "switch" /\ ~ok
  BY <1>1, LeaveType DEF PopReturns, Returns
<1>2. CASE frame.caller = "switch" /\ ok
  <2>1. PushFront(frame.bl) \in Seq(Blocks)
    BY ConsProperties DEF CallTypeOK, PushFront, Frames, Switches
  <2>. QED
    BY <1>2, <2>1, NoLocalsType DEF PopReturns, CallTypeOK, Switches, Pcs, Between
<1>3. CASE frame.caller = "rollback"
  BY <1>3, NoLocalsType, SwitchUpdates DEF PopReturns, CallTypeOK, Pcs, Between
<1>. QED
  BY <1>1, <1>2, <1>3 DEF PopReturns

\* handle_alternative_block returns into add_new_block or the switch with locals
\* of the right type.
LEMMA AltReturnsType ==
  ASSUME CallTypeOK, NEW ok \in BOOLEAN, NEW caller, NEW r \in Returns,
         AltReturns(caller, ok, r)
  PROVE  CallTypeOK' /\ pc' \in Between
<1>1. CASE caller = "add"
  BY <1>1, LeaveType DEF AltReturns
<1>2. CASE caller = "repush"
  <2>1. sw' \in Switches
    BY <1>2, SwitchUpdates DEF AltReturns, CallTypeOK
  <2>2. pc' \in Between /\ alt' = NoAlt /\ UNCHANGED <<frame, ret>>
    BY <1>2 DEF AltReturns, Pcs, Between
  <2>. QED
    BY <2>1, <2>2, NoLocalsType DEF CallTypeOK, Between
<1>. QED
  BY <1>1, <1>2 DEF AltReturns

-----------------------------------------------------------------------------
(* The operations that several actions share. *)

IInv == TypeOK /\ ChainConsistent /\ CallsOK

\* Between two inner calls CallsOK claims nothing.
LEMMA BetweenCalls ==
  ASSUME pc' \in Between
  PROVE  CallsOK'
  BY DEF Between, CallsOK

\* A step that leaves m_blocks and m_blocks_index alone keeps the chain consistent.
LEMMA ChainKept ==
  ASSUME ChainConsistent, UNCHANGED <<m_blocks, m_blocks_index>>
  PROVE  ChainConsistent'
  BY DEF ChainConsistent, Size, BlockAt

\* A step that leaves the containers of the store alone keeps their types.
LEMMA StoreKept ==
  ASSUME ChainTypeOK, UNCHANGED chainVars
  PROVE  ChainTypeOK'
  BY DEF ChainTypeOK, chainVars

\* process_blockchain_tx_extra leaves a registry of aliases.
LEMMA ProcessExtraType ==
  ASSUME ChainTypeOK, NEW t \in Txs
  PROVE  process_blockchain_tx_extra(t) \in [AliasNames -> Seq(AliasInfo)]
<1>1. CASE AliasOf[t] = NoAlias
  BY <1>1 DEF process_blockchain_tx_extra, ChainTypeOK
<1>2. CASE AliasOf[t] # NoAlias
  <2>1. AliasOf[t] \in AliasInfo /\ AliasOf[t].m_alias \in AliasNames
    BY <1>2, StorageAssumption DEF AliasInfo
  <2>2. \A s \in Seq(AliasInfo) : Append(s, AliasOf[t]) \in Seq(AliasInfo)
    BY <2>1
  <2>. QED
    BY <1>2, <2>1, <2>2 DEF process_blockchain_tx_extra, put_alias_info, ChainTypeOK
<1>. QED
  BY <1>1, <1>2

\* add_transaction_from_block keeps the types of the indexes.
LEMMA AddTransactionType ==
  ASSUME ChainTypeOK, NEW t \in Txs, NEW h \in Nat, NEW n \in Nat,
         AddTransaction(t, h, n), UNCHANGED <<m_blocks, m_blocks_index>>
  PROVE  ChainTypeOK'
<1>. DEFINE index == [block |-> h, transaction |-> n]
<1>1. index \in TransactionIndex
  BY DEF TransactionIndex
<1>2. /\ DOMAIN m_transactions' \subseteq Txs
      /\ m_transactions' \in [DOMAIN m_transactions' -> TransactionIndex]
  BY <1>1 DEF AddTransaction, ChainTypeOK
<1>3. m_outputs' \in Seq(TransactionIndex)
  BY <1>1 DEF AddTransaction, ChainTypeOK
<1>4. m_spent_keys' \subseteq KeyImages
  BY ImagesType DEF AddTransaction, ChainTypeOK
<1>5. m_aliases' \in [AliasNames -> Seq(AliasInfo)]
  BY ProcessExtraType DEF AddTransaction
<1>. QED
  BY <1>2, <1>3, <1>4, <1>5 DEF ChainTypeOK

\* A height above the last checkpoint has no checkpoint to compare with.
LEMMA CheckpointCompared ==
  ASSUME NEW b, NEW h \in Nat, is_in_checkpoint_zone(h) => check_block(h, b)
  PROVE  check_block(h, b)
  BY DEF is_in_checkpoint_zone, check_block

\* handle_block_to_main_chain up to the coinbase: the block it goes on with fits
\* on top of the chain and passes the checkpoint of its height.
LEMMA HandleBlockInv ==
  ASSUME IInv, NEW b \in Blocks, NEW caller \in {"add", "switch", "rollback"},
         HandleBlockToMainChain(b, caller)
  PROVE  /\ ChainTypeOK' /\ CallTypeOK' /\ m_is_in_checkpoint_zone' \in BOOLEAN
         /\ ChainConsistent' /\ CallsOK'
<1>. USE DEF IInv, TypeOK
<1>3. is_in_checkpoint_zone(Size) \in BOOLEAN
  BY DEF is_in_checkpoint_zone
<1>4. m_is_in_checkpoint_zone' \in BOOLEAN
  BY <1>3 DEF HandleBlockToMainChain
<1>1. CASE ConnectReturns(caller, FALSE) /\ UNCHANGED chainVars
  BY <1>1, <1>4, ConnectReturnsType, BetweenCalls, ChainKept, StoreKept DEF chainVars
<1>2. CASE /\ PrevalidationAccepted(b) /\ HeaderAccepted(b)
           /\ AddTransaction(BlockTxs[b][1], Size, 0)
           /\ pc' = "connect"
           /\ frame' = [bl |-> b, n |-> 1, ok |-> TRUE, caller |-> caller]
           /\ UNCHANGED <<m_blocks, m_blocks_index, alt, sw, ret>>
           /\ m_is_in_checkpoint_zone' = is_in_checkpoint_zone(Size)
  <2>1. Size \in Nat /\ Size' = Size /\ TopBlock' = TopBlock
    BY <1>2, TopType DEF Size, TopBlock
  <2>2. BlockTxs[b][1] \in Txs /\ 1 \in 1..Len(BlockTxs[b])
    BY BlockTxsType
  <2>3. ChainTypeOK' /\ ChainConsistent'
    BY <1>2, <2>1, <2>2, AddTransactionType, ChainKept
  <2>4. CallTypeOK'
    BY <1>2 DEF CallTypeOK, Frames, Pcs
  <2>5. check_block(Size, b)
    BY <1>2, <2>1, CheckpointCompared DEF PrevalidationAccepted
  <2>6. CallsOK'
    BY <1>2, <2>1, <2>2, <2>5 DEF CallsOK, PrevalidationAccepted, HeaderAccepted
  <2>. QED
    BY <1>4, <2>3, <2>4, <2>6
<1>. QED
  BY <1>1, <1>2 DEF HandleBlockToMainChain

\* handle_alternative_block up to its loop: the parent it goes on with is known.
LEMMA HandleAlternativeInv ==
  ASSUME IInv, NEW b \in Blocks, NEW caller \in {"add", "repush"},
         HandleAlternativeBlock(b, caller),
         UNCHANGED <<m_blocks_index, m_alternative_chains>>
  PROVE  CallTypeOK' /\ CallsOK'
<1>. USE DEF IInv, TypeOK
<1>1. CASE \E ok \in BOOLEAN, r \in Returns : AltReturns(caller, ok, r)
  BY <1>1, AltReturnsType, BetweenCalls
<1>2. CASE /\ Prev[b] \in DOMAIN m_alternative_chains \/ InIndex(Prev[b])
           /\ pc' = "collect"
           /\ alt' = [bl |-> b, it |-> Prev[b], chain |-> <<>>, caller |-> caller]
           /\ UNCHANGED <<frame, sw, ret>>
  <2>1. CallTypeOK'
    BY <1>2, StorageAssumption DEF CallTypeOK, AltCalls, Pcs
  <2>2. CallsOK'
    BY <1>2 DEF CallsOK, InIndex
  <2>. QED
    BY <2>1, <2>2
<1>. QED
  BY <1>1, <1>2 DEF HandleAlternativeBlock, Returns

\* pop_block_from_blockchain starts with the top block, which is not the genesis.
LEMMA BeginPopInv ==
  ASSUME IInv, NEW caller \in {"switch", "rollback"}, BeginPop(caller), UNCHANGED chainVars
  PROVE  CallTypeOK' /\ CallsOK'
<1>. USE DEF IInv, TypeOK
<1>1. CASE /\ Size > 1 /\ pc' = "pop"
           /\ frame' = [bl |-> TopBlock, n |-> Len(BlockTxs[TopBlock]), ok |-> TRUE,
                        caller |-> caller]
           /\ UNCHANGED <<alt, sw, ret>>
  <2>1. TopBlock \in Blocks /\ Len(BlockTxs[TopBlock]) \in Nat
    BY TopType, BlockTxsType
  <2>2. CallTypeOK'
    BY <1>1, <2>1 DEF CallTypeOK, Frames, Pcs
  <2>3. CallsOK'
    BY <1>1, <2>1 DEF CallsOK, chainVars, Size, TopBlock
  <2>. QED
    BY <2>2, <2>3
<1>2. CASE Leave("failed")
  BY <1>2, LeaveType, BetweenCalls DEF Returns
<1>3. CASE /\ pc' = "rollback_done" /\ sw' = [sw EXCEPT !.panic = TRUE]
           /\ UNCHANGED <<frame, alt, ret>>
  BY <1>3, SwitchUpdates, BetweenCalls DEF CallTypeOK, Between, Pcs
<1>. QED
  BY <1>1, <1>2, <1>3 DEF BeginPop

-----------------------------------------------------------------------------
(* One lemma for every action. *)

\* A fresh store satisfies the invariant.
LEMMA InitInv == Init => IInv
<1>. SUFFICES ASSUME Init PROVE IInv
  OBVIOUS
<1>. DEFINE first == [bl |-> Genesis, cumulative_difficulty |-> Difficulty[Genesis]]
            index == [block |-> 0, transaction |-> 0]
<1>1. first \in BlockEntry /\ index \in TransactionIndex /\ BlockTxs[Genesis][1] \in Txs
  BY StorageAssumption, BlockTxsType DEF BlockEntry, TransactionIndex
<1>2. ChainTypeOK
  BY <1>1, StorageAssumption DEF Init, ChainTypeOK
<1>3. SideTypeOK
  BY DEF Init, SideTypeOK
<1>4. PoolTypeOK
  BY DEF Init, PoolTypeOK, IsPool, EmptyPool
<1>5. CallTypeOK
  BY NoLocalsType DEF Init, CallTypeOK, Pcs, Returns
<1>6. m_is_in_checkpoint_zone \in BOOLEAN
  BY DEF Init, is_in_checkpoint_zone
<1>7. ChainConsistent
  BY DEF Init, ChainConsistent, Size, BlockAt
<1>8. CallsOK
  BY DEF Init, CallsOK
<1>. QED
  BY <1>2, <1>3, <1>4, <1>5, <1>6, <1>7, <1>8 DEF Init, IInv, TypeOK

\* A step that leaves the alternative and invalid blocks alone keeps their types.
LEMMA SideKept ==
  ASSUME SideTypeOK, UNCHANGED sideVars
  PROVE  SideTypeOK'
  BY DEF SideTypeOK, sideVars

\* A step that leaves the pool and the incoming transaction alone keeps their types.
LEMMA PoolKept ==
  ASSUME PoolTypeOK, UNCHANGED <<pool, incoming>>
  PROVE  PoolTypeOK'
  BY DEF PoolTypeOK

-----------------------------------------------------------------------------
(* The steps that decide about a block and that direct a switch. *)

\* add_new_block keeps the invariant, whichever of its three ways it takes.
LEMMA AddNewBlockInv ==
  ASSUME IInv, NEW b \in Blocks, AddNewBlock(b)
  PROVE  IInv'
<1>. USE DEF IInv, TypeOK
<1>1. SideTypeOK' /\ PoolTypeOK' /\ now' \in BOOLEAN /\ unwound' \in BOOLEAN
  BY SideKept, PoolKept DEF AddNewBlock
<1>2. CASE ret' = "exists" /\ UNCHANGED <<chainVars, m_is_in_checkpoint_zone, pc, frame, alt, sw>>
  <2>1. CallTypeOK' /\ CallsOK'
    BY <1>2 DEF AddNewBlock, CallTypeOK, CallsOK, Returns
  <2>. QED
    BY <1>1, <1>2, <2>1, StoreKept, ChainKept DEF chainVars
<1>3. CASE HandleBlockToMainChain(b, "add")
  BY <1>1, <1>3, HandleBlockInv
<1>4. CASE HandleAlternativeBlock(b, "add") /\ UNCHANGED <<chainVars, m_is_in_checkpoint_zone>>
  <2>1. UNCHANGED <<m_blocks, m_blocks_index, m_alternative_chains>>
    BY <1>4 DEF AddNewBlock, chainVars, sideVars
  <2>2. CallTypeOK' /\ CallsOK'
    BY <1>4, <2>1, HandleAlternativeInv
  <2>. QED
    BY <1>1, <1>4, <2>1, <2>2, StoreKept, ChainKept
<1>. QED
  BY <1>2, <1>3, <1>4 DEF AddNewBlock

\* The loop that disconnects the old chain keeps the invariant.
LEMMA SwitchPopInv ==
  ASSUME IInv, SwitchPop
  PROVE  IInv'
<1>. USE DEF IInv, TypeOK
<1>1. ChainTypeOK' /\ SideTypeOK' /\ PoolTypeOK' /\ ChainConsistent'
      /\ m_is_in_checkpoint_zone' \in BOOLEAN /\ now' \in BOOLEAN /\ unwound' \in BOOLEAN
  BY StoreKept, SideKept, PoolKept, ChainKept DEF SwitchPop, chainVars
<1>2. CASE BeginPop("switch")
  BY <1>1, <1>2, BeginPopInv DEF SwitchPop
<1>3. CASE pc' = "switch_connect" /\ UNCHANGED <<frame, alt, sw, ret>>
  BY <1>1, <1>3, BetweenCalls DEF CallTypeOK, Between, Pcs
<1>. QED
  BY <1>2, <1>3 DEF SwitchPop

\* The loop that removes the failed subchain keeps the invariant.
LEMMA RollbackPopInv ==
  ASSUME IInv, RollbackPop
  PROVE  IInv'
<1>. USE DEF IInv, TypeOK
<1>1. ChainTypeOK' /\ SideTypeOK' /\ PoolTypeOK' /\ ChainConsistent'
      /\ m_is_in_checkpoint_zone' \in BOOLEAN /\ now' \in BOOLEAN /\ unwound' \in BOOLEAN
  BY StoreKept, SideKept, PoolKept, ChainKept DEF RollbackPop, chainVars
<1>2. CASE BeginPop("rollback")
  BY <1>1, <1>2, BeginPopInv DEF RollbackPop
<1>3. CASE /\ pc' = "rollback_connect" /\ sw' = [sw EXCEPT !.re = 1]
           /\ UNCHANGED <<frame, alt, ret>>
  BY <1>1, <1>3, BetweenCalls, SwitchUpdates DEF CallTypeOK, Between, Pcs
<1>. QED
  BY <1>2, <1>3 DEF RollbackPop

\* The loop that connects the alternative chain keeps the invariant.
LEMMA SwitchConnectInv ==
  ASSUME IInv, SwitchConnect
  PROVE  IInv'
<1>. USE DEF IInv, TypeOK
<1>1. SideTypeOK' /\ PoolTypeOK' /\ now' \in BOOLEAN /\ unwound' \in BOOLEAN
  BY SideKept, PoolKept DEF SwitchConnect
<1>2. CASE sw.next <= Len(sw.alt_chain) /\ HandleBlockToMainChain(sw.alt_chain[sw.next], "switch")
  <2>1. sw.alt_chain[sw.next] \in Blocks
    BY <1>2 DEF CallTypeOK, Switches
  <2>. QED
    BY <1>1, <1>2, <2>1, HandleBlockInv
<1>3. CASE /\ pc' = "repush"
           /\ UNCHANGED <<chainVars, m_is_in_checkpoint_zone, frame, alt, sw, ret>>
  <2>1. CallTypeOK' /\ CallsOK'
    BY <1>3, BetweenCalls DEF CallTypeOK, Between, Pcs
  <2>. QED
    BY <1>1, <1>3, <2>1, StoreKept, ChainKept DEF chainVars
<1>. QED
  BY <1>2, <1>3 DEF SwitchConnect

\* The loop that returns the original chain keeps the invariant.
LEMMA RollbackConnectInv ==
  ASSUME IInv, RollbackConnect
  PROVE  IInv'
<1>. USE DEF IInv, TypeOK
<1>1. SideTypeOK' /\ PoolTypeOK' /\ now' \in BOOLEAN /\ unwound' \in BOOLEAN
  BY SideKept, PoolKept DEF RollbackConnect
<1>2. CASE sw.re <= Len(sw.disconnected) /\ HandleBlockToMainChain(sw.disconnected[sw.re], "rollback")
  <2>1. sw.disconnected[sw.re] \in Blocks
    BY <1>2 DEF CallTypeOK, Switches
  <2>. QED
    BY <1>1, <1>2, <2>1, HandleBlockInv
<1>3. CASE /\ pc' = "rollback_done"
           /\ UNCHANGED <<chainVars, m_is_in_checkpoint_zone, frame, alt, sw, ret>>
  <2>1. CallTypeOK' /\ CallsOK'
    BY <1>3, BetweenCalls DEF CallTypeOK, Between, Pcs
  <2>. QED
    BY <1>1, <1>3, <2>1, StoreKept, ChainKept DEF chainVars
<1>. QED
  BY <1>2, <1>3 DEF RollbackConnect

\* Erasing alternative blocks leaves a map of alternative blocks.
LEMMA RestrictType ==
  ASSUME SideTypeOK, NEW S, m_alternative_chains' = Restrict(m_alternative_chains, S),
         S \subseteq DOMAIN m_alternative_chains
  PROVE  /\ DOMAIN m_alternative_chains' \subseteq Blocks
         /\ m_alternative_chains' \in [DOMAIN m_alternative_chains' -> AltEntry]
  BY DEF SideTypeOK, Restrict

\* Filing the old chain as alternative blocks keeps the invariant.
LEMMA PushOldChainInv ==
  ASSUME IInv, PushOldChain
  PROVE  IInv'
<1>. USE DEF IInv, TypeOK
<1>1. /\ ChainTypeOK' /\ PoolTypeOK' /\ ChainConsistent' /\ m_invalid_blocks' \subseteq Blocks
      /\ m_is_in_checkpoint_zone' \in BOOLEAN /\ now' \in BOOLEAN /\ unwound' \in BOOLEAN
  BY StoreKept, PoolKept, ChainKept DEF PushOldChain, chainVars, SideTypeOK
<1>2. CASE /\ sw.re <= Len(sw.disconnected) /\ UNCHANGED m_alternative_chains
           /\ HandleAlternativeBlock(sw.disconnected[sw.re], "repush")
  <2>1. sw.disconnected[sw.re] \in Blocks
    BY <1>2 DEF CallTypeOK, Switches
  <2>2. CallTypeOK' /\ CallsOK'
    BY <1>2, <2>1, HandleAlternativeInv DEF PushOldChain, chainVars
  <2>3. SideTypeOK'
    BY <1>1, <1>2 DEF SideTypeOK
  <2>. QED
    BY <1>1, <2>2, <2>3
<1>3. CASE /\ m_alternative_chains' = Restrict(m_alternative_chains,
                DOMAIN m_alternative_chains \ ToSet(sw.alt_chain))
           /\ Leave("added")
  <2>1. SideTypeOK'
    BY <1>1, <1>3, RestrictType DEF SideTypeOK
  <2>. QED
    BY <1>1, <1>3, <2>1, LeaveType, BetweenCalls DEF Returns
<1>. QED
  BY <1>2, <1>3 DEF PushOldChain

\* Dropping the failed alternative chain keeps the invariant.
LEMMA RollbackDoneInv ==
  ASSUME IInv, RollbackDone
  PROVE  IInv'
<1>. USE DEF IInv, TypeOK
<1>1. /\ ChainTypeOK' /\ PoolTypeOK' /\ ChainConsistent' /\ CallTypeOK' /\ CallsOK'
      /\ m_is_in_checkpoint_zone' \in BOOLEAN /\ now' \in BOOLEAN /\ unwound' \in BOOLEAN
  <2>1. PICK r \in {"failed", "caught", "rolled_back"} : Leave(r)
    BY DEF RollbackDone
  <2>2. CallTypeOK' /\ CallsOK'
    BY <2>1, LeaveType, BetweenCalls DEF Returns
  <2>. QED
    BY <2>2, StoreKept, PoolKept, ChainKept DEF RollbackDone, chainVars
<1>2. CASE sw.why = "connect"
  <2>1. FiledAsInvalid \subseteq Blocks
    BY DEF CallTypeOK, Switches, FiledAsInvalid
  <2>2. m_invalid_blocks' \subseteq Blocks
    BY <1>2, <2>1 DEF RollbackDone, SideTypeOK
  <2>3. PICK S \in SUBSET DOMAIN m_alternative_chains :
          m_alternative_chains' = Restrict(m_alternative_chains, S)
    BY <1>2 DEF RollbackDone
  <2>4. SideTypeOK'
    BY <2>2, <2>3, RestrictType DEF SideTypeOK
  <2>. QED
    BY <1>1, <2>4
<1>3. CASE sw.why # "connect"
  BY <1>1, <1>3, SideKept DEF RollbackDone
<1>. QED
  BY <1>2, <1>3

\* The daemon command rollback starts its pops with the invariant.
LEMMA RollbackBlockchainInv ==
  ASSUME IInv, NEW height \in RollbackHeights, rollback_blockchain(height)
  PROVE  IInv'
<1>. USE DEF IInv, TypeOK
<1>1. /\ ChainTypeOK' /\ SideTypeOK' /\ PoolTypeOK' /\ ChainConsistent'
      /\ m_is_in_checkpoint_zone' \in BOOLEAN /\ now' \in BOOLEAN /\ unwound' \in BOOLEAN
  BY StoreKept, SideKept, PoolKept, ChainKept DEF rollback_blockchain, chainVars
<1>2. height \in Nat
  BY StorageAssumption
<1>3. sw' \in Switches
  BY <1>2, CommandStart, NoLocalsType, MainIdsType DEF rollback_blockchain
<1>4. CallTypeOK' /\ pc' \in Between
  BY <1>3 DEF rollback_blockchain, CallTypeOK, Pcs, Between
<1>. QED
  BY <1>1, <1>4, BetweenCalls

\* A step back along the alternative chain keeps the invariant.
LEMMA CollectInv ==
  ASSUME IInv, CollectAlternativeChain
  PROVE  IInv'
<1>. USE DEF IInv, TypeOK
<1>1. /\ ChainTypeOK' /\ PoolTypeOK' /\ ChainConsistent' /\ SideTypeOK'
      /\ m_is_in_checkpoint_zone' \in BOOLEAN /\ now' \in BOOLEAN /\ unwound' \in BOOLEAN
  BY StoreKept, PoolKept, ChainKept, SideKept DEF CollectAlternativeChain, chainVars
<1>2. alt.it \in Blocks /\ alt.chain \in Seq(Blocks)
  BY DEF CollectAlternativeChain, SideTypeOK, CallTypeOK, AltCalls
<1>3. /\ <<alt.it>> \o alt.chain \in Seq(Blocks) /\ <<alt.it>> \o alt.chain # <<>>
      /\ \A i \in DOMAIN (<<alt.it>> \o alt.chain) :
           (<<alt.it>> \o alt.chain)[i] \in DOMAIN m_alternative_chains
  <2>1. \A i \in DOMAIN alt.chain : alt.chain[i] \in DOMAIN m_alternative_chains
    BY <1>2 DEF CollectAlternativeChain, CallsOK
  <2>. QED
    BY <1>2, <2>1, ConsProperties DEF CollectAlternativeChain
<1>4. alt'.chain = <<alt.it>> \o alt.chain /\ alt' \in AltCalls
  BY <1>2, <1>3, StorageAssumption
     DEF CollectAlternativeChain, NextInAlternativeChain, CallTypeOK, AltCalls
<1>5. CallTypeOK' /\ CallsOK'
  BY <1>3, <1>4 DEF CollectAlternativeChain, CallTypeOK, CallsOK, sideVars
<1>. QED
  BY <1>1, <1>5

\* An id of the index is found at a height of the main chain.
LEMMA HeightOfType ==
  ASSUME ChainTypeOK, ChainConsistent, NEW id, InIndex(id)
  PROVE  HeightOf(id) \in Nat /\ HeightOf(id) + 1 \in 1..Size /\ BlockAt(HeightOf(id)) = id
<1>. DEFINE i == CHOOSE j \in DOMAIN m_blocks_index : m_blocks_index[j] = id
<1>1. i \in DOMAIN m_blocks_index /\ m_blocks_index[i] = id
  BY DEF InIndex
<1>2. DOMAIN m_blocks_index = 1..Size /\ \A j \in 1..Size : m_blocks_index[j] = m_blocks[j].bl
  BY DEF ChainConsistent
<1>3. Size \in Nat
  BY TopType
<1>4. HeightOf(id) = i - 1
  BY DEF HeightOf
<1>. HIDE DEF i
<1>. QED
  BY <1>1, <1>2, <1>3, <1>4 DEF BlockAt

\* The height, the connection height and the difficulty that
\* handle_alternative_block computes for a block with a known parent are numbers.
LEMMA AltValuesType ==
  ASSUME IInv, pc = "collect", alt.it \notin DOMAIN m_alternative_chains
  PROVE  AltHeight \in Nat /\ ConnectionHeight \in Nat /\ PrevDifficulty \in Nat
<1>. USE DEF IInv, TypeOK
<1>1. CASE alt.chain = <<>>
  <2>1. InIndex(Prev[alt.bl])
    BY <1>1 DEF CallsOK
  <2>2. HeightOf(Prev[alt.bl]) \in Nat /\ HeightOf(Prev[alt.bl]) + 1 \in 1..Size
    BY <2>1, HeightOfType
  <2>3. m_blocks[HeightOf(Prev[alt.bl]) + 1] \in BlockEntry
    BY <2>2 DEF ChainTypeOK, Size
  <2>. QED
    BY <1>1, <2>2, <2>3 DEF AltHeight, ConnectionHeight, PrevDifficulty, BlockEntry
<1>2. CASE alt.chain # <<>>
  <2>1. alt.chain \in Seq(Blocks)
    BY DEF CallTypeOK, AltCalls
  <2>2. /\ Last(alt.chain) \in DOMAIN m_alternative_chains
        /\ Head(alt.chain) \in DOMAIN m_alternative_chains
    BY <1>2, <2>1, LastProperties DEF CallsOK
  <2>3. /\ m_alternative_chains[Last(alt.chain)] \in AltEntry
        /\ m_alternative_chains[Head(alt.chain)] \in AltEntry
    BY <2>2 DEF SideTypeOK
  <2>. QED
    BY <1>2, <2>3 DEF AltHeight, ConnectionHeight, PrevDifficulty, AltEntry
<1>. QED
  BY <1>1, <1>2

\* Accepting or declining an alternative block keeps the invariant.
LEMMA AcceptAlternativeInv ==
  ASSUME IInv, AcceptAlternativeBlock
  PROVE  IInv'
<1>. USE DEF IInv, TypeOK
<1>1. /\ ChainTypeOK' /\ PoolTypeOK' /\ ChainConsistent' /\ m_invalid_blocks' \subseteq Blocks
      /\ now' \in BOOLEAN /\ unwound' \in BOOLEAN
  BY StoreKept, PoolKept, ChainKept DEF AcceptAlternativeBlock, chainVars, SideTypeOK
<1>2. m_is_in_checkpoint_zone' \in BOOLEAN
  <2>1. is_in_checkpoint_zone(AltHeight) \in BOOLEAN
    BY DEF is_in_checkpoint_zone
  <2>. QED
    BY <2>1 DEF AcceptAlternativeBlock
<1>3. AltHeight \in Nat /\ ConnectionHeight \in Nat /\ PrevDifficulty \in Nat
  BY AltValuesType DEF AcceptAlternativeBlock
<1>4. alt.bl \in Blocks /\ alt.chain \in Seq(Blocks) /\ alt.caller \in {"add", "repush"}
  BY DEF CallTypeOK, AltCalls
<1>5. CASE AltReturns(alt.caller, FALSE, "failed") /\ UNCHANGED m_alternative_chains
  <2>1. SideTypeOK'
    BY <1>1, <1>5 DEF SideTypeOK
  <2>. QED
    BY <1>1, <1>2, <1>5, <2>1, AltReturnsType, BetweenCalls DEF Returns
<1>. DEFINE entry == [height |-> AltHeight,
                      cumulative_difficulty |-> PrevDifficulty + Difficulty[alt.bl]]
<1>6. CASE /\ m_alternative_chains' = [x \in DOMAIN m_alternative_chains \cup {alt.bl} |->
                                         IF x = alt.bl THEN entry ELSE m_alternative_chains[x]]
           /\ \/ StartSwitch(Append(alt.chain, alt.bl))
              \/ AltReturns(alt.caller, TRUE, "alternative")
  <2>1. entry \in AltEntry
    BY <1>3, <1>4, StorageAssumption DEF AltEntry
  <2>2. SideTypeOK'
    <3>. HIDE DEF entry
    <3>. QED
      BY <1>1, <1>4, <1>6, <2>1 DEF SideTypeOK
  <2>3. CASE AltReturns(alt.caller, TRUE, "alternative")
    BY <1>1, <1>2, <2>2, <2>3, AltReturnsType, BetweenCalls DEF Returns
  <2>4. CASE StartSwitch(Append(alt.chain, alt.bl))
    <3>1. Append(alt.chain, alt.bl) \in Seq(Blocks)
      BY <1>4
    <3>2. [NoSwitch EXCEPT !.alt_chain = Append(alt.chain, alt.bl),
                           !.split_height = ConnectionHeight,
                           !.before = MainIds] \in Switches
      BY <1>3, <3>1, SwitchStart, NoLocalsType, MainIdsType
    <3>3. CallTypeOK' /\ pc' \in Between
      BY <2>4, <3>2, NoLocalsType DEF StartSwitch, CallTypeOK, Pcs, Between
    <3>. QED
      BY <1>1, <1>2, <2>2, <3>3, BetweenCalls
  <2>. QED
    BY <1>6, <2>3, <2>4
<1>. QED
  BY <1>5, <1>6 DEF AcceptAlternativeBlock

=============================================================================
