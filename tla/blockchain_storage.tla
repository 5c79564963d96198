------------------------- MODULE blockchain_storage -------------------------
(***************************************************************************)
(* The block store of currency_core/blockchain_storage.cpp and the pool it *)
(* takes its transactions from: adding a block to the main chain, keeping  *)
(* alternative chains, switching to one of them and rolling back.          *)
(*                                                                         *)
(* add_new_block holds the pool lock and m_blockchain_lock from its first  *)
(* line to its return.  Its loops (over the transactions of a block, over  *)
(* the blocks of a chain) are unrolled into one step per iteration; pc and *)
(* the records frame, alt and sw hold the position in the call and the     *)
(* locals.  While pc # "idle" only the next step of the call can happen.   *)
(* The daemon command rollback holds m_blockchain_lock only, so the pool   *)
(* may be used between its steps.                                          *)
(***************************************************************************)
EXTENDS Integers, Sequences, SequencesExt, FiniteSetsExt, checkpoints, aliases, tx_pool

CONSTANTS Blocks, Genesis, NoBlock,
          Prev,         \* prev_id of a block
          BlockHeight,  \* the height in the coinbase input of a block
          BlockTxs,     \* its transactions, the coinbase first
          Difficulty,   \* the difficulty its position on its chain asks for
          Verdict,      \* what the checks of a block's own data say, see below
          UnlockTime,   \* unlock_time of a transaction
          AliasOf,      \* the alias_info in a transaction's extra, or NoAlias
          RollbackHeights,  \* the heights the operator may roll back to
          CURRENCY_MAX_BLOCK_NUMBER,
          CURRENCY_LOCKED_TX_ALLOWED_DELTA_BLOCKS,
          CURRENCY_ALT_BLOCK_LIVETIME_COUNT

(***************************************************************************)
(* Verdict[b]: "bad_header" fails the median timestamp or the proof of     *)
(* work on any chain; "future" fails check_block_timestamp_main until the  *)
(* clock has moved on, a check that alternative blocks do not get;         *)
(* "bad_reward" fails validate_miner_transaction, which runs after the     *)
(* transactions are in.  Of prevalidate_miner_transaction the height check *)
(* is modelled; the rest of it says yes.                                   *)
(***************************************************************************)
Verdicts == {"valid", "bad_header", "future", "bad_reward"}

ASSUME StorageAssumption ==
  /\ Genesis \in Blocks /\ NoBlock \notin Blocks
  /\ Prev \in [Blocks -> Blocks \cup {NoBlock}] /\ Prev[Genesis] = NoBlock
  /\ BlockHeight \in [Blocks -> Nat]
  /\ BlockTxs \in [Blocks -> Seq(Txs)]
  /\ \A b \in Blocks : /\ BlockTxs[b] # <<>>
                       /\ is_coinbase(BlockTxs[b][1])
                       /\ \A i \in 2..Len(BlockTxs[b]) : ~is_coinbase(BlockTxs[b][i])
  /\ Difficulty \in [Blocks -> Nat \ {0}]
  /\ Verdict \in [Blocks -> Verdicts]
  /\ UnlockTime \in [Txs -> Nat]
  /\ AliasOf \in [Txs -> AliasInfo \cup {NoAlias}] /\ NoAlias \notin AliasInfo
  /\ PoolAliases = AliasNames
  /\ RollbackHeights \subseteq Nat
  /\ CURRENCY_MAX_BLOCK_NUMBER \in Nat
  /\ CURRENCY_LOCKED_TX_ALLOWED_DELTA_BLOCKS \in Nat
  /\ CURRENCY_ALT_BLOCK_LIVETIME_COUNT \in Nat
  /\ Len(BlockTxs[Genesis]) = 1 /\ AliasOf[BlockTxs[Genesis][1]] = NoAlias

VARIABLES
  m_blocks,              \* the main chain: [bl, cumulative_difficulty] by height
  m_blocks_index,        \* the ids of the main chain
  m_transactions,        \* where a transaction is: [block, transaction]
  m_spent_keys,          \* key images spent on the main chain
  m_outputs,             \* global output index: the transaction of each output
  m_aliases,             \* history of every alias name
  m_alternative_chains,  \* [height, cumulative_difficulty] of side blocks
  m_invalid_blocks,
  m_is_in_checkpoint_zone,
  pool,                  \* m_tx_pool
  now,                   \* FALSE until "future" blocks have become acceptable
                         \* and outputs locked by time are spendable
  pc,                    \* position in the running add_new_block, or "idle"
  frame,                 \* locals of handle_block_to_main_chain, pop_block...
  alt,                   \* locals of handle_alternative_block
  sw,                    \* locals of switch_to_alternative_blockchain
  incoming,              \* a handle_incoming_tx between its check and its insert
  ret,                   \* how the last add_new_block ended
  unwound                \* TRUE once an exception has left an operation half done

chainVars == <<m_blocks, m_blocks_index, m_transactions, m_spent_keys,
               m_outputs, m_aliases>>
sideVars == <<m_alternative_chains, m_invalid_blocks>>
vars == <<m_blocks, m_blocks_index, m_transactions, m_spent_keys, m_outputs,
          m_aliases, m_alternative_chains, m_invalid_blocks,
          m_is_in_checkpoint_zone, pool, now, pc, frame, alt, sw, incoming,
          ret, unwound>>

TransactionIndex == [block : Nat, transaction : Nat]
BlockEntry == [bl : Blocks, cumulative_difficulty : Nat]
AltEntry == [height : Nat, cumulative_difficulty : Nat]

-----------------------------------------------------------------------------
(* Reading the store. *)

Size == Len(m_blocks)
TopBlock == m_blocks[Size].bl
TopDifficulty == m_blocks[Size].cumulative_difficulty
BlockAt(height) == m_blocks[height + 1].bl
InIndex(id) == \E i \in DOMAIN m_blocks_index : m_blocks_index[i] = id
HeightOf(id) == (CHOOSE i \in DOMAIN m_blocks_index : m_blocks_index[i] = id) - 1

have_block(id) == \/ InIndex(id)
                  \/ id \in DOMAIN m_alternative_chains
                  \/ id \in m_invalid_blocks

\* transactionByIndex reads m_blocks[index.block], which throws beyond the last
\* block; an index beyond the block's transactions is undefined behaviour.
ReadThrows(index) == index.block >= Size
ReadUndefined(index) ==
  /\ ~ReadThrows(index)
  /\ index.transaction >= Len(BlockTxs[BlockAt(index.block)])
transactionByIndex(index) ==
  BlockTxs[BlockAt(index.block)][index.transaction + 1]

\* "interpret as block index", or "interpret as time".
is_tx_spendtime_unlocked(unlock_time) ==
  IF unlock_time < CURRENCY_MAX_BLOCK_NUMBER
  THEN Size - 1 + CURRENCY_LOCKED_TX_ALLOWED_DELTA_BLOCKS >= unlock_time
  ELSE now

\* The ring signature was made for the output of transaction in.key, so it
\* holds exactly when that output is the one found at the global index.
check_tx_input(in, undefined) ==
  LET index == m_outputs[in.offset + 1] IN
  CASE in.offset >= Len(m_outputs) -> "fail"
    [] in.offset < Len(m_outputs) /\ ReadThrows(index) -> "throw"
    [] in.offset < Len(m_outputs) /\ ReadUndefined(index) -> undefined
    [] OTHER ->
         IF /\ transactionByIndex(index) \in DOMAIN m_transactions
            /\ is_tx_spendtime_unlocked(UnlockTime[transactionByIndex(index)])
            /\ m_is_in_checkpoint_zone \/ transactionByIndex(index) = in.key
         THEN "ok" ELSE "fail"

\* Mutant: a spent key image is not looked up.
check_tx_inputs_spent_allowed(spent_keys, t, signed, undefined) ==
  LET wrong == {i \in DOMAIN Vin[t] : check_tx_input(Vin[t][i], undefined) # "ok"}
  IN IF wrong = {} THEN "ok" ELSE check_tx_input(Vin[t][Min(wrong)], undefined)

\* The first input that is not in order decides.  Outside the checkpoint zone a
\* transaction needs a signature for every input.
check_tx_inputs(spent_keys, t, signed, undefined) ==
  LET result(i) == IF \/ Vin[t][i].k_image \in spent_keys
                      \/ ~m_is_in_checkpoint_zone /\ ~signed
                   THEN "fail" ELSE check_tx_input(Vin[t][i], undefined)
      wrong == {i \in DOMAIN Vin[t] : result(i) # "ok"}
  IN IF wrong = {} THEN "ok" ELSE result(Min(wrong))

Undefined == {"fail", "throw"}

-----------------------------------------------------------------------------
(* Calls and returns. *)

NoFrame == [bl |-> Genesis, n |-> 0, ok |-> TRUE, caller |-> "add"]
NoAlt == [bl |-> Genesis, it |-> Genesis, chain |-> <<>>, caller |-> "add"]
NoSwitch == [alt_chain |-> <<>>, next |-> 1, split_height |-> 0,
             disconnected |-> <<>>, re |-> 1, why |-> "connect", panic |-> FALSE,
             before |-> <<>>]

Leave(r) ==
  /\ pc' = "idle" /\ frame' = NoFrame /\ alt' = NoAlt /\ sw' = NoSwitch
  /\ ret' = r

\* An exception leaves every call; inside a chain switch the handler of
\* handle_alternative_block turns it into a plain "false".
Unwind ==
  /\ Leave(IF frame.caller = "add" \/ sw.why = "command" THEN "threw" ELSE "caught")
  /\ unwound' = TRUE

\* handle_block_to_main_chain returns to add_new_block, to the loop of
\* switch_to_alternative_blockchain or to that of rollback_blockchain_switching.
ConnectReturns(caller, ok) ==
  \/ /\ caller = "add"
     /\ Leave(IF ok THEN "added" ELSE "failed")
  \/ /\ caller = "switch"
     /\ IF ok THEN /\ pc' = "switch_connect"
                   /\ sw' = [sw EXCEPT !.next = @ + 1]
              ELSE /\ pc' = "rollback_pop"
                   /\ sw' = [sw EXCEPT !.why = "connect"]
     /\ frame' = NoFrame /\ UNCHANGED <<alt, ret>>
  \/ /\ caller = "rollback"
     /\ IF ok THEN /\ pc' = "rollback_connect"
                   /\ sw' = [sw EXCEPT !.re = @ + 1]
              ELSE /\ pc' = "rollback_done"
                   /\ sw' = [sw EXCEPT !.panic = TRUE]
     /\ frame' = NoFrame /\ UNCHANGED <<alt, ret>>

\* disconnected_chain.push_front
PushFront(b) == <<b>> \o sw.disconnected

\* pop_block_from_blockchain returns to one of the two loops that pop blocks;
\* a switch that cannot pop gives up without a rollback.
PopReturns(ok) ==
  \/ /\ frame.caller = "switch" /\ ~ok
     /\ Leave("failed")
  \/ /\ frame.caller = "switch" /\ ok
     /\ pc' = "switch_pop"
     /\ sw' = [sw EXCEPT !.disconnected = PushFront(frame.bl)]
     /\ frame' = NoFrame /\ UNCHANGED <<alt, ret>>
  \/ /\ frame.caller = "rollback"
     /\ IF ok THEN pc' = "rollback_pop" /\ UNCHANGED sw
              ELSE /\ pc' = "rollback_done"
                   /\ sw' = [sw EXCEPT !.panic = TRUE]
     /\ frame' = NoFrame /\ UNCHANGED <<alt, ret>>

\* handle_alternative_block returns to add_new_block or to the loop that files
\* the disconnected blocks as an alternative chain.
AltReturns(caller, ok, r) ==
  \/ /\ caller = "add"
     /\ Leave(r)
  \/ /\ caller = "repush"
     /\ IF ok THEN /\ pc' = "repush"
                   /\ sw' = [sw EXCEPT !.re = @ + 1]
              ELSE /\ pc' = "rollback_pop"
                   /\ sw' = [sw EXCEPT !.why = "repush"]
     /\ alt' = NoAlt /\ UNCHANGED <<frame, ret>>

-----------------------------------------------------------------------------
(* Adding a transaction of a block to the indexes. *)

process_blockchain_tx_extra_ok(t) ==
  AliasOf[t] # NoAlias => put_alias_info_ok(m_aliases, AliasOf[t])

process_blockchain_tx_extra(t) ==
  IF AliasOf[t] = NoAlias THEN m_aliases ELSE put_alias_info(m_aliases, AliasOf[t])

\* Mutants: transactions are counted from the wrong end; the key images of the
\* inputs are forgotten.
AddTransactionOffByOne(t, bl_height, tx_index) ==
  LET index == [block |-> bl_height, transaction |-> tx_index - 1] IN
  /\ m_transactions' = [x \in DOMAIN m_transactions \cup {t} |->
                          IF x = t THEN index ELSE m_transactions[x]]
  /\ m_outputs' = Append(m_outputs, index)
  /\ UNCHANGED <<m_spent_keys, m_aliases>>
AddTransactionUnspent(t, bl_height, tx_index) ==
  LET index == [block |-> bl_height, transaction |-> tx_index] IN
  /\ m_transactions' = [x \in DOMAIN m_transactions \cup {t} |->
                          IF x = t THEN index ELSE m_transactions[x]]
  /\ m_outputs' = Append(m_outputs, index)
  /\ m_aliases' = process_blockchain_tx_extra(t)
  /\ UNCHANGED m_spent_keys

\* The key images have been checked under the same lock, so the inputs go in.
AddTransaction(t, bl_height, tx_index) ==
  LET index == [block |-> bl_height, transaction |-> tx_index] IN
  /\ m_transactions' = [x \in DOMAIN m_transactions \cup {t} |->
                          IF x = t THEN index ELSE m_transactions[x]]
  /\ m_spent_keys' = m_spent_keys \cup Images(t)
  /\ m_outputs' = Append(m_outputs, index)
  /\ m_aliases' = process_blockchain_tx_extra(t)

add_transaction_from_block_ok(t) ==
  process_blockchain_tx_extra_ok(t) /\ t \notin DOMAIN m_transactions

\* Duplicate transaction: the key images are taken out again, the alias only
\* when unprocess_blockchain_tx_extra handles the transaction, a coinbase.
AliasesAfterDuplicate(t) ==
  IF process_blockchain_tx_extra_ok(t) /\ ~is_coinbase(t)
  THEN process_blockchain_tx_extra(t) ELSE m_aliases

-----------------------------------------------------------------------------
(* handle_block_to_main_chain *)

\* Checks before anything is written, in the order of the code; the flag
\* m_is_in_checkpoint_zone is set once the proof of work has been accepted.
HeaderAccepted(b) ==
  /\ Prev[b] = TopBlock
  /\ Verdict[b] = "future" => now
  /\ Verdict[b] # "bad_header"

\* Mutant: the checkpoint is not compared.
PrevalidationWithoutCheckpoint(b) == BlockHeight[b] = Size

PrevalidationAccepted(b) ==
  /\ is_in_checkpoint_zone(Size) => check_block(Size, b)
  /\ BlockHeight[b] = Size

HandleBlockToMainChain(b, caller) ==
  LET coinbase == BlockTxs[b][1] IN
  \/ /\ ~HeaderAccepted(b)
     /\ ConnectReturns(caller, FALSE)
     /\ UNCHANGED <<chainVars, m_is_in_checkpoint_zone>>
  \/ /\ HeaderAccepted(b)
     /\ m_is_in_checkpoint_zone' = is_in_checkpoint_zone(Size)
     /\ \/ /\ ~PrevalidationAccepted(b) \/ ~add_transaction_from_block_ok(coinbase)
           /\ ConnectReturns(caller, FALSE)
           /\ UNCHANGED chainVars
        \/ /\ PrevalidationAccepted(b)
           /\ add_transaction_from_block_ok(coinbase)
           /\ AddTransaction(coinbase, Size, 0)
           /\ pc' = "connect"
           /\ frame' = [bl |-> b, n |-> 1, ok |-> TRUE, caller |-> caller]
           /\ UNCHANGED <<m_blocks, m_blocks_index, alt, sw, ret>>

\* Every rejection from here on calls purge_block_data_from_blockchain, which
\* starts with the transaction added last.  Its index names the block that is
\* not in m_blocks yet, so the read throws and nothing is purged.
Reject ==
  /\ ReadThrows(m_transactions[BlockTxs[frame.bl][frame.n]])
  /\ Unwind

\* "If we under checkpoints, ring signatures should be pruned": the copy taken
\* from the pool loses them before its inputs are checked.
ConnectTransaction ==
  /\ pc = "connect" /\ frame.n < Len(BlockTxs[frame.bl])
  /\ LET t == BlockTxs[frame.bl][frame.n + 1]
         taken == take_tx(pool, t)
         signed == pool.transactions[t].signed /\ ~m_is_in_checkpoint_zone
     IN \E undefined \in Undefined :
        LET inputs == check_tx_inputs(m_spent_keys, t, signed, undefined) IN
        \/ /\ ~have_tx(pool, t)
           /\ Reject
           /\ UNCHANGED <<chainVars, pool>>
        \/ /\ have_tx(pool, t) /\ inputs = "throw"
           /\ pool' = taken
           /\ Unwind
           /\ UNCHANGED chainVars
        \/ /\ have_tx(pool, t) /\ inputs = "fail"
           /\ pool' = add_tx(taken, t, TRUE, signed, FALSE, NoAlias)
           /\ Reject
           /\ UNCHANGED chainVars
        \/ /\ have_tx(pool, t) /\ inputs = "ok" /\ ~add_transaction_from_block_ok(t)
           /\ pool' = add_tx(taken, t, TRUE, signed, TRUE, NoAlias)
           /\ m_aliases' = AliasesAfterDuplicate(t)
           /\ Reject
           /\ UNCHANGED <<m_blocks, m_blocks_index, m_transactions, m_spent_keys,
                          m_outputs>>
        \/ /\ have_tx(pool, t) /\ inputs = "ok" /\ add_transaction_from_block_ok(t)
           /\ pool' = taken
           /\ AddTransaction(t, Size, frame.n)
           /\ frame' = [frame EXCEPT !.n = @ + 1]
           /\ UNCHANGED <<m_blocks, m_blocks_index, pc, alt, sw, ret, unwound>>
  /\ UNCHANGED <<sideVars, m_is_in_checkpoint_zone, now, incoming>>

ConnectBlock ==
  /\ pc = "connect" /\ frame.n = Len(BlockTxs[frame.bl])
  /\ \/ /\ Verdict[frame.bl] = "bad_reward" \/ InIndex(frame.bl)
        /\ Reject
        /\ UNCHANGED chainVars
     \/ /\ Verdict[frame.bl] # "bad_reward" /\ ~InIndex(frame.bl)
        /\ m_blocks_index' = Append(m_blocks_index, frame.bl)
        /\ m_blocks' = Append(m_blocks,
             [bl |-> frame.bl,
              cumulative_difficulty |-> TopDifficulty + Difficulty[frame.bl]])
        /\ ConnectReturns(frame.caller, TRUE)
        /\ UNCHANGED <<m_transactions, m_spent_keys, m_outputs, m_aliases, unwound>>
  /\ UNCHANGED <<sideVars, m_is_in_checkpoint_zone, pool, now, incoming>>

-----------------------------------------------------------------------------
(* pop_block_from_blockchain *)

BeginPop(caller) ==
  \/ /\ Size > 1
     /\ pc' = "pop"
     /\ frame' = [bl |-> TopBlock, n |-> Len(BlockTxs[TopBlock]), ok |-> TRUE,
                  caller |-> caller]
     /\ UNCHANGED <<alt, sw, ret>>
  \/ /\ Size <= 1 /\ caller = "switch"
     /\ Leave("failed")
  \/ /\ Size <= 1 /\ caller = "rollback"
     /\ pc' = "rollback_done"
     /\ sw' = [sw EXCEPT !.panic = TRUE]
     /\ UNCHANGED <<frame, alt, ret>>

\* Mutant: the key images stay spent.
PurgeNoKeyImages(t) == m_spent_keys

\* The strict visitor stops at the first image that is not filed as spent.
purge_transaction_keyimages_from_blockchain(t) ==
  m_spent_keys \ {Vin[t][i].k_image : i \in {j \in DOMAIN Vin[t] :
                    \A l \in 1..j : Vin[t][l].k_image \in m_spent_keys}}

unprocess_blockchain_tx_extra_ok(t) ==
  is_coinbase(t) /\ AliasOf[t] # NoAlias => pop_alias_info_ok(m_aliases, AliasOf[t])

\* Mutant: the alias stays registered.
UnprocessNothing(t) == m_aliases

unprocess_blockchain_tx_extra(t) ==
  IF is_coinbase(t) /\ AliasOf[t] # NoAlias
  THEN pop_alias_info(m_aliases, AliasOf[t]) ELSE m_aliases

\* Whether the last global output belongs to t: "ok", "fail" or "throw".
pop_transaction_from_global_index(t, undefined) ==
  CASE m_outputs = <<>> -> "fail"
    [] m_outputs # <<>> /\ ReadThrows(Last(m_outputs)) -> "throw"
    [] m_outputs # <<>> /\ ReadUndefined(Last(m_outputs)) -> undefined
    [] OTHER -> IF transactionByIndex(Last(m_outputs)) = t THEN "ok" ELSE "fail"

\* purge_transaction_from_blockchain, once for every transaction of the block,
\* from the last to the coinbase.  A failed purge is remembered in ok, and the
\* loop goes on; an exception leaves what the purge has written so far.
PurgeTransaction ==
  /\ pc = "pop" /\ frame.n > 0
  /\ LET t == BlockTxs[frame.bl][frame.n]
         x == transactionByIndex(m_transactions[t])
         spent == purge_transaction_keyimages_from_blockchain(x)
         signed == ~is_in_checkpoint_zone(m_transactions[t].block)
         next(ok) == /\ frame' = [frame EXCEPT !.n = @ - 1, !.ok = @ /\ ok]
                     /\ UNCHANGED <<pc, alt, sw, ret, unwound>>
     IN \E undefined \in Undefined :
        LET readmitted == IF is_coinbase(x) THEN "ok"
                          ELSE check_tx_inputs(spent, x, signed, undefined)
            popped == pop_transaction_from_global_index(t, undefined)
        IN
        \/ /\ t \notin DOMAIN m_transactions
           /\ next(FALSE)
           /\ UNCHANGED <<m_transactions, m_spent_keys, m_outputs, m_aliases, pool>>
        \/ /\ t \in DOMAIN m_transactions
           /\ ReadThrows(m_transactions[t]) \/ ReadUndefined(m_transactions[t])
           /\ Unwind
           /\ UNCHANGED <<m_transactions, m_spent_keys, m_outputs, m_aliases, pool>>
        \/ /\ t \in DOMAIN m_transactions
           /\ ~ReadThrows(m_transactions[t]) /\ ~ReadUndefined(m_transactions[t])
           /\ m_spent_keys' = spent
           /\ \/ /\ ~unprocess_blockchain_tx_extra_ok(x)
                 /\ next(FALSE)
                 /\ UNCHANGED <<m_transactions, m_outputs, m_aliases, pool>>
              \/ /\ unprocess_blockchain_tx_extra_ok(x)
                 /\ m_aliases' = unprocess_blockchain_tx_extra(x)
                 /\ pool' = IF is_coinbase(x) \/ readmitted = "throw" THEN pool
                            ELSE add_tx(pool, x, TRUE, signed, readmitted = "ok", NoAlias)
                 /\ IF readmitted = "throw" \/ popped = "throw"
                    THEN Unwind /\ UNCHANGED <<m_transactions, m_outputs>>
                    ELSE /\ m_outputs' = IF popped = "ok" THEN Front(m_outputs)
                                                          ELSE m_outputs
                         /\ m_transactions' =
                              Restrict(m_transactions, DOMAIN m_transactions \ {t})
                         /\ next(popped = "ok")
  /\ UNCHANGED <<m_blocks, m_blocks_index, sideVars, m_is_in_checkpoint_zone, now,
                 incoming>>

PopBlock ==
  /\ pc = "pop" /\ frame.n = 0
  /\ LET done == frame.ok /\ m_blocks_index # <<>> /\ Last(m_blocks_index) = frame.bl
     IN /\ IF done THEN m_blocks_index' = Front(m_blocks_index) /\ m_blocks' = Front(m_blocks)
                   ELSE UNCHANGED <<m_blocks_index, m_blocks>>
        /\ PopReturns(done)
  /\ UNCHANGED <<m_transactions, m_spent_keys, m_outputs, m_aliases, sideVars,
                 m_is_in_checkpoint_zone, pool, now, incoming, unwound>>

-----------------------------------------------------------------------------
(* handle_alternative_block *)

HandleAlternativeBlock(b, caller) ==
  \/ /\ is_height_passed_zone(BlockHeight[b], Size - 1)
     /\ AltReturns(caller, FALSE, "failed")
  \/ /\ ~is_height_passed_zone(BlockHeight[b], Size - 1)
     /\ Prev[b] \notin DOMAIN m_alternative_chains /\ ~InIndex(Prev[b])
     /\ AltReturns(caller, TRUE, "orphaned")
  \/ /\ ~is_height_passed_zone(BlockHeight[b], Size - 1)
     /\ Prev[b] \in DOMAIN m_alternative_chains \/ InIndex(Prev[b])
     /\ pc' = "collect"
     /\ alt' = [bl |-> b, it |-> Prev[b], chain |-> <<>>, caller |-> caller]
     /\ UNCHANGED <<frame, sw, ret>>

\* Mutant: the iterator of the loop does not move.
SameInAlternativeChain == alt

NextInAlternativeChain == [alt EXCEPT !.it = Prev[alt.it], !.chain = <<alt.it>> \o @]

\* The loop that builds the alternative chain, front -> main chain.
CollectAlternativeChain ==
  /\ pc = "collect" /\ alt.it \in DOMAIN m_alternative_chains
  /\ alt' = NextInAlternativeChain
  /\ UNCHANGED <<chainVars, sideVars, m_is_in_checkpoint_zone, pool, now, pc, frame,
                 sw, incoming, ret, unwound>>

AltHeight == IF alt.chain # <<>> THEN m_alternative_chains[Last(alt.chain)].height + 1
                                 ELSE HeightOf(Prev[alt.bl]) + 1

ConnectionHeight == IF alt.chain # <<>> THEN m_alternative_chains[Head(alt.chain)].height
                                        ELSE AltHeight

\* Mutants: the work of the first block of the side chain, or of the block before
\* the parent, is taken.
PrevDifficultyOffByOne ==
  IF alt.chain # <<>> THEN m_alternative_chains[Last(alt.chain)].cumulative_difficulty
  ELSE m_blocks[HeightOf(Prev[alt.bl])].cumulative_difficulty
PrevDifficultyOfFront ==
  IF alt.chain # <<>> THEN m_alternative_chains[Head(alt.chain)].cumulative_difficulty
  ELSE m_blocks[HeightOf(Prev[alt.bl]) + 1].cumulative_difficulty

PrevDifficulty ==
  IF alt.chain # <<>> THEN m_alternative_chains[Last(alt.chain)].cumulative_difficulty
  ELSE m_blocks[HeightOf(Prev[alt.bl]) + 1].cumulative_difficulty

\* "make sure that it has right connection to main chain"; the scratchpad
\* offset of the main block at that height is read next, and must exist.
WellConnected ==
  /\ alt.chain # <<>> =>
       /\ Size > ConnectionHeight /\ ConnectionHeight > 0
       /\ BlockAt(ConnectionHeight - 1) = Prev[Head(alt.chain)]
  /\ ConnectionHeight < Size

AltPrevalidationAccepted ==
  /\ is_in_checkpoint_zone(AltHeight) => check_block(AltHeight, alt.bl)
  /\ BlockHeight[alt.bl] = AltHeight

\* Mutants: the comparison is off by one, in either direction.
IsBetterByTwo(cumulative_difficulty) == TopDifficulty + 1 < cumulative_difficulty
IsNotWorse(cumulative_difficulty) == TopDifficulty <= cumulative_difficulty

\* "check if difficulty bigger then in main chain"
IsBetter(cumulative_difficulty) == TopDifficulty < cumulative_difficulty

MainIds == [i \in 1..Size |-> m_blocks[i].bl]

\* sw.before is a history: the main chain as the switch found it.
\* A nested switch would need a second set of locals: pc = "nested" marks it,
\* and NoNestedSwitch shows that it is not reached.
StartSwitch(chain) ==
  IF alt.caller = "repush"
  THEN pc' = "nested" /\ UNCHANGED <<frame, alt, sw, ret>>
  ELSE /\ pc' = "switch_pop"
       /\ sw' = [NoSwitch EXCEPT !.alt_chain = chain,
                                 !.split_height = ConnectionHeight,
                                 !.before = MainIds]
       /\ alt' = NoAlt
       /\ UNCHANGED <<frame, ret>>

AcceptAlternativeBlock ==
  /\ pc = "collect" /\ alt.it \notin DOMAIN m_alternative_chains
  /\ \/ /\ ~WellConnected \/ Verdict[alt.bl] = "bad_header"
        /\ AltReturns(alt.caller, FALSE, "failed")
        /\ UNCHANGED <<m_alternative_chains, m_is_in_checkpoint_zone>>
     \/ /\ WellConnected /\ Verdict[alt.bl] # "bad_header"
        /\ m_is_in_checkpoint_zone' = is_in_checkpoint_zone(AltHeight)
        /\ \/ /\ ~AltPrevalidationAccepted \/ alt.bl \in DOMAIN m_alternative_chains
              /\ AltReturns(alt.caller, FALSE, "failed")
              /\ UNCHANGED m_alternative_chains
           \/ /\ AltPrevalidationAccepted /\ alt.bl \notin DOMAIN m_alternative_chains
              /\ LET entry == [height |-> AltHeight,
                               cumulative_difficulty |-> PrevDifficulty + Difficulty[alt.bl]]
                 IN /\ m_alternative_chains' =
                         [x \in DOMAIN m_alternative_chains \cup {alt.bl} |->
                            IF x = alt.bl THEN entry ELSE m_alternative_chains[x]]
                    /\ IF IsBetter(entry.cumulative_difficulty)
                       THEN StartSwitch(Append(alt.chain, alt.bl))
                       ELSE AltReturns(alt.caller, TRUE, "alternative")
  /\ UNCHANGED <<chainVars, m_invalid_blocks, pool, now, incoming, unwound>>

-----------------------------------------------------------------------------
(* switch_to_alternative_blockchain and rollback_blockchain_switching *)

\* "disconnecting old chain"
SwitchPop ==
  /\ pc = "switch_pop"
  /\ IF Size > sw.split_height THEN BeginPop("switch")
     ELSE pc' = "switch_connect" /\ UNCHANGED <<frame, alt, sw, ret>>
  /\ UNCHANGED <<chainVars, sideVars, m_is_in_checkpoint_zone, pool, now, incoming,
                 unwound>>

\* "connecting new alternative chain"
SwitchConnect ==
  /\ pc = "switch_connect"
  /\ IF sw.next <= Len(sw.alt_chain)
     THEN HandleBlockToMainChain(sw.alt_chain[sw.next], "switch")
     ELSE /\ pc' = "repush"
          /\ UNCHANGED <<chainVars, m_is_in_checkpoint_zone, frame, alt, sw, ret>>
  /\ UNCHANGED <<sideVars, pool, now, incoming, unwound>>

\* "pushing old chain as alternative chain", then "removing all_chain entries
\* from alternative chain"
PushOldChain ==
  /\ pc = "repush"
  /\ IF sw.re <= Len(sw.disconnected)
     THEN /\ HandleAlternativeBlock(sw.disconnected[sw.re], "repush")
          /\ UNCHANGED m_alternative_chains
     ELSE /\ m_alternative_chains' = Restrict(m_alternative_chains,
                DOMAIN m_alternative_chains \ ToSet(sw.alt_chain))
          /\ Leave("added")
  /\ UNCHANGED <<chainVars, m_invalid_blocks, m_is_in_checkpoint_zone, pool, now,
                 incoming, unwound>>

\* Mutant: i > rollback_height, so one block too many stays.
RollbackShort == Size > sw.split_height + 1

\* i >= rollback_height
RollbackGoesOn == Size > sw.split_height

\* "remove failed subchain"
RollbackPop ==
  /\ pc = "rollback_pop"
  /\ IF RollbackGoesOn THEN BeginPop("rollback")
     ELSE /\ pc' = "rollback_connect"
          /\ sw' = [sw EXCEPT !.re = 1]
          /\ UNCHANGED <<frame, alt, ret>>
  /\ UNCHANGED <<chainVars, sideVars, m_is_in_checkpoint_zone, pool, now, incoming,
                 unwound>>

\* "return back original chain"
RollbackConnect ==
  /\ pc = "rollback_connect"
  /\ IF sw.re <= Len(sw.disconnected)
     THEN HandleBlockToMainChain(sw.disconnected[sw.re], "rollback")
     ELSE /\ pc' = "rollback_done"
          /\ UNCHANGED <<chainVars, m_is_in_checkpoint_zone, frame, alt, sw, ret>>
  /\ UNCHANGED <<sideVars, pool, now, incoming, unwound>>

\* Mutant: the block that failed stays among the alternative blocks.
DroppedAfterFailed == {sw.alt_chain[i] : i \in {j \in DOMAIN sw.alt_chain : j > sw.next}}

Dropped == {sw.alt_chain[i] : i \in {j \in DOMAIN sw.alt_chain : j >= sw.next}}

\* The failed block and the one after it.
FiledAsInvalid == {sw.alt_chain[i] : i \in DOMAIN sw.alt_chain \cap {sw.next, sw.next + 1}}

\* After the rollback of a failed connect, whatever it returned: the block that
\* failed and the first one after it are filed as invalid and leave the
\* alternative chains.  For every later block the loop reads the entry of that
\* first one again, which has been erased: undefined behaviour.  It files the same
\* id or one that no block has, and the block leaves the alternative chains too;
\* or the copy of the erased entry throws, and the later blocks stay.
RollbackDone ==
  /\ pc = "rollback_done"
  /\ \/ /\ sw.why = "connect"
        /\ m_invalid_blocks' = m_invalid_blocks \cup FiledAsInvalid
        /\ \/ /\ m_alternative_chains' = Restrict(m_alternative_chains,
                   DOMAIN m_alternative_chains \ Dropped)
              /\ Leave("failed") /\ UNCHANGED unwound
           \/ /\ Dropped \ FiledAsInvalid # {}
              /\ m_alternative_chains' = Restrict(m_alternative_chains,
                   DOMAIN m_alternative_chains \ FiledAsInvalid)
              /\ Leave("caught") /\ unwound' = TRUE
     \/ /\ sw.why # "connect"
        /\ Leave(IF sw.why = "command" THEN "rolled_back" ELSE "failed")
        /\ UNCHANGED <<sideVars, unwound>>
  /\ UNCHANGED <<chainVars, m_is_in_checkpoint_zone, pool, now, incoming>>

-----------------------------------------------------------------------------
(* The calls of the core and of the clock. *)

AddNewBlock(b) ==
  /\ pc = "idle"
  /\ \/ /\ have_block(b)
        /\ ret' = "exists"
        /\ UNCHANGED <<chainVars, m_is_in_checkpoint_zone, pc, frame, alt, sw>>
     \/ /\ ~have_block(b) /\ Prev[b] = TopBlock
        /\ HandleBlockToMainChain(b, "add")
     \/ /\ ~have_block(b) /\ Prev[b] # TopBlock
        /\ HandleAlternativeBlock(b, "add")
        /\ UNCHANGED <<chainVars, m_is_in_checkpoint_zone>>
  /\ UNCHANGED <<sideVars, pool, now, incoming, unwound>>

\* The height that the daemon command rollback accepts.
RollbackAccepted(height) == height # 0 /\ height <= Size

\* "delete all blocks from target_height to current height": no block takes the
\* place of the popped ones, and the alternative chains stay as they are.
rollback_blockchain(height) ==
  /\ pc = "idle" /\ RollbackAccepted(height)
  /\ pc' = "rollback_pop"
  /\ sw' = [NoSwitch EXCEPT !.split_height = height, !.why = "command",
                            !.before = MainIds]
  /\ UNCHANGED <<chainVars, sideVars, m_is_in_checkpoint_zone, pool, now, frame, alt,
                 incoming, ret, unwound>>

\* The pool lock is free: no add_new_block is running.
PoolFree == pc = "idle" \/ sw.why = "command"

\* handle_incoming_tx takes m_incoming_tx_lock for the whole call, so there is one
\* incoming transaction at a time, but it takes the locks of the pool and of the
\* chain anew for every question it asks; stage is the question that comes next.
\* An early return changes nothing.
HandleIncomingTx(t, kept_by_block) ==
  /\ PoolFree /\ incoming = <<>>
  /\ ~is_coinbase(t) /\ ~have_tx(pool, t)
  /\ incoming' = <<[tx |-> t, kept_by_block |-> kept_by_block, stage |-> "have_tx",
                    inputs |-> "fail"]>>
  /\ UNCHANGED <<chainVars, sideVars, m_is_in_checkpoint_zone, pool, now, pc, frame,
                 alt, sw, ret, unwound>>

Advance(stage) == incoming' = [incoming EXCEPT ![1].stage = stage]
Answer == incoming' = <<>>

AliasName(t) == IF AliasOf[t] = NoAlias THEN NoAlias ELSE AliasOf[t].m_alias

\* A throw of check_tx_inputs ends the call like a refusal.
CheckIncomingTx ==
  /\ PoolFree /\ incoming # <<>>
  /\ LET i == incoming[1] IN
     \/ /\ i.stage = "have_tx" /\ pc = "idle"
        /\ IF i.tx \in DOMAIN m_transactions THEN Answer
           ELSE Advance(IF i.kept_by_block THEN "check_tx_inputs" ELSE "key_images")
     \/ /\ i.stage = "key_images"
        /\ IF have_tx_keyimges_as_spent(pool, i.tx) THEN Answer
           ELSE Advance("check_tx_inputs")
     \/ /\ i.stage = "check_tx_inputs" /\ pc = "idle"
        /\ \E undefined \in Undefined :
             LET inputs == check_tx_inputs(m_spent_keys, i.tx, TRUE, undefined) IN
             IF inputs = "throw" THEN Answer
             ELSE incoming' = [incoming EXCEPT ![1].stage = "insert",
                                               ![1].inputs = inputs]
  /\ UNCHANGED <<chainVars, sideVars, m_is_in_checkpoint_zone, pool, now, pc, frame,
                 alt, sw, ret, unwound>>

\* The rest of add_tx, under m_transactions_lock, which add_new_block holds too.
InsertIncomingTx ==
  /\ PoolFree /\ incoming # <<>> /\ incoming[1].stage = "insert"
  /\ LET i == incoming[1] IN
     pool' = add_tx(pool, i.tx, i.kept_by_block, TRUE, i.inputs = "ok", AliasName(i.tx))
  /\ Answer
  /\ UNCHANGED <<chainVars, sideVars, m_is_in_checkpoint_zone, now, pc, frame, alt, sw,
                 ret, unwound>>

\* remove_stuck_transactions: a transaction that has outlived its time; a sweep
\* that drops several is several of these steps in a row.
RemoveStuckTransaction(t) ==
  /\ PoolFree /\ have_tx(pool, t)
  /\ pool' = take_tx(pool, t)
  /\ UNCHANGED <<chainVars, sideVars, m_is_in_checkpoint_zone, now, pc, frame, alt, sw,
                 incoming, ret, unwound>>

IsAged(b) == Size - m_alternative_chains[b].height > CURRENCY_ALT_BLOCK_LIVETIME_COUNT

prune_aged_alt_blocks ==
  /\ pc = "idle"
  /\ \E b \in DOMAIN m_alternative_chains : IsAged(b)
  /\ m_alternative_chains' = Restrict(m_alternative_chains,
       {b \in DOMAIN m_alternative_chains : ~IsAged(b)})
  /\ UNCHANGED <<chainVars, m_invalid_blocks, m_is_in_checkpoint_zone, pool, now, pc,
                 frame, alt, sw, incoming, ret, unwound>>

\* Time passes: blocks dated beyond CURRENCY_BLOCK_FUTURE_TIME_LIMIT become due, and
\* outputs locked until a time can be spent.
Tick ==
  /\ ~now
  /\ now' = TRUE
  /\ UNCHANGED <<chainVars, sideVars, m_is_in_checkpoint_zone, pool, pc, frame, alt, sw,
                 incoming, ret, unwound>>

-----------------------------------------------------------------------------

\* A fresh data directory: init has added the genesis block.
Init ==
  /\ m_blocks = <<[bl |-> Genesis, cumulative_difficulty |-> Difficulty[Genesis]]>>
  /\ m_blocks_index = <<Genesis>>
  /\ m_transactions = [t \in {BlockTxs[Genesis][1]} |-> [block |-> 0, transaction |-> 0]]
  /\ m_spent_keys = {}
  /\ m_outputs = <<[block |-> 0, transaction |-> 0]>>
  /\ m_aliases = [a \in AliasNames |-> <<>>]
  /\ m_alternative_chains = [b \in {} |-> 0]
  /\ m_invalid_blocks = {}
  /\ m_is_in_checkpoint_zone = is_in_checkpoint_zone(1)
  /\ pool = EmptyPool
  /\ now = FALSE
  /\ pc = "idle" /\ frame = NoFrame /\ alt = NoAlt /\ sw = NoSwitch
  /\ incoming = <<>> /\ ret = "none" /\ unwound = FALSE

\* The next step of the add_new_block that is running.
Step ==
  \/ ConnectTransaction \/ ConnectBlock
  \/ PurgeTransaction \/ PopBlock
  \/ CollectAlternativeChain \/ AcceptAlternativeBlock
  \/ SwitchPop \/ SwitchConnect \/ PushOldChain
  \/ RollbackPop \/ RollbackConnect \/ RollbackDone

Next ==
  \/ \E b \in Blocks : AddNewBlock(b)
  \/ \E height \in RollbackHeights : rollback_blockchain(height)
  \/ \E t \in Txs, kept_by_block \in BOOLEAN : HandleIncomingTx(t, kept_by_block)
  \/ CheckIncomingTx
  \/ InsertIncomingTx
  \/ \E t \in Txs : RemoveStuckTransaction(t)
  \/ prune_aged_alt_blocks
  \/ Tick
  \/ Step

Spec == Init /\ [][Next]_vars

\* The thread that runs add_new_block waits for nothing once it has its locks.
FairSpec == Spec /\ WF_vars(Step)

-----------------------------------------------------------------------------
(* Properties. *)

Frames == [bl : Blocks, n : Nat, ok : BOOLEAN, caller : {"add", "switch", "rollback"}]
AltCalls == [bl : Blocks, it : Blocks \cup {NoBlock}, chain : Seq(Blocks),
             caller : {"add", "repush"}]
Switches == [alt_chain : Seq(Blocks), next : Nat \ {0}, split_height : Nat,
             disconnected : Seq(Blocks), re : Nat \ {0},
             why : {"connect", "repush", "command"}, panic : BOOLEAN,
             before : Seq(Blocks)]
Pcs == {"idle", "connect", "pop", "collect", "switch_pop", "switch_connect", "repush",
        "rollback_pop", "rollback_connect", "rollback_done", "nested"}
Returns == {"none", "exists", "added", "alternative", "orphaned", "failed", "threw",
            "caught", "rolled_back"}

Incoming == [tx : Txs, kept_by_block : BOOLEAN, inputs : {"ok", "fail"},
             stage : {"have_tx", "key_images", "check_tx_inputs", "insert"}]

ChainTypeOK ==
  /\ m_blocks \in Seq(BlockEntry) /\ m_blocks # <<>>
  /\ m_blocks_index \in Seq(Blocks)
  /\ DOMAIN m_transactions \subseteq Txs
  /\ m_transactions \in [DOMAIN m_transactions -> TransactionIndex]
  /\ m_spent_keys \subseteq KeyImages
  /\ m_outputs \in Seq(TransactionIndex)
  /\ m_aliases \in [AliasNames -> Seq(AliasInfo)]

SideTypeOK ==
  /\ DOMAIN m_alternative_chains \subseteq Blocks
  /\ m_alternative_chains \in [DOMAIN m_alternative_chains -> AltEntry]
  /\ m_invalid_blocks \subseteq Blocks

PoolTypeOK ==
  /\ IsPool(pool)
  /\ incoming = <<>> \/ \E i \in Incoming : incoming = <<i>>

CallTypeOK ==
  /\ pc \in Pcs /\ frame \in Frames /\ alt \in AltCalls /\ sw \in Switches
  /\ ret \in Returns

\* Every container and every local of the calls holds values of its C++ type.
TypeOK ==
  /\ ChainTypeOK /\ SideTypeOK /\ PoolTypeOK /\ CallTypeOK
  /\ m_is_in_checkpoint_zone \in BOOLEAN /\ now \in BOOLEAN /\ unwound \in BOOLEAN

\* How many transactions of the block at a height the indexes should hold: all
\* of them, but fewer for the block that is being connected or popped.
AppliedCount(height) ==
  IF height = Size THEN IF pc = "connect" THEN frame.n ELSE 0
  ELSE IF height = Size - 1 /\ pc = "pop" THEN frame.n
  ELSE Len(BlockTxs[BlockAt(height)])

BlockHere(height) == IF height = Size THEN frame.bl ELSE BlockAt(height)

Applied ==
  UNION {{[block |-> h, transaction |-> i] : i \in 0..(AppliedCount(h) - 1)} : h \in 0..Size}

TxAt(p) == BlockTxs[BlockHere(p.block)][p.transaction + 1]

Before(p, q) == \/ p.block < q.block
                \/ p.block = q.block /\ p.transaction < q.transaction

\* m_transactions, m_spent_keys and m_outputs, which connecting and popping a
\* block update one transaction at a time, hold exactly the transactions of the
\* main chain, at every step of a reorganisation: none is missed or left behind,
\* and the global output index lists them in chain order.
IndexesMatchChain ==
  ~unwound =>
    /\ DOMAIN m_transactions = {TxAt(p) : p \in Applied}
    /\ \A p \in Applied : m_transactions[TxAt(p)] = p
    /\ m_spent_keys = UNION {Images(TxAt(p)) : p \in Applied}
    /\ ToSet(m_outputs) = Applied
    /\ \A i, j \in DOMAIN m_outputs : i < j => Before(m_outputs[i], m_outputs[j])

\* No key image is spent by two transactions of the main chain.
NoDoubleSpend ==
  ~unwound =>
    \A p, q \in Applied : p # q => Images(TxAt(p)) \cap Images(TxAt(q)) = {}

\* The main chain is linked, m_blocks_index mirrors it, the cumulative difficulty
\* adds up, and every checkpoint that it has reached is on it: also after an
\* exception has cut a reorganisation short.
ChainConsistent ==
  /\ m_blocks_index = [i \in 1..Size |-> m_blocks[i].bl]
  /\ BlockAt(0) = Genesis
  /\ \A h \in 1..(Size - 1) :
       /\ Prev[BlockAt(h)] = BlockAt(h - 1)
       /\ BlockHeight[BlockAt(h)] = h
       /\ check_block(h, BlockAt(h))
       /\ m_blocks[h + 1].cumulative_difficulty =
            m_blocks[h].cumulative_difficulty + Difficulty[BlockAt(h)]

\* The work of the chain that ends in a block, down to the genesis block.
Work[b \in Blocks] ==
  Difficulty[b] + IF Prev[b] = NoBlock THEN 0 ELSE Work[Prev[b]]

\* Between two calls every side block is off the main chain and is filed with its
\* own height and with the work of the whole chain that ends in it, although the
\* entry was computed from that of its parent when that was a side block, a block
\* of the main chain, or a side block that has since been pruned, connected or
\* popped.
SideChainsConsistent ==
  pc = "idle" /\ ~unwound =>
    \A b \in DOMAIN m_alternative_chains :
      /\ ~InIndex(b)
      /\ m_alternative_chains[b].height = BlockHeight[b]
      /\ m_alternative_chains[b].cumulative_difficulty = Work[b]

\* "check if difficulty bigger then in main chain ... do reorganize!": between two
\* calls no side block has more work behind it than the main chain.
MostWorkOnMain ==
  pc = "idle" /\ ~unwound =>
    \A b \in DOMAIN m_alternative_chains :
      m_alternative_chains[b].cumulative_difficulty <= TopDifficulty

\* Filing the old chain as an alternative one never starts a second switch inside
\* the first.
NoNestedSwitch == pc # "nested"

\* The main chain as it was when the running call began: only a switch and a
\* rollback change it before they return.
ChainBefore == IF sw.before # <<>> THEN sw.before ELSE MainIds

\* A call that reports failure leaves the main chain as it was: a switch that
\* fails half way has restored every block that it had disconnected, also when the
\* undefined read in the clean-up of the failed chain throws.
RejectionRestoresChain ==
  [][pc # "idle" /\ pc' = "idle" /\ ~unwound /\ (unwound' => pc = "rollback_done")
     /\ ret' \notin {"added", "alternative", "rolled_back"}
       => MainIds' = ChainBefore]_vars

\* "rollback <target_height>, delete all blocks from target_height to current
\* height": the command ends with the first blocks of the chain it found, up to
\* that height, although the pool changes between its pops.
RollbackDeletesBlocks ==
  [][pc # "idle" /\ pc' = "idle" /\ ~unwound' /\ ret' = "rolled_back"
       => MainIds' = SubSeq(sw.before, 1, sw.split_height)]_vars

\* Every call ends, whatever the reorganisation runs into.
CallsEnd == pc # "idle" ~> pc = "idle"

\* The pool never keeps a key image claimed for a transaction that it has
\* dropped, or for one that does not spend it, although both loops over the
\* inputs of a transaction stop half way at the first image that is not as expected.
PoolClaimsBacked == ClaimsBacked(pool)

\* "update image_keys container, here should everything goes ok.": a transaction
\* that is in the pool has claimed all of its key images, even where no
\* exception has been thrown.
PoolImagesClaimed ==
  ~unwound => \A t \in PoolTxs(pool) : \A k \in Images(t) : t \in pool.key_images[k]

\* "check split with remove alias": every entry in the history of an alias comes
\* from a transaction of the main chain, so a reorganisation that drops the
\* transaction drops the entry.
AliasesOnChain ==
  ~unwound =>
    \A a \in AliasNames : \A i \in DOMAIN m_aliases[a] :
      \E p \in Applied : AliasOf[TxAt(p)] = m_aliases[a][i]

\* "transactions outs global index consistency broken: tx id missmatch": when a
\* transaction is purged, the output at the back of the global index is its own.
GlobalIndexEndsInPurged ==
  pc = "pop" /\ frame.n > 0 =>
    /\ m_outputs # <<>>
    /\ ~ReadThrows(Last(m_outputs)) /\ ~ReadUndefined(Last(m_outputs))
    /\ transactionByIndex(Last(m_outputs)) = BlockTxs[frame.bl][frame.n]

\* "m_last_valid_block == block_list.back()": a block that is refused, with or
\* without an exception, leaves the last valid block on top.
RefusalKeepsLastValidBlock ==
  [][pc # "idle" /\ pc' = "idle" /\ ret' \in {"failed", "threw", "caught"}
       => MainIds' = ChainBefore]_vars

=============================================================================
