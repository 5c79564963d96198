------------------------------ MODULE tx_pool ------------------------------
(***************************************************************************)
(* The transaction pool of currency_core/tx_pool.cpp.  The pool is a       *)
(* record of its three containers:                                         *)
(*   transactions : m_transactions, a partial function from transactions   *)
(*                  to [kept_by_block, signed]; signed is FALSE for a copy *)
(*                  whose ring signatures were cleared under checkpoints   *)
(*   key_images   : m_spent_key_images, the pool transactions that spend   *)
(*                  each key image                                         *)
(*   aliases      : m_aliases_to_txid, a partial function                  *)
(* The operations are functions from a pool to the pool they leave.        *)
(***************************************************************************)
EXTENDS Naturals, Sequences, Functions

CONSTANTS Txs,         \* transaction ids
          KeyImages,
          PoolAliases, \* alias names a transaction can carry
          NoAlias,     \* an empty alias string
          Vin          \* the inputs of a transaction: a sequence of records
                       \* [k_image, offset, key]; empty for a coinbase

ASSUME TxPoolAssumption ==
  /\ NoAlias \notin PoolAliases
  /\ \A t \in Txs : /\ Vin[t] \in Seq([k_image : KeyImages, offset : Nat, key : Txs])
                    /\ \A i, j \in DOMAIN Vin[t] :
                         Vin[t][i].k_image = Vin[t][j].k_image => i = j

is_coinbase(t) == Vin[t] = <<>>

Images(t) == {Vin[t][i].k_image : i \in DOMAIN Vin[t]}

PoolEntry == [kept_by_block : BOOLEAN, signed : BOOLEAN]

EmptyPool == [transactions |-> [t \in {} |-> [kept_by_block |-> FALSE, signed |-> TRUE]],
              key_images   |-> [k \in KeyImages |-> {}],
              aliases      |-> [a \in {} |-> NoAlias]]

IsPool(pool) ==
  /\ pool = [transactions |-> pool.transactions, key_images |-> pool.key_images,
             aliases |-> pool.aliases]
  /\ DOMAIN pool.transactions \subseteq Txs
  /\ pool.transactions \in [DOMAIN pool.transactions -> PoolEntry]
  /\ pool.key_images \in [KeyImages -> SUBSET Txs]
  /\ DOMAIN pool.aliases \subseteq PoolAliases
  /\ pool.aliases \in [DOMAIN pool.aliases -> Txs]

PoolTxs(pool) == DOMAIN pool.transactions

have_tx(pool, t) == t \in PoolTxs(pool)

have_tx_keyimges_as_spent(pool, t) ==
  \E k \in Images(t) : pool.key_images[k] # {}

find_alias(pool, alias) == alias \in DOMAIN pool.aliases

\* The loop over the inputs stops at the first key image that t is not filed
\* under; the images before it have been released by then.
remove_transaction_keyimages(key_images, t) ==
  LET released == {Vin[t][i].k_image : i \in {j \in DOMAIN Vin[t] :
                     \A l \in 1..j : t \in key_images[Vin[t][l].k_image]}}
  IN [k \in KeyImages |-> IF k \in released THEN key_images[k] \ {t}
                                            ELSE key_images[k]]

remove_alias_tx_pair(aliases, t) ==
  Restrict(aliases, {a \in DOMAIN aliases : aliases[a] # t})

\* Mutant: the key images stay claimed.
take_tx_images_kept(pool, t) ==
  IF ~have_tx(pool, t) THEN pool ELSE
  [transactions |-> Restrict(pool.transactions, PoolTxs(pool) \ {t}),
   key_images   |-> pool.key_images,
   aliases      |-> remove_alias_tx_pair(pool.aliases, t)]

\* take_tx and remove_stuck_transactions drop a transaction the same way.
take_tx(pool, t) ==
  IF ~have_tx(pool, t) THEN pool ELSE
  [transactions |-> Restrict(pool.transactions, PoolTxs(pool) \ {t}),
   key_images   |-> remove_transaction_keyimages(pool.key_images, t),
   aliases      |-> remove_alias_tx_pair(pool.aliases, t)]

\* The loop over the inputs fails at the first image that another transaction
\* of the pool spends, unless t belongs to a block; t stays in the pool.
InsertKeyImages(key_images, t, kept_by_block) ==
  LET filed == {Vin[t][i].k_image : i \in {j \in DOMAIN Vin[t] :
                  \A l \in 1..j : kept_by_block \/ key_images[Vin[t][l].k_image] = {}}}
  IN [k \in KeyImages |-> IF k \in filed THEN key_images[k] \cup {t}
                                         ELSE key_images[k]]

Insert(pool, t, kept_by_block, signed) ==
  IF have_tx(pool, t) THEN pool
  ELSE [pool EXCEPT
          !.transactions =
             [x \in PoolTxs(pool) \cup {t} |->
                IF x = t THEN [kept_by_block |-> kept_by_block, signed |-> signed]
                ELSE @[x]],
          !.key_images = InsertKeyImages(@, t, kept_by_block)]

\* The part of add_tx that runs under m_transactions_lock; ch_inp_res is what
\* check_tx_inputs said before the lock was taken.
add_tx(pool, t, kept_by_block, signed, ch_inp_res, alias) ==
  CASE ~ch_inp_res /\ ~kept_by_block -> pool
    [] ~ch_inp_res /\ kept_by_block ->
         Insert(IF find_alias(pool, alias) THEN take_tx(pool, pool.aliases[alias])
                                           ELSE pool, t, kept_by_block, signed)
    [] ch_inp_res /\ find_alias(pool, alias) -> pool
    [] ch_inp_res /\ ~find_alias(pool, alias) ->
         Insert(IF alias = NoAlias THEN pool
                ELSE [pool EXCEPT !.aliases =
                        [a \in DOMAIN @ \cup {alias} |-> IF a = alias THEN t ELSE @[a]]],
                t, kept_by_block, signed)

-----------------------------------------------------------------------------

\* A claim on a key image is held by a transaction of the pool that spends it.
ClaimsBacked(pool) ==
  \A k \in KeyImages : \A t \in pool.key_images[k] : have_tx(pool, t) /\ k \in Images(t)

\* A transaction has claimed its key images in the order of its inputs, up to
\* the first one that was taken.
ClaimsInOrder(pool) ==
  \A t \in Txs : \A i \in DOMAIN Vin[t] :
    t \in pool.key_images[Vin[t][i].k_image] =>
      \A l \in 1..i : t \in pool.key_images[Vin[t][l].k_image]

=============================================================================
