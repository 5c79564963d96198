--------------------------- MODULE tx_pool_proofs ---------------------------
(***************************************************************************)
(* What the operations of the pool preserve, for every pool and every      *)
(* transaction.                                                            *)
(***************************************************************************)
EXTENDS tx_pool, TLAPS

\* The inputs of a transaction (txin_to_key) carry key images.
LEMMA ImagesType ==
  ASSUME NEW t \in Txs
  PROVE  Images(t) \subseteq KeyImages
<1>. DEFINE Input == [k_image : KeyImages, offset : Nat, key : Txs]
<1>1. Vin[t] \in Seq(Input)
  BY TxPoolAssumption
<1>2. \A i \in DOMAIN Vin[t] : Vin[t][i] \in Input
  <2>. HIDE DEF Input
  <2>. QED
    BY <1>1
<1>. QED
  BY <1>2 DEF Images

\* take_tx leaves a pool.
LEMMA take_tx_type ==
  ASSUME NEW p, IsPool(p), NEW t
  PROVE  IsPool(take_tx(p, t))
  BY DEF IsPool, take_tx, PoolTxs, Restrict, remove_transaction_keyimages,
         remove_alias_tx_pair, PoolEntry

\* Putting a transaction into m_transactions and its images into
\* m_spent_key_images leaves a pool.
LEMMA Insert_type ==
  ASSUME NEW p, IsPool(p), NEW t \in Txs, NEW kept \in BOOLEAN, NEW signed \in BOOLEAN
  PROVE  IsPool(Insert(p, t, kept, signed))
  BY DEF IsPool, Insert, PoolTxs, InsertKeyImages, PoolEntry

\* add_tx leaves a pool, on each of its four ways through.
LEMMA add_tx_type ==
  ASSUME NEW p, IsPool(p), NEW t \in Txs, NEW kept \in BOOLEAN, NEW signed \in BOOLEAN,
         NEW ok \in BOOLEAN, NEW a \in PoolAliases \cup {NoAlias}
  PROVE  IsPool(add_tx(p, t, kept, signed, ok, a))
<1>1. CASE ~ok /\ ~kept
  BY <1>1 DEF add_tx
<1>2. CASE ~ok /\ kept
  <2>1. IsPool(IF find_alias(p, a) THEN take_tx(p, p.aliases[a]) ELSE p)
    BY take_tx_type
  <2>. QED
    BY <1>2, <2>1, Insert_type DEF add_tx
<1>3. CASE ok /\ find_alias(p, a)
  BY <1>3 DEF add_tx
<1>4. CASE ok /\ ~find_alias(p, a)
  <2>. DEFINE q == IF a = NoAlias THEN p
                   ELSE [p EXCEPT !.aliases =
                          [x \in DOMAIN @ \cup {a} |-> IF x = a THEN t ELSE @[x]]]
  <2>1. IsPool(q)
    BY DEF IsPool
  <2>2. add_tx(p, t, kept, signed, ok, a) = Insert(q, t, kept, signed)
    BY <1>4 DEF add_tx
  <2>. QED
    BY <2>1, <2>2, Insert_type
<1>. QED
  BY <1>1, <1>2, <1>3, <1>4

-----------------------------------------------------------------------------
(* The claims on key images. *)

Claims(p) == IsPool(p) /\ ClaimsBacked(p) /\ ClaimsInOrder(p)

\* The inputs of a transaction have pairwise different key images
\* (check_tx_inputs_keyimages_diff) at positions without gaps.
LEMMA InputsOf ==
  ASSUME NEW t \in Txs
  PROVE  /\ \A i \in DOMAIN Vin[t] : Vin[t][i].k_image \in KeyImages
         /\ \A i \in DOMAIN Vin[t] : i \in Nat /\ \A l \in 1..i : l \in DOMAIN Vin[t]
         /\ \A i, j \in DOMAIN Vin[t] : Vin[t][i].k_image = Vin[t][j].k_image => i = j
<1>1. \A i \in DOMAIN Vin[t] : Vin[t][i].k_image \in KeyImages
  BY ImagesType DEF Images
<1>2. \A i \in DOMAIN Vin[t] : i \in Nat /\ \A l \in 1..i : l \in DOMAIN Vin[t]
  <2>1. PICK S : Vin[t] \in Seq(S)
    BY TxPoolAssumption
  <2>. QED
    BY <2>1
<1>. QED
  BY <1>1, <1>2, TxPoolAssumption

\* remove_transaction_keyimages stops at the first image that is not filed, but
\* by then it has released every claim of the transaction.
LEMMA take_tx_claims ==
  ASSUME NEW p, Claims(p), NEW t \in Txs
  PROVE  Claims(take_tx(p, t))
<1>. DEFINE q == take_tx(p, t)
<1>1. CASE ~have_tx(p, t)
  BY <1>1 DEF take_tx
<1>2. CASE have_tx(p, t)
  <2>. DEFINE released == {Vin[t][i].k_image : i \in {j \in DOMAIN Vin[t] :
                             \A l \in 1..j : t \in p.key_images[Vin[t][l].k_image]}}
  <2>1. IsPool(q)
    BY take_tx_type DEF Claims
  <2>2. /\ PoolTxs(q) = PoolTxs(p) \ {t}
        /\ q.key_images = remove_transaction_keyimages(p.key_images, t)
    BY <1>2 DEF take_tx, PoolTxs, Restrict
  <2>3. \A k \in KeyImages : q.key_images[k] = IF k \in released THEN p.key_images[k] \ {t}
                                                                ELSE p.key_images[k]
    BY <2>2 DEF remove_transaction_keyimages
  <2>4. \A k \in KeyImages : t \in p.key_images[k] => k \in released
    <3>. SUFFICES ASSUME NEW k \in KeyImages, t \in p.key_images[k]
                  PROVE  k \in released
      OBVIOUS
    <3>1. PICK i \in DOMAIN Vin[t] : Vin[t][i].k_image = k
      BY DEF Claims, ClaimsBacked, Images
    <3>. QED
      BY <3>1 DEF Claims, ClaimsInOrder
  <2>. HIDE DEF q, released
  <2>5. \A k \in KeyImages : q.key_images[k] = p.key_images[k] \ {t}
    BY <2>3, <2>4
  <2>6. ClaimsBacked(q)
    BY <2>2, <2>5 DEF Claims, ClaimsBacked, have_tx
  <2>7. ClaimsInOrder(q)
    BY <2>5, InputsOf DEF Claims, ClaimsInOrder
  <2>. QED
    BY <2>1, <2>6, <2>7 DEF Claims, q
<1>. QED
  BY <1>1, <1>2

\* The loop at the end of add_tx files a prefix of the images and no more.
LEMMA Insert_claims ==
  ASSUME NEW p, Claims(p), NEW t \in Txs, NEW kept \in BOOLEAN, NEW signed \in BOOLEAN
  PROVE  Claims(Insert(p, t, kept, signed))
<1>. DEFINE q == Insert(p, t, kept, signed)
<1>1. CASE have_tx(p, t)
  BY <1>1 DEF Insert
<1>2. CASE ~have_tx(p, t)
  <2>. DEFINE Filed(i) == \A l \in 1..i : kept \/ p.key_images[Vin[t][l].k_image] = {}
              filed == {Vin[t][i].k_image : i \in {j \in DOMAIN Vin[t] : Filed(j)}}
  <2>1. IsPool(q)
    BY Insert_type DEF Claims
  <2>2. /\ PoolTxs(q) = PoolTxs(p) \cup {t}
        /\ q.key_images = InsertKeyImages(p.key_images, t, kept)
    BY <1>2 DEF Insert, PoolTxs, Claims, IsPool
  <2>3. \A k \in KeyImages : q.key_images[k] = IF k \in filed THEN p.key_images[k] \cup {t}
                                                             ELSE p.key_images[k]
    BY <2>2 DEF InsertKeyImages
  <2>4. \A k \in KeyImages : t \notin p.key_images[k]
    BY <1>2 DEF Claims, ClaimsBacked
  <2>5. filed \subseteq Images(t)
    BY DEF Images
  <2>6. ASSUME NEW i \in DOMAIN Vin[t], Vin[t][i].k_image \in filed, NEW l \in 1..i
        PROVE  Vin[t][l].k_image \in filed
    <3>1. Filed(i)
      <4>1. PICK j \in DOMAIN Vin[t] : Filed(j) /\ Vin[t][j].k_image = Vin[t][i].k_image
        BY <2>6
      <4>2. i = j
        BY <4>1, InputsOf
      <4>. QED
        BY <4>1, <4>2
    <3>2. l \in DOMAIN Vin[t] /\ i \in Nat /\ l \in Nat
      BY InputsOf
    <3>3. \A m \in 1..l : m \in 1..i
      BY <3>2
    <3>. QED
      BY <3>1, <3>2, <3>3
  <2>. HIDE DEF q, filed
  <2>7. ClaimsBacked(q)
    BY <2>2, <2>3, <2>5 DEF Claims, ClaimsBacked, have_tx
  <2>8. ClaimsInOrder(q)
    <3>. SUFFICES ASSUME NEW x \in Txs, NEW i \in DOMAIN Vin[x],
                         x \in q.key_images[Vin[x][i].k_image], NEW l \in 1..i
                  PROVE  x \in q.key_images[Vin[x][l].k_image]
      BY DEF ClaimsInOrder
    <3>1. /\ Vin[x][i].k_image \in KeyImages /\ l \in DOMAIN Vin[x]
          /\ Vin[x][l].k_image \in KeyImages
      BY InputsOf
    <3>2. CASE x = t
      BY <2>3, <2>4, <2>6, <3>1, <3>2
    <3>3. CASE x # t
      <4>1. x \in p.key_images[Vin[x][i].k_image]
        BY <2>3, <3>1, <3>3
      <4>2. x \in p.key_images[Vin[x][l].k_image]
        BY <4>1 DEF Claims, ClaimsInOrder
      <4>. QED
        BY <2>3, <3>1, <4>2
    <3>. QED
      BY <3>2, <3>3
  <2>. QED
    BY <2>1, <2>7, <2>8 DEF Claims, q
<1>. QED
  BY <1>1, <1>2

\* add_tx keeps the claims backed and in order, also when it first drops the
\* transaction that holds the alias.
LEMMA add_tx_claims ==
  ASSUME NEW p, Claims(p), NEW t \in Txs, NEW kept \in BOOLEAN, NEW signed \in BOOLEAN,
         NEW ok \in BOOLEAN, NEW a \in PoolAliases \cup {NoAlias}
  PROVE  Claims(add_tx(p, t, kept, signed, ok, a))
<1>1. CASE (~ok /\ ~kept) \/ (ok /\ find_alias(p, a))
  BY <1>1 DEF add_tx
<1>2. CASE ~ok /\ kept
  <2>1. ASSUME find_alias(p, a)
        PROVE  p.aliases[a] \in Txs
    BY <2>1 DEF find_alias, Claims, IsPool
  <2>2. Claims(IF find_alias(p, a) THEN take_tx(p, p.aliases[a]) ELSE p)
    BY <2>1, take_tx_claims
  <2>. QED
    BY <1>2, <2>2, Insert_claims DEF add_tx
<1>3. CASE ok /\ ~find_alias(p, a)
  <2>. DEFINE q == IF a = NoAlias THEN p
                   ELSE [p EXCEPT !.aliases =
                          [x \in DOMAIN @ \cup {a} |-> IF x = a THEN t ELSE @[x]]]
  <2>1. IsPool(q)
    BY DEF IsPool, Claims
  <2>2. q.key_images = p.key_images /\ PoolTxs(q) = PoolTxs(p)
    BY DEF PoolTxs, Claims, IsPool
  <2>3. Claims(q)
    <3>. HIDE DEF q
    <3>. QED
      BY <2>1, <2>2 DEF Claims, ClaimsBacked, ClaimsInOrder, have_tx
  <2>4. add_tx(p, t, kept, signed, ok, a) = Insert(q, t, kept, signed)
    BY <1>3 DEF add_tx
  <2>. QED
    BY <2>3, <2>4, Insert_claims
<1>. QED
  BY <1>1, <1>2, <1>3

\* The pool of a fresh node has no claims.
LEMMA EmptyPool_claims == Claims(EmptyPool)
<1>1. IsPool(EmptyPool)
  BY DEF IsPool, EmptyPool
<1>2. \A k \in KeyImages : EmptyPool.key_images[k] = {}
  BY DEF EmptyPool
<1>. QED
  BY <1>1, <1>2, InputsOf DEF Claims, ClaimsBacked, ClaimsInOrder

=============================================================================
