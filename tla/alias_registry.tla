--------------------------- MODULE alias_registry ---------------------------
(***************************************************************************)
(* m_aliases and its reverse index m_addr_to_alias under the operations of *)
(* blockchain_storage: a transaction that is added puts its alias entry,   *)
(* whether it is a coinbase or not; when it is popped, in the opposite     *)
(* order, only a coinbase takes an entry out again; a restart loads        *)
(* m_aliases from the cache file and rebuilds the reverse index, which is  *)
(* not stored.                                                             *)
(***************************************************************************)
EXTENDS Naturals, aliases

CONSTANTS Owners,      \* the addresses that an alias may be given
          NameRank,    \* the place of a name in the order of std::map
          MaxEntries,  \* bound: alias entries on the chain at the same time
          MaxHistory   \* bound: entries in the history of a name

\* A name has a limited length, so there are finitely many and every set of them
\* has a last one.
ASSUME RegistryAssumption ==
  /\ Owners \in [AliasNames -> SUBSET Addresses]
  /\ NameRank \in [AliasNames -> Nat]
  /\ \A m, n \in AliasNames : NameRank[m] = NameRank[n] => m = n
  /\ \A S \in SUBSET AliasNames : S # {} =>
       \E n \in S : \A m \in S : NameRank[m] <= NameRank[n]
  /\ MaxEntries \in Nat /\ MaxHistory \in Nat

VARIABLES m_aliases,        \* the history of every alias name
          m_addr_to_alias,  \* the alias an address is known by
          applied,          \* the transactions of the main chain that carry an
                            \* alias, in chain order: [ai, coinbase]
          left_behind       \* history: how many entries of a name have outlived
                            \* the transaction that put them

vars == <<m_aliases, m_addr_to_alias, applied, left_behind>>

Carriers == [ai : AliasInfo, coinbase : BOOLEAN]

Owner(aliases, name) == Last(aliases[name]).m_address
Named(aliases) == {n \in AliasNames : aliases[n] # <<>>}

\* The loop runs in the order of the names, so the last alias of an address wins.
fill_addr_to_alias_dict(aliases) ==
  [a \in {Owner(aliases, n) : n \in Named(aliases)} |->
     CHOOSE n \in Named(aliases) :
       /\ Owner(aliases, n) = a
       /\ \A m \in Named(aliases) : Owner(aliases, m) = a => NameRank[m] <= NameRank[n]]

-----------------------------------------------------------------------------

Init ==
  /\ m_aliases = [n \in AliasNames |-> <<>>]
  /\ m_addr_to_alias = [a \in {} |-> 0]
  /\ applied = <<>>
  /\ left_behind = [n \in AliasNames |-> 0]

\* An entry that put_alias_info refuses changes nothing.
ProcessExtra(ai, coinbase) ==
  /\ Len(applied) < MaxEntries
  /\ Len(m_aliases[ai.m_alias]) < MaxHistory
  /\ ai.m_address \in Owners[ai.m_alias]
  /\ put_alias_info_ok(m_aliases, ai)
  /\ m_aliases' = put_alias_info(m_aliases, ai)
  /\ m_addr_to_alias' = put_addr_to_alias(m_aliases, m_addr_to_alias, ai)
  /\ applied' = Append(applied, [ai |-> ai, coinbase |-> coinbase])
  /\ UNCHANGED left_behind

\* The transaction at the end of the chain is popped.  A pop that pop_alias_info
\* refuses would not be a step: EntriesAccountedFor shows that there is none.
UnprocessExtra ==
  /\ applied # <<>>
  /\ LET ai == Last(applied).ai IN
     \/ /\ Last(applied).coinbase
        /\ pop_alias_info_ok(m_aliases, ai)
        /\ m_aliases' = pop_alias_info(m_aliases, ai)
        /\ m_addr_to_alias' = pop_addr_to_alias(m_aliases, m_addr_to_alias, ai)
        /\ UNCHANGED left_behind
     \/ /\ ~Last(applied).coinbase
        /\ left_behind' = [left_behind EXCEPT ![ai.m_alias] = @ + 1]
        /\ UNCHANGED <<m_aliases, m_addr_to_alias>>
  /\ applied' = Front(applied)

Restart ==
  /\ m_addr_to_alias' = fill_addr_to_alias_dict(m_aliases)
  /\ UNCHANGED <<m_aliases, applied, left_behind>>

Next ==
  \/ \E ai \in AliasInfo, coinbase \in BOOLEAN : ProcessExtra(ai, coinbase)
  \/ UnprocessExtra
  \/ Restart

Spec == Init /\ [][Next]_vars

-----------------------------------------------------------------------------

\* Histories hold alias entries, and the reverse index leads to alias names.
TypeOK ==
  /\ m_aliases \in [AliasNames -> Seq(AliasInfo)]
  /\ DOMAIN m_addr_to_alias \subseteq Addresses
  /\ m_addr_to_alias \in [DOMAIN m_addr_to_alias -> AliasNames]
  /\ applied \in Seq(Carriers)
  /\ left_behind \in [AliasNames -> Nat]

\* get_alias_by_address never answers with an alias that the address does not
\* own now, although an update and a pop erase the entry of an address whatever
\* alias it leads to, and several aliases may share an address.
LookupNamesOwner ==
  \A a \in DOMAIN m_addr_to_alias :
    LET n == m_addr_to_alias[a] IN n \in Named(m_aliases) /\ Owner(m_aliases, n) = a

CarriersOf(n) == SelectSeq(applied, LAMBDA tx : tx.ai.m_alias = n)



\* As long as no two aliases are given the same address, the reverse index kept
\* by put_alias_info and pop_alias_info is the one that fill_addr_to_alias_dict
\* builds: an answer does not depend on when the daemon was last restarted.
RebuildAgrees == m_addr_to_alias = fill_addr_to_alias_dict(m_aliases)

\* "Wromg m_addr_to_alias state: address not found": an update and a pop find the
\* address of the current owner in the reverse index.
OwnerIsListed ==
  \A n \in Named(m_aliases) : Owner(m_aliases, n) \in DOMAIN m_addr_to_alias

=============================================================================
