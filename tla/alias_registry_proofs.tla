----------------------- MODULE alias_registry_proofs -----------------------
(***************************************************************************)
(* The reverse index of the alias registry names current owners only, for  *)
(* any set of names and addresses and any number of entries.               *)
(***************************************************************************)
EXTENDS alias_registry, sequence_lemmas, TLAPS

RegistryInv == TypeOK /\ LookupNamesOwner

\* Appending an entry makes its address the owner.
LEMMA AppendOwner ==
  ASSUME NEW h \in Seq(AliasInfo), NEW ai \in AliasInfo
  PROVE  /\ Append(h, ai) \in Seq(AliasInfo)
         /\ Append(h, ai) # <<>>
         /\ Last(Append(h, ai)) = ai
  BY DEF Last

\* Popping a longer history leaves a history that still has an owner.
LEMMA FrontOwner ==
  ASSUME NEW h \in Seq(AliasInfo), h # <<>>
  PROVE  /\ Front(h) \in Seq(AliasInfo)
         /\ Last(h) \in AliasInfo
         /\ Len(h) > 1 => /\ Front(h) # <<>>
                          /\ Last(Front(h)) \in AliasInfo
<1>1. Front(h) \in Seq(AliasInfo) /\ Last(h) \in AliasInfo /\ Len(Front(h)) = Len(h) - 1
  BY FrontProperties, LastProperties
<1>2. ASSUME Len(h) > 1 PROVE Front(h) # <<>> /\ Last(Front(h)) \in AliasInfo
  <2>1. Front(h) # <<>>
    BY <1>1, <1>2
  <2> QED BY <1>1, <2>1, LastProperties
<1> QED BY <1>1, <1>2

\* The address of an alias entry and the name it is for.
LEMMA EntryFields ==
  ASSUME NEW ai \in AliasInfo
  PROVE  ai.m_alias \in AliasNames /\ ai.m_address \in Addresses
  BY DEF AliasInfo

\* An index whose entries for other names are right, and which leads to n from
\* its owner at most, stays right when n gets a new history.
Leads(dict, aliases, n) ==
  /\ DOMAIN dict \subseteq Addresses
  /\ dict \in [DOMAIN dict -> AliasNames]
  /\ \A a \in DOMAIN dict : dict[a] # n /\ aliases[dict[a]] # <<>>
                            /\ Last(aliases[dict[a]]).m_address = a

\* What LookupNamesOwner and TypeOK say of the two maps.
Lookup(dict, aliases) ==
  /\ DOMAIN dict \subseteq Addresses
  /\ dict \in [DOMAIN dict -> AliasNames]
  /\ \A a \in DOMAIN dict : aliases[dict[a]] # <<>> /\ Last(aliases[dict[a]]).m_address = a

\* The history of n has become h, the others have not changed.
NewHistory(aliases, new, n, h) ==
  new[n] = h /\ \A m \in AliasNames : m # n => new[m] = aliases[m]

\* After the entry of its owner is erased, no address leads to n.
LEMMA EraseLeads ==
  ASSUME NEW aliases \in [AliasNames -> Seq(AliasInfo)], NEW n \in AliasNames,
         NEW dict, Lookup(dict, aliases), aliases[n] # <<>>
  PROVE  Leads(Erase(dict, Last(aliases[n]).m_address), aliases, n)
<1> DEFINE e == Erase(dict, Last(aliases[n]).m_address)
<1>1. DOMAIN e = DOMAIN dict \ {Last(aliases[n]).m_address}
  BY DEF Erase
<1>2. \A a \in DOMAIN e : e[a] = dict[a]
  BY DEF Erase
<1>3. e \in [DOMAIN e -> AliasNames]
  BY DEF Erase, Lookup
<1> HIDE DEF e
<1>4. Leads(e, aliases, n)
  BY <1>1, <1>2, <1>3 DEF Leads, Lookup
<1> QED BY <1>4 DEF e

\* The index with the new owner of n added is right for the new histories.
LEMMA AssignLookup ==
  ASSUME NEW aliases \in [AliasNames -> Seq(AliasInfo)], NEW n \in AliasNames,
         NEW h \in Seq(AliasInfo), h # <<>>, Last(h).m_address \in Addresses,
         NEW dict, Leads(dict, aliases, n),
         NEW new, NewHistory(aliases, new, n, h)
  PROVE  Lookup(Assign(dict, Last(h).m_address, n), new)
<1> DEFINE to == Assign(dict, Last(h).m_address, n)
<1>2. DOMAIN to = DOMAIN dict \cup {Last(h).m_address}
  BY DEF Assign
<1>3. \A a \in DOMAIN to : to[a] = IF a = Last(h).m_address THEN n ELSE dict[a]
  BY DEF Assign
<1>4. to = [a \in DOMAIN to |-> to[a]]
  BY DEF Assign
<1> HIDE DEF to
<1>5. to \in [DOMAIN to -> AliasNames]
  BY <1>2, <1>3, <1>4 DEF Leads
<1>6. DOMAIN to \subseteq Addresses
  BY <1>2 DEF Leads
<1>7. ASSUME NEW a \in DOMAIN to
      PROVE  new[to[a]] # <<>> /\ Last(new[to[a]]).m_address = a
  <2>1. CASE a = Last(h).m_address
    BY <1>3, <2>1 DEF NewHistory
  <2>2. CASE a # Last(h).m_address
    <3>1. a \in DOMAIN dict /\ to[a] = dict[a]
      BY <1>2, <1>3, <2>2
    <3>2. dict[a] \in AliasNames /\ dict[a] # n
      BY <3>1 DEF Leads
    <3> QED BY <3>1, <3>2 DEF Leads, NewHistory
  <2> QED BY <2>1, <2>2
<1>8. Lookup(to, new)
  BY <1>5, <1>6, <1>7 DEF Lookup
<1> QED BY <1>8 DEF to

-----------------------------------------------------------------------------

\* The invariant is Lookup and the types of the histories.
LEMMA LookupUnfolded ==
  RegistryInv <=> /\ m_aliases \in [AliasNames -> Seq(AliasInfo)]
                  /\ applied \in Seq(Carriers)
                  /\ left_behind \in [AliasNames -> Nat]
                  /\ Lookup(m_addr_to_alias, m_aliases)
  BY DEF RegistryInv, LookupNamesOwner, TypeOK, Named, Owner, Lookup

\* The same after a step.
LEMMA LookupUnfoldedNext ==
  ASSUME m_aliases' \in [AliasNames -> Seq(AliasInfo)], applied' \in Seq(Carriers),
         left_behind' \in [AliasNames -> Nat], Lookup(m_addr_to_alias', m_aliases')
  PROVE  RegistryInv'
  BY DEF RegistryInv, LookupNamesOwner, TypeOK, Named, Owner, Lookup

\* put_alias_info keeps the invariant, for a first registration and an update.
LEMMA ProcessExtraInv ==
  ASSUME RegistryInv, NEW ai \in AliasInfo, NEW coinbase \in BOOLEAN,
         ProcessExtra(ai, coinbase)
  PROVE  RegistryInv'
<1> DEFINE n == ai.m_alias
           h == m_aliases[n]
           kept == IF ai.m_sign = null_sig THEN m_addr_to_alias
                   ELSE Erase(m_addr_to_alias, Last(h).m_address)
<1>1. n \in AliasNames /\ ai.m_address \in Addresses /\ TypeOK
  BY EntryFields DEF RegistryInv
<1>2. h \in Seq(AliasInfo)
  BY <1>1 DEF TypeOK
<1>3. Leads(kept, m_aliases, n)
  <2>1. CASE ai.m_sign = null_sig
    <3>1. h = <<>>
      BY <2>1 DEF ProcessExtra, put_alias_info_ok
    <3> QED BY <1>1, <2>1, <3>1, LookupUnfolded DEF Lookup, Leads
  <2>2. CASE ai.m_sign # null_sig
    <3>1. h # <<>>
      BY <2>2 DEF ProcessExtra, put_alias_info_ok
    <3>2. Leads(Erase(m_addr_to_alias, Last(h).m_address), m_aliases, n)
      BY <1>1, <3>1, EraseLeads, LookupUnfolded DEF TypeOK
    <3> QED BY <2>2, <3>2
  <2> QED BY <2>1, <2>2
<1>4. /\ m_aliases' = [m_aliases EXCEPT ![n] = Append(h, ai)]
      /\ m_addr_to_alias' = Assign(kept, ai.m_address, n)
      /\ applied' = Append(applied, [ai |-> ai, coinbase |-> coinbase])
      /\ left_behind' = left_behind
  BY DEF ProcessExtra, put_alias_info, put_addr_to_alias
<1>5. Append(h, ai) \in Seq(AliasInfo) /\ Append(h, ai) # <<>> /\ Last(Append(h, ai)) = ai
  BY <1>2, AppendOwner
<1>6. /\ applied' \in Seq(Carriers) /\ m_aliases' \in [AliasNames -> Seq(AliasInfo)]
      /\ left_behind' \in [AliasNames -> Nat]
  <2>1. [ai |-> ai, coinbase |-> coinbase] \in Carriers
    BY DEF Carriers
  <2> QED BY <1>1, <1>4, <1>5, <2>1 DEF TypeOK
<1>7. m_aliases \in [AliasNames -> Seq(AliasInfo)]
  BY <1>1 DEF TypeOK
<1> HIDE DEF n, h, kept
<1>8. Lookup(m_addr_to_alias', m_aliases')
  <2> DEFINE new == Append(h, ai)
  <2>1. m_addr_to_alias' = Assign(kept, Last(new).m_address, n)
    BY <1>4, <1>5
  <2>2. NewHistory(m_aliases, m_aliases', n, new)
    BY <1>1, <1>4, <1>7 DEF NewHistory
  <2>3. new \in Seq(AliasInfo) /\ new # <<>> /\ Last(new).m_address \in Addresses
    BY <1>1, <1>5
  <2> HIDE DEF new
  <2> QED BY <1>1, <1>3, <1>7, <2>1, <2>2, <2>3, AssignLookup
<1> QED BY <1>6, <1>8, LookupUnfoldedNext

\* The transaction at the end of the chain carries an alias entry.
LEMMA LastCarrier ==
  ASSUME TypeOK, applied # <<>>
  PROVE  Last(applied).ai.m_alias \in AliasNames /\ Front(applied) \in Seq(Carriers)
<1>1. Last(applied) \in Carriers /\ Front(applied) \in Seq(Carriers)
  BY FrontProperties, LastProperties DEF TypeOK
<1> QED BY <1>1, EntryFields DEF Carriers

\* A popped transaction that is not a coinbase leaves both maps alone.
LEMMA SkippedInv ==
  ASSUME RegistryInv, UnprocessExtra, ~Last(applied).coinbase
  PROVE  RegistryInv'
<1>1. TypeOK /\ Last(applied).ai.m_alias \in AliasNames /\ Front(applied) \in Seq(Carriers)
  BY LastCarrier DEF RegistryInv, UnprocessExtra
<1>2. /\ left_behind' = [left_behind EXCEPT ![Last(applied).ai.m_alias] = @ + 1]
      /\ UNCHANGED <<m_aliases, m_addr_to_alias>> /\ applied' = Front(applied)
  BY DEF UnprocessExtra
<1>3. left_behind' \in [AliasNames -> Nat]
  BY <1>1, <1>2 DEF TypeOK
<1> QED BY <1>1, <1>2, <1>3, LookupUnfolded, LookupUnfoldedNext DEF TypeOK

\* pop_alias_info keeps it, whether an earlier owner comes back or the name is
\* free again, and whichever transaction the last entry came from.
LEMMA UnprocessCoinbaseInv ==
  ASSUME RegistryInv, UnprocessExtra, Last(applied).coinbase
  PROVE  RegistryInv'
<1> DEFINE n == Last(applied).ai.m_alias
           h == m_aliases[n]
           kept == Erase(m_addr_to_alias, Last(h).m_address)
<1>1. TypeOK /\ m_aliases \in [AliasNames -> Seq(AliasInfo)]
  BY DEF RegistryInv, TypeOK
<1>2. applied # <<>> /\ h # <<>>
  BY DEF UnprocessExtra, pop_alias_info_ok
<1>3. n \in AliasNames /\ Front(applied) \in Seq(Carriers)
  BY <1>1, <1>2, LastCarrier
<1>4. h \in Seq(AliasInfo)
  BY <1>1, <1>3
<1>5. Leads(kept, m_aliases, n)
  BY <1>1, <1>2, <1>3, EraseLeads, LookupUnfolded DEF TypeOK
<1>6. /\ m_aliases' = [m_aliases EXCEPT ![n] = Front(h)]
      /\ m_addr_to_alias' = IF Len(h) > 1 THEN Assign(kept, Last(Front(h)).m_address, n)
                                          ELSE kept
      /\ applied' = Front(applied) /\ left_behind' = left_behind
  BY DEF UnprocessExtra, pop_alias_info, pop_addr_to_alias
<1>7. Front(h) \in Seq(AliasInfo)
  BY <1>2, <1>4, FrontOwner
<1>8. Len(h) > 1 => Front(h) # <<>> /\ Last(Front(h)).m_address \in Addresses
  BY <1>2, <1>4, FrontOwner, EntryFields
<1>9. m_aliases' \in [AliasNames -> Seq(AliasInfo)] /\ left_behind' \in [AliasNames -> Nat]
  BY <1>1, <1>3, <1>6, <1>7 DEF TypeOK
<1> HIDE DEF n, h, kept
<1>10. Lookup(m_addr_to_alias', m_aliases')
  <2> DEFINE new == Front(h)
  <2>1. NewHistory(m_aliases, m_aliases', n, new)
    BY <1>1, <1>3, <1>6 DEF NewHistory
  <2>2. new \in Seq(AliasInfo)
    BY <1>7
  <2>3. CASE Len(h) > 1
    <3>1. m_addr_to_alias' = Assign(kept, Last(new).m_address, n)
      BY <1>6, <2>3
    <3>2. new # <<>> /\ Last(new).m_address \in Addresses
      BY <1>8, <2>3
    <3> HIDE DEF new
    <3> QED BY <1>1, <1>3, <1>5, <2>1, <2>2, <3>1, <3>2, AssignLookup
  <2>4. CASE ~(Len(h) > 1)
    <3>1. m_addr_to_alias' = kept
      BY <1>6, <2>4
    <3> QED BY <1>5, <2>1, <3>1 DEF Leads, Lookup, NewHistory
  <2> QED BY <2>3, <2>4
<1> QED BY <1>3, <1>6, <1>9, <1>10, LookupUnfoldedNext

\* The rebuilt index leads from an address to one of the names it owns.
LEMMA RestartInv ==
  ASSUME RegistryInv, Restart
  PROVE  RegistryInv'
<1> DEFINE d == m_addr_to_alias'
           Owned(a) == {n \in Named(m_aliases) : Owner(m_aliases, n) = a}
           Last_(a) == CHOOSE n \in Named(m_aliases) :
             /\ Owner(m_aliases, n) = a
             /\ \A m \in Named(m_aliases) :
                  Owner(m_aliases, m) = a => NameRank[m] <= NameRank[n]
<1>1. TypeOK /\ UNCHANGED <<m_aliases, applied, left_behind>>
  BY DEF RegistryInv, Restart
<1>2. d = [a \in {Owner(m_aliases, n) : n \in Named(m_aliases)} |-> Last_(a)]
  BY DEF Restart, fill_addr_to_alias_dict
<1>3. ASSUME NEW a \in {Owner(m_aliases, n) : n \in Named(m_aliases)}
      PROVE  Last_(a) \in Named(m_aliases) /\ Owner(m_aliases, Last_(a)) = a
  <2>1. Owned(a) # {} /\ Owned(a) \in SUBSET AliasNames
    BY <1>3 DEF Named
  <2>2. PICK n \in Owned(a) : \A m \in Owned(a) : NameRank[m] <= NameRank[n]
    BY <2>1, RegistryAssumption
  <2> QED BY <2>2
<1>4. ASSUME NEW a \in {Owner(m_aliases, n) : n \in Named(m_aliases)}
      PROVE  a \in Addresses
  <2>1. PICK n \in AliasNames : m_aliases[n] # <<>> /\ a = Last(m_aliases[n]).m_address
    BY DEF Named, Owner
  <2>2. m_aliases[n] \in Seq(AliasInfo)
    BY <1>1 DEF TypeOK
  <2> QED BY <2>1, <2>2, FrontOwner, EntryFields
<1>5. Named(m_aliases) \subseteq AliasNames
  BY DEF Named
<1> HIDE DEF d, Last_
<1>6. /\ DOMAIN d = {Owner(m_aliases, n) : n \in Named(m_aliases)}
      /\ \A a \in DOMAIN d : d[a] = Last_(a)
      /\ d = [a \in DOMAIN d |-> d[a]]
  BY <1>2
<1>7. \A a \in DOMAIN d : d[a] \in Named(m_aliases) /\ Owner(m_aliases, d[a]) = a
  BY <1>3, <1>6
<1>8. DOMAIN d \subseteq Addresses /\ d \in [DOMAIN d -> AliasNames]
  BY <1>4, <1>5, <1>6, <1>7
<1>9. TypeOK'
  BY <1>1, <1>8 DEF TypeOK, d
<1>10. LookupNamesOwner'
  BY <1>1, <1>7 DEF LookupNamesOwner, d, Named, Owner
<1> QED BY <1>9, <1>10 DEF RegistryInv

\* A lookup by address names an alias that the address owns now, after any
\* sequence of registrations, updates, popped blocks and restarts, also when the
\* entry of an ordinary transaction has outlived its block and a later pop takes
\* the entry of another transaction.
THEOREM LookupCorrectness == Spec => []LookupNamesOwner
<1>1. Init => RegistryInv
  BY DEF Init, RegistryInv, TypeOK, LookupNamesOwner
<1>2. RegistryInv /\ [Next]_vars => RegistryInv'
  <2> SUFFICES ASSUME RegistryInv, [Next]_vars PROVE RegistryInv'
    OBVIOUS
  <2>1. CASE UNCHANGED vars
    BY <2>1 DEF vars, RegistryInv, TypeOK, LookupNamesOwner, Named, Owner
  <2>2. ASSUME NEW ai \in AliasInfo, NEW coinbase \in BOOLEAN, ProcessExtra(ai, coinbase)
        PROVE  RegistryInv'
    BY <2>2, ProcessExtraInv
  <2>3. CASE UnprocessExtra
    BY <2>3, SkippedInv, UnprocessCoinbaseInv
  <2>4. CASE Restart
    BY <2>4, RestartInv
  <2> QED BY <2>1, <2>2, <2>3, <2>4 DEF Next
<1>3. RegistryInv => LookupNamesOwner
  BY DEF RegistryInv
<1> QED BY <1>1, <1>2, <1>3, PTL DEF Spec

=============================================================================
