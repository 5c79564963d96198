------------------------------ MODULE aliases ------------------------------
(***************************************************************************)
(* The alias registry operations of currency_core/blockchain_storage.cpp:  *)
(* put_alias_info and pop_alias_info as functions on m_aliases (a history  *)
(* of entries for every name) and on m_addr_to_alias (its reverse index).  *)
(* An alias_info is [m_alias, m_address, m_sign]; m_sign is the address    *)
(* whose key made the signature, or null_sig for a first registration.     *)
(***************************************************************************)
EXTENDS Naturals, Sequences, SequencesExt

CONSTANTS AliasNames, Addresses, null_sig

ASSUME AliasAssumption == null_sig \notin Addresses

AliasInfo == [m_alias : AliasNames, m_address : Addresses,
              m_sign : Addresses \cup {null_sig}]

\* A new alias needs a free name, an update a signature by the current owner.
put_alias_info_ok(aliases, ai) ==
  LET alias_history == aliases[ai.m_alias] IN
  IF ai.m_sign = null_sig
  THEN alias_history = <<>>
  ELSE /\ alias_history # <<>>
       /\ Last(alias_history).m_address = ai.m_sign


put_alias_info(aliases, ai) ==
  [aliases EXCEPT ![ai.m_alias] = Append(@, ai)]

pop_alias_info_ok(aliases, ai) == aliases[ai.m_alias] # <<>>


pop_alias_info(aliases, ai) == [aliases EXCEPT ![ai.m_alias] = Front(@)]

\* The reverse index is a partial function: std::map erase and operator[].
Erase(dict, addr) == [a \in DOMAIN dict \ {addr} |-> dict[a]]

Assign(dict, addr, name) ==
  [a \in DOMAIN dict \cup {addr} |-> IF a = addr THEN name ELSE dict[a]]

\* Mutant: an update keeps the entry of the previous owner.
put_addr_keeping_previous(aliases, dict, ai) == Assign(dict, ai.m_address, ai.m_alias)

\* An update drops the entry of the previous owner before adding the new one.
put_addr_to_alias(aliases, dict, ai) ==
  LET alias_history == aliases[ai.m_alias]
      kept == IF ai.m_sign = null_sig THEN dict
              ELSE Erase(dict, Last(alias_history).m_address)
  IN Assign(kept, ai.m_address, ai.m_alias)

\* Mutant: the owner before the popped entry is not put back.
pop_addr_erase_only(aliases, dict, ai) ==
  Erase(dict, Last(aliases[ai.m_alias]).m_address)

pop_addr_to_alias(aliases, dict, ai) ==
  LET alias_history == aliases[ai.m_alias]
      kept == Erase(dict, Last(alias_history).m_address)
  IN IF Len(alias_history) > 1
     THEN Assign(kept, Last(Front(alias_history)).m_address, ai.m_alias)
     ELSE kept

=============================================================================
