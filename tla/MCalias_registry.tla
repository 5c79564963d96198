-------------------------- MODULE MCalias_registry --------------------------
(***************************************************************************)
(* Two alias names and three addresses: every address open to both names,  *)
(* or the addresses divided between them.                                  *)
(***************************************************************************)
EXTENDS alias_registry, TLC

CONSTANTS shop, club, alice, bob, carol

SharedOwners == [n \in {shop, club} |-> {alice, bob}]
SeparateOwners == (shop :> {alice, bob}) @@ (club :> {carol})
MCNameRank == (club :> 1) @@ (shop :> 2)

=============================================================================
