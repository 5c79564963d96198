SPECIFICATION Spec
CONSTANTS
  shop = shop  club = club  alice = alice  bob = bob  carol = carol
  AliasNames = {shop, club}  Addresses = {alice, bob, carol}  null_sig = null_sig
  Owners <- SharedOwners  NameRank <- MCNameRank  MaxEntries = 4  MaxHistory = 3
INVARIANT OwnerIsListed
