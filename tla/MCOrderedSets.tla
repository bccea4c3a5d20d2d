--------------------------- MODULE MCOrderedSets ---------------------------
(* Each behaviour uses a skip list or a hash map.  The skip list: two      *)
(* levels, three threads, two keys and three calls, from lists of none,    *)
(* one or both keys with towers of every height.  The map: two calls on    *)
(* three keys of which two have the same hash, from four maps: two that    *)
(* puts make grow, and two that have grown, by puts of keys erased since,  *)
(* and have buckets to be made, in one of them below a bucket that must be *)
(* made first.                                                             *)
EXTENDS SkipList, TLC

CONSTANTS MapKeys, MapHash, MapBits, MapSizes, Maps, MaxMapCalls

VARIABLES family, mapNode, bucket_count_, size_, mapRetired, mapLeaked, mapTh, mapCalls, mapSeen

Map == INSTANCE HashMap WITH
    Keys <- MapKeys, Hash <- MapHash, Bits <- MapBits, Sizes <- MapSizes,
    InitialMaps <- Maps, MaxCalls <- MaxMapCalls,
    node <- mapNode, retired <- mapRetired, leaked <- mapLeaked, th <- mapTh,
    calls <- mapCalls, seen <- mapSeen

mapVars == <<mapNode, bucket_count_, size_, mapRetired, mapLeaked, mapTh, mapCalls, mapSeen>>
allVars == <<vars, mapVars, family>>

(* What is not used is empty. *)
EmptyList == node = InitialList({}, << >>)
EmptyMap == bucket_count_ = 1 /\ size_ = 0 /\ Cardinality(DOMAIN mapNode) = 1

SetsInit ==
    /\ Init /\ Map!Init
    /\ \/ family = "skip_list" /\ EmptyMap
       \/ family = "hash_map" /\ EmptyList

SetsNext ==
    \/ family = "skip_list" /\ Next /\ UNCHANGED <<mapVars, family>>
    \/ family = "hash_map" /\ Map!Next /\ UNCHANGED <<vars, family>>

SetsSpec == SetsInit /\ [][SetsNext]_allVars

(* The hash map's list is in split order, and searches start before what   *)
(* they look for.                                                          *)
SplitOrdered == Map!SplitOrdered

(* size_ is the number of keys whenever no call is under way. *)
SizeIsExact == Map!SizeIsExact

(* get, contains, and calls that report failure answer what was true of    *)
(* the hash map at some moment of the call.                                *)
LookupsAreTrue == Map!LookupsAreTrue

(* put and erase of the hash map change its set of keys atomically. *)
KeysAreASet == Map!KeysAreASet

(* Keys 1 and 2 are in one bucket whatever the number of buckets. *)
Hashes == [k \in MapKeys |-> IF k = 3 THEN 3 ELSE 2]

SmallMaps ==
    {[buckets |-> 1, keys |-> {}, made |-> {}],
     [buckets |-> 2, keys |-> {1, 2}, made |-> {}],
     [buckets |-> 4, keys |-> {1}, made |-> {}],
     [buckets |-> 4, keys |-> {3}, made |-> {1}]}

ThreadSymmetry == Permutations(Threads)
=============================================================================
