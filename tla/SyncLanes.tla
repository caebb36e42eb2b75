----------------------------- MODULE SyncLanes -----------------------------
(***************************************************************************)
(* Sync lanes: how the tags of a sync record pick the lane it is queued on *)
(* and the lanes that lane has to wait for (Core/Sync/Record/OCSyncLane.m, *)
(* -_laneForTags: of Vaults/Database/OCDatabase.m).                        *)
(*                                                                         *)
(* A tag is the local ID or the path of an item.  All the code asks of two *)
(* tags is whether they are equal and whether one is a string prefix of    *)
(* the other, so tags are opaque and Prefix is the set of those pairs.     *)
(***************************************************************************)
EXTENDS Naturals

CONSTANTS
    Tags,       \* local IDs and paths
    Root,       \* the path "/", which never relates two tag sets
    Prefix      \* pairs <<a, b>> of tags such that b starts with a

ASSUME PrefixAssumption == Prefix \subseteq Tags \X Tags

Considered(tags) == tags \ {Root}

Related(a, b) == a = b \/ <<a, b>> \in Prefix \/ <<b, a>> \in Prefix

\* -coversTags:prefixMatches:identicalTags:
CoversTags(laneTags, tags) ==
    \E a \in Considered(tags), b \in laneTags : Related(a, b)

\* identicalTags == tags.count: a lane never holds Root, so a set with Root in
\* it is identical to none, and a lane may hold more tags than the record.
IdenticalTags(laneTags, tags) == tags \subseteq laneTags

\* Lanes are walked in the order of their IDs and the last identical one wins.
IsLaneForTags(lanes, tags, l) ==
    /\ l \in DOMAIN lanes
    /\ IdenticalTags(lanes[l].tags, tags)
    /\ \A m \in DOMAIN lanes : IdenticalTags(lanes[m].tags, tags) => m <= l

\* Mutant: only lanes with equal tags are waited for.
NewLaneEqualTagsOnly(lanes, tags) ==
    [tags |-> Considered(tags),
     after |-> {l \in DOMAIN lanes : lanes[l].tags = Considered(tags)}]

NewLane(lanes, tags) ==
    [tags |-> Considered(tags),
     after |-> {l \in DOMAIN lanes : CoversTags(lanes[l].tags, tags)}]
=============================================================================
