---------------------------- MODULE MCCollection ----------------------------
(***************************************************************************)
(* Mixes of calls for TLC.  Each mix is the set of requests the clients of *)
(* one run draw from; every thread draws again and again until the clients *)
(* stop.  "h" is the name of an index, "none" of one nobody installs: a    *)
(* search there is the brute-force one.                                    *)
(***************************************************************************)
EXTENDS Collection, TLC

CONSTANTS i1, i2, v1, v2, t1, t2, t3

MCNames == {"h", "none"}

Req(op, ids, val, name, kind) ==
  [op |-> op, ids |-> ids, val |-> val, name |-> name, kind |-> kind, k |-> 1]

Adds(batches, vals) == {Req("add", b, v, "none", "unknown") : b \in batches, v \in vals}
Removes(batches) == {Req("remove", b, Nil, "none", "unknown") : b \in batches}
Searches(names) == {Req("search", {}, Nil, n, "unknown") : n \in names}
Saves == {Req("save", {}, Nil, "none", "unknown")}
Asks(names) == {Req("get_index_params", {}, Nil, n, "unknown") : n \in names}
AddIndexes(name, kinds) == {Req("add_index", {}, Nil, name, k) : k \in kinds}

Singles == {{id} : id \in Ids}
Batches == (SUBSET Ids) \ {{}}

\* An ivf_flat index that is to have no clusters.
AddEmptyIndex(name) == {[Req("add_index", {}, Nil, name, "ivf_flat") EXCEPT !.k = 0]}

LoadedWith(params) == [n \in MCNames |-> IF n = "h" THEN params ELSE Nil]
LoadedIvf == LoadedWith([kind |-> "ivf_flat", k |-> 1])
LoadedNone == LoadedWith(Nil)

\* Everything that can be asked of a collection whose one index is hnsw ...
HnswMix == Adds(Singles, Vals) \cup Removes(Singles) \cup Searches({"h"}) \cup Saves
\* ... and may be asked for at any time.
HnswAddIndexMix == HnswMix \cup AddIndexes("h", {"hnsw", "unknown"}) \cup Asks({"h"})

\* A collection that gets an index of either kind while vectors are added, perhaps
\* an ivf_flat index that never gets a cluster.
IvfMix == Adds(Singles, Vals) \cup Searches({"h"}) \cup AddIndexes("h", Kinds) \cup AddEmptyIndex("h")

\* A collection with an ivf_flat index whose vectors come and go.
IvfRemoveMix == Adds(Singles, Vals) \cup Removes(Batches) \cup Searches({"h"})

\* Everything that can be asked of a collection.
AllMix == Adds(Singles, Vals) \cup Removes(Singles) \cup Searches({"h", "none"}) \cup Saves
            \cup AddIndexes("h", Kinds) \cup Asks({"h"})

RemoveAddIndexMix == Removes(Singles) \cup AddIndexes("h", {"hnsw"})

Symmetry == Permutations(Threads) \cup Permutations(Ids) \cup Permutations(Vals)
==============================================================================
