----------------------------- MODULE Validation -----------------------------
(***************************************************************************)
(* DataValidator, which judges a ParseResult, and decompress_chunk. A      *)
(* ParseResult is the times of its events, in order, its snapshots (by     *)
(* time: the number of players, and of players off the map) and its        *)
(* quality. The first 100 snapshots are looked at for positions and the    *)
(* first 10 for players; a model has no more.                              *)
(***************************************************************************)
EXTENDS Lookups, Sequences

\* _check_events
EventsInOrder(times) == \A i \in 1 .. Len(times) - 1 : times[i] <= times[i + 1]

\* Variant of GapsAreSmall: only the first two snapshots are compared.
GapsAreSmall_First(keys, gap) ==
    \A k \in keys : k = Least(keys) =>
        keys = {k} \/ Least(keys \ {k}) - k <= gap

\* _check_snapshots: no two neighbours are more than the gap apart.
GapsAreSmall(keys, gap) ==
    \A k \in keys : (\A l \in keys : l <= k) \/ \E l \in keys : k < l /\ l <= k + gap

\* validate: is_valid
Valid(times, snaps, quality, gap) ==
    /\ times = <<>> => quality # "FULL"
    /\ EventsInOrder(times)
    /\ GapsAreSmall(DOMAIN snaps, gap)
    /\ \A k \in DOMAIN snaps : snaps[k].offMap = 0 /\ snaps[k].players \in {0, 10}

-----------------------------------------------------------------------------
(* A chunk is [form, magic]: how it is compressed, and the algorithm that its
   first bytes suggest. Raw deflate data has no magic, and may have any. *)

Corrupted == "RoflCorruptedError"

\* Variant of DetectAlgorithm: raw data is tried as zstd.
DetectAlgorithm_Zstd(chunk) == IF chunk.magic = "zlib" THEN "zlib" ELSE "zstd"

\* _detect_algorithm: zlib unless the first bytes are zstd's.
DetectAlgorithm(chunk) == IF chunk.magic = "zstd" THEN "zstd" ELSE "zlib"

\* decompress_chunk: zlib falls back to raw deflate; zstd needs its library.
Decompress(chunk, algorithm, hasZstd) ==
    LET used == IF algorithm = "auto" THEN DetectAlgorithm(chunk) ELSE algorithm
    IN IF \/ used = "zstd" /\ hasZstd /\ chunk.form = "zstd"
          \/ used = "zlib" /\ chunk.form \in {"zlib", "raw"}
       THEN "data" ELSE Corrupted
=============================================================================
