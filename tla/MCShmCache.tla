----------------------------- MODULE MCShmCache -----------------------------
(***************************************************************************)
(* Small instances of ShmCache for TLC.                                    *)
(***************************************************************************)
EXTENDS ShmCache, TLC

\* A two-chunk file whose second chunk is short, a one-chunk file and an
\* empty one; "miss" is not in the cache.
MCFileSize == [f \in Cached |-> CASE f = "two" -> 3 [] f = "one" -> 2 [] f = "empty" -> 0]

WorkerSymmetry == Permutations(Workers) \cup Permutations(CacheWorkers)
=============================================================================
