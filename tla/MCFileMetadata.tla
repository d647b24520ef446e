--------------------------- MODULE MCFileMetadata ---------------------------
(***************************************************************************)
(* FileMetadata for TLC: chars of 4 bits, hashes of 8, an alphabet of two  *)
(* letters (codes 2, 3 and 5, 6).  The files are all short ones of a zero  *)
(* byte, letters of both cases and a byte that is -1 as a char, and one of *)
(* nine times a letter, which the counters cannot hold.                    *)
(***************************************************************************)
EXTENDS FileMetadata

MCContents == SeqOf({0, 2, 5, 6, 15}, 3) \cup {[i \in 1..9 |-> IF i % 3 = 0 THEN 2 ELSE 5]}
=============================================================================
