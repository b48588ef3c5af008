------------------------- MODULE MCStorageAdmission -------------------------
(* Two magnets and a plain torrent on one root; two rechecks.              *)
EXTENDS StorageAdmission, TLC

Control(d, b, r) ==
  [max_active_downloads |-> d, max_active_bytes |-> b, max_concurrent_rechecks |-> r]

MCSize == [t \in Torrents |-> IF t = "m2" THEN 3 ELSE 2]

\* Two downloads and four bytes at a time, one recheck.
MCOneControl == {Control(2, 4, 1)}
=============================================================================
