------------------------------- MODULE WalFormat -------------------------------
(***************************************************************************)
(* The layout of a -wal file as sync_wal sees it: a header, then frames of *)
(* a frame header and a page each.  The file is read while SQLite writes   *)
(* to it, so it may end anywhere.                                          *)
(***************************************************************************)
EXTENDS Integers

CONSTANTS
  WAL_HEADER_SIZE,          \* 32 in the program
  WAL_FRAME_HEADER_SIZE     \* 24

ASSUME SizesAssumption ==
  WAL_HEADER_SIZE \in Nat \ {0} /\ WAL_FRAME_HEADER_SIZE \in Nat \ {0}

\* Where a header and k frames of pages of this size end.
FrameEnd(k, page_size) == WAL_HEADER_SIZE + k * (WAL_FRAME_HEADER_SIZE + page_size)

\* Variant: the last frame counts although it is not complete.
wal_len_unaligned(len, page_size) == len

\* The largest prefix of a file of this length that holds only complete frames.
wal_aligned_len(len, page_size) ==
  IF len < WAL_HEADER_SIZE + WAL_FRAME_HEADER_SIZE
  THEN IF len < WAL_HEADER_SIZE THEN len ELSE WAL_HEADER_SIZE
  ELSE IF page_size = 0 THEN WAL_HEADER_SIZE
  ELSE FrameEnd((len - WAL_HEADER_SIZE) \div (WAL_FRAME_HEADER_SIZE + page_size), page_size)
================================================================================
