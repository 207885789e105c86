------------------------------ MODULE ByteScan ------------------------------
(***************************************************************************)
(* Searches in the metadata bytes of the nofl space, a word of eight bytes *)
(* at a time (swar.h).  Memory is a function from addresses to bytes, and  *)
(* a word is a function from 0 .. 7, the byte of the lowest address first. *)
(* The addition in match_bytes_against_tag is of bytes of the mask, which  *)
(* do not carry.                                                           *)
(***************************************************************************)
EXTENDS Integers, FiniteSetsExt, Bitwise

WORD == 8

load_eight_aligned_bytes(m, p) == [i \in 0 .. WORD - 1 |-> m[p + i]]
ShiftedDown(w, n) == [i \in 0 .. WORD - 1 |-> IF i + n < WORD THEN w[i + n] ELSE 0]
ShiftedUp(w, n) == [i \in 0 .. WORD - 1 |-> IF i >= n THEN w[i - n] ELSE 0]

\* The bytes of a word that match: with any of the bits of mask, or with tag under mask.
match_bytes_against_bits(w, mask) == {i \in 0 .. WORD - 1 : w[i] & mask # 0}
match_bytes_against_tag(w, mask, tag) ==
  {i \in 0 .. WORD - 1 :
     (((((w[i] & mask) ^^ tag) + mask) & (mask + 1)) ^^ (mask + 1)) # 0}

RECURSIVE ScanBits(_, _, _, _, _)
ScanBits(m, ptr, n, limit, mask) ==
  LET match == match_bytes_against_bits(load_eight_aligned_bytes(m, ptr + n), mask) IN
  IF n >= limit THEN limit
  ELSE IF match # {} THEN n + Min(match) ELSE ScanBits(m, ptr, n + WORD, limit, mask)

scan_for_byte_with_bits(m, ptr, limit, mask) ==
  LET unaligned == ptr % WORD
      bytes == ShiftedDown(load_eight_aligned_bytes(m, ptr - unaligned), unaligned)
      match == match_bytes_against_bits(bytes, mask)
  IN IF unaligned = 0 THEN ScanBits(m, ptr, 0, limit, mask)
     ELSE IF match # {} THEN Min(match)
     ELSE ScanBits(m, ptr, WORD - unaligned, limit, mask)

RECURSIVE ScanTag(_, _, _, _, _, _)
ScanTag(m, ptr, n, limit, mask, tag) ==
  LET match == match_bytes_against_tag(load_eight_aligned_bytes(m, ptr + n), mask, tag) IN
  IF n >= limit THEN limit
  ELSE IF match # {} THEN n + Min(match) ELSE ScanTag(m, ptr, n + WORD, limit, mask, tag)

\* Mutant: the first bytes of the word, before ptr, are searched too.
ScanFromWord(m, ptr, limit, mask, tag) ==
  LET unaligned == ptr % WORD
      match == match_bytes_against_tag(load_eight_aligned_bytes(m, ptr - unaligned), mask, tag)
  IN IF match # {} THEN Min(match) ELSE ScanTag(m, ptr, WORD - unaligned, limit, mask, tag)

scan_for_byte_with_tag(m, ptr, limit, mask, tag) ==
  LET unaligned == ptr % WORD
      bytes == ShiftedDown(load_eight_aligned_bytes(m, ptr - unaligned), unaligned)
      match == match_bytes_against_tag(bytes, mask, tag)
  IN IF unaligned = 0 THEN ScanTag(m, ptr, 0, limit, mask, tag)
     ELSE IF match # {} THEN Min(match)
     ELSE ScanTag(m, ptr, WORD - unaligned, limit, mask, tag)

\* The last match below ptr and not below base, or -1; NULL in the code.
RECURSIVE ScanBack(_, _, _, _)
ScanBack(m, ptr, base, mask) ==
  LET match == match_bytes_against_bits(load_eight_aligned_bytes(m, ptr - WORD), mask) IN
  IF ptr <= base THEN -1
  ELSE IF match # {} THEN ptr - WORD + Max(match) ELSE ScanBack(m, ptr - WORD, base, mask)

scan_backwards_for_byte_with_bits(m, ptr, base, mask) ==
  LET unaligned == ptr % WORD
      bytes == ShiftedUp(load_eight_aligned_bytes(m, ptr - unaligned), WORD - unaligned)
      match == match_bytes_against_bits(bytes, mask)
  IN IF unaligned # 0 /\ match # {} THEN ptr - WORD + Max(match)
     ELSE ScanBack(m, ptr - unaligned, base, mask)
================================================================================
