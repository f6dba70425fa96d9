------------------------------- MODULE EpHeader -------------------------------
(***************************************************************************)
(* The bits of a frame: the macros of src/esp32/ep/ep.h by which a board   *)
(* writes them, and the functions and the bit structure of                 *)
(* src/server/ep/esp_lib.py by which the server reads them.  A byte is a   *)
(* number below 2^8, a uint16_t in the memory of a board one below 2^16.   *)
(***************************************************************************)
EXTENDS Integers

Byte == 0 .. 255

Word == 0 .. 65535

EP_TYPE_MGMT == 0
EP_SUBTYPE_MGMT_ASSOC == 0
EP_SUBTYPE_MGMT_DASSOC == 1
EP_SUBTYPE_MGMT_PING == 2

EP_TYPE_DATA == 2
EP_SUBTYPE_DATA_IMAGE == 0

-----------------------------------------------------------------------------
(* ver_type_subtype: two bits, two bits, four bits. *)

EP_GET_VERSION(b) == b \div 64

EP_GET_TYPE(b) == (b \div 16) % 4

EP_GET_SUBTYPE(b) == b % 16

EP_SET_VERSION(b, val) == 64 * (val % 4) + (b % 64)

EP_SET_TYPE(b, val) == 64 * (b \div 64) + 16 * (val % 4) + (b % 16)

EP_SET_SUBTYPE(b, val) == 16 * (b \div 16) + (val % 16)

-----------------------------------------------------------------------------
(* timestamp_fragno: ten bits and six bits, in network byte order. *)

\* Mutant: the byte shifted up is taken as a signed one.
Swap_Signed(w) == 256 * (w % 256) - (IF w % 256 > 127 THEN 65536 ELSE 0) + (w \div 256)

\* be16toh and htobe16 on the little-endian board.
Swap(w) == 256 * (w % 256) + (w \div 256)

EP_SET_DATA_TIMESTAMP(w, val) == Swap(64 * (val % 1024) + (Swap(w) % 64))

\* Mutant: the number is put where the bytes of the board have it.
EP_SET_DATA_FRAGMENT_NO_HostOrder(w, val) == 64 * (w \div 64) + (val % 64)

EP_SET_DATA_FRAGMENT_NO(w, val) == Swap(64 * (Swap(w) \div 64) + (val % 64))

(***************************************************************************)
(* What the server parses, ImageHeader: the bytes as they come, the first  *)
(* one being the lower half of the board's word.                           *)
(***************************************************************************)
timestamp(w) == (256 * (w % 256) + (w \div 256)) \div 64

fragment_number(w) == (256 * (w % 256) + (w \div 256)) % 64
=============================================================================
