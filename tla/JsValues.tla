------------------------------ MODULE JsValues ------------------------------
(***************************************************************************)
(* What crosses the boundary of crates/tornadocash/wasm: JavaScript's      *)
(* numbers and bigints (bigint.rs) and byte strings in hex (hex.rs), and   *)
(* how they become the core's integers and field elements, or an error.    *)
(*                                                                         *)
(* The widths are constants.  A byte is two digits; a digit's case is left *)
(* out, and RADIX stands for every character that is no digit.             *)
(***************************************************************************)
EXTENDS Integers, SequencesExt, MimcSponge

CONSTANTS
  RADIX, WORD_BYTES,  \* of a digit, and of a field element, topic or ABI word
  U32_MAX, U64_MAX,
  Thrown              \* a JavaScript Error in place of a value

\* What a digit is worth with n others behind it.
Weight[n \in 0..(2 * WORD_BYTES)] == IF n = 0 THEN 1 ELSE RADIX * Weight[n - 1]

ASSUME WidthAssumption ==
  /\ RADIX \in Nat \ {0, 1} /\ WORD_BYTES \in Nat \ {0}
  /\ P \in 1..Weight[2 * WORD_BYTES]
  /\ U32_MAX \in Nat /\ U64_MAX \in Nat

\* An Error is no number and no sequence of numbers.
ASSUME ThrownAssumption == Thrown \notin Nat /\ Thrown \notin Seq(Nat)

-----------------------------------------------------------------------------
Number(n) == [type |-> "number", value |-> n]
BigInt(n) == [type |-> "bigint", value |-> n]
\* Numbers that are no integers, and values of other types.
Fraction == [type |-> "fraction", value |-> 0]
NonFinite == [type |-> "nonfinite", value |-> 0]
Undefined == [type |-> "undefined", value |-> 0]
Null == [type |-> "null", value |-> 0]

\* u32::try_from(JsU32), u64::try_from(JsU64): nothing is coerced or truncated.
ToU32(v) == IF v.type = "number" /\ v.value \in 0..U32_MAX THEN v.value ELSE Thrown
ToU64(v) == IF v.type = "bigint" /\ v.value \in 0..U64_MAX THEN v.value ELSE Thrown
-----------------------------------------------------------------------------
Texts == [prefixed : BOOLEAN, digits : Seq(0..RADIX)]
Text(prefixed, digits) == [prefixed |-> prefixed, digits |-> digits]

\* Hex::to_bytes
ToBytes(text) ==
  IF text.prefixed /\ Len(text.digits) % 2 = 0 /\ ~ Contains(text.digits, RADIX)
  THEN [k \in 1..(Len(text.digits) \div 2) |->
          RADIX * text.digits[2 * k - 1] + text.digits[2 * k]]
  ELSE Thrown

BigEndian(bytes) == FoldLeft(LAMBDA n, byte : RADIX * RADIX * n + byte, 0, bytes)

\* [u8; 32]::try_from
ToWord(text) ==
  LET bytes == ToBytes(text)
  IN  IF bytes # Thrown /\ Len(bytes) = WORD_BYTES THEN BigEndian(bytes) ELSE Thrown

\* Field::try_from(Hex) and back: a word beyond the field is refused, not reduced.
ToField_Reduced(text) ==
  LET word == ToWord(text) IN IF word = Thrown THEN Thrown ELSE word % P
ToField(text) ==
  LET word == ToWord(text) IN IF word \in Elements THEN word ELSE Thrown

Digits(words) ==
  LET digit(n, k) == (n \div Weight[2 * WORD_BYTES - k]) % RADIX
  IN  FlattenSeq([w \in DOMAIN words |-> [k \in 1..(2 * WORD_BYTES) |-> digit(words[w], k)]])
FromField(element) == Text(TRUE, Digits(<<element>>))
=============================================================================
