------------------------------ MODULE PoolNotes ------------------------------
(***************************************************************************)
(* The catalogue of pools, a pool's symbol and decimal amount, and the     *)
(* text a note is written down as, which names its pool by them (pool.rs,  *)
(* asset.rs and note/mod.rs of crates/tornadocash/core).                   *)
(*                                                                         *)
(* Amounts are their decimal digits, as they do not fit TLC's integers;    *)
(* addresses are shortened.  A pool's block, paymaster and provenance are  *)
(* left out.  A definition D_Suffix is D with a plausible bug.             *)
(***************************************************************************)
EXTENDS Naturals, SequencesExt

CONSTANTS
  SECRET_BITS,   \* the bits of a nullifier, and of a secret
  NoPool,
  Garbled        \* what cannot be read as a number or as hex

ASSUME NotesAssumption ==
  /\ SECRET_BITS \in Nat \ {0}
  /\ Garbled \notin Nat /\ Garbled \notin Seq(BOOLEAN)

Zeros(n) == [i \in 1..n |-> 0]
Wei(n, e) == <<n>> \o Zeros(e)

Native(symbol, decimals) == [native |-> TRUE, symbol |-> symbol, decimals |-> decimals, address |-> NoPool]
Erc20(symbol, decimals, address) == [native |-> FALSE, symbol |-> symbol, decimals |-> decimals, address |-> address]

ETH == Native("eth", 18)
MATIC == Native("matic", 18)
ETHEREUM_DAI == Erc20("dai", 18, "0x6B1754")
ETHEREUM_USDC == Erc20("usdc", 6, "0xA0b869")
ETHEREUM_USDT == Erc20("usdt", 6, "0xdAC17F")
ETHEREUM_WBTC == Erc20("wbtc", 8, "0x2260FA")
SEPOLIA_DAI == Erc20("dai", 18, "0xFF34B3")

\* new
Pool(chainId, address, asset, amountWei) ==
  [chainId |-> chainId, address |-> address, asset |-> asset, amountWei |-> amountWei]

Sepolia(address, asset, amountWei) == Pool(11155111, address, asset, amountWei)
Ethereum(address, asset, amountWei) == Pool(1, address, asset, amountWei)
Polygon(address, amountWei) == Pool(137, address, MATIC, amountWei)

SEPOLIA ==
  << Sepolia("0x0E999C", ETH, Wei(1, 16)), Sepolia("0x9480Be", ETH, Wei(3, 16)),
     Sepolia("0x8C4A04", ETH, Wei(1, 17)), Sepolia("0x830914", ETH, Wei(3, 17)),
     Sepolia("0x8cc930", ETH, Wei(1, 18)), Sepolia("0x7eE90e", ETH, Wei(3, 18)),
     Sepolia("0x8D10d5", ETH, Wei(1, 19)), Sepolia("0x3d1C94", ETH, Wei(3, 19)),
     Sepolia("0x6921fd", SEPOLIA_DAI, Wei(1, 20)) >>
ETHEREUM_ETHER ==
  << Ethereum("0x199112", ETH, Wei(1, 16)), Ethereum("0x398971", ETH, Wei(3, 16)),
     Ethereum("0x12D66f", ETH, Wei(1, 17)), Ethereum("0xf22487", ETH, Wei(3, 17)),
     Ethereum("0x47CE0C", ETH, Wei(1, 18)), Ethereum("0x74185a", ETH, Wei(3, 18)),
     Ethereum("0x910Cbd", ETH, Wei(1, 19)), Ethereum("0xc11197", ETH, Wei(3, 19)),
     Ethereum("0xA160cd", ETH, Wei(1, 20)) >>
ETHEREUM_ERC20 ==
  << Ethereum("0xD4B88D", ETHEREUM_DAI, Wei(1, 20)), Ethereum("0xFD8610", ETHEREUM_DAI, Wei(1, 21)),
     Ethereum("0x07687e", ETHEREUM_DAI, Wei(1, 22)), Ethereum("0x23773E", ETHEREUM_DAI, Wei(1, 23)),
     Ethereum("0xd96f2B", ETHEREUM_USDC, Wei(1, 8)), Ethereum("0x4736dC", ETHEREUM_USDC, Wei(1, 9)),
     Ethereum("0x169AD2", ETHEREUM_USDT, Wei(1, 8)), Ethereum("0x083622", ETHEREUM_USDT, Wei(1, 9)),
     Ethereum("0x178169", ETHEREUM_WBTC, Wei(1, 7)), Ethereum("0x610B71", ETHEREUM_WBTC, Wei(1, 8)),
     Ethereum("0xbB93e5", ETHEREUM_WBTC, Wei(1, 9)) >>
POLYGON == << Polygon("0x1E34A7", Wei(1, 20)), Polygon("0xdf231d", Wei(1, 21)) >>

POOLS == SEPOLIA \o ETHEREUM_ETHER \o ETHEREUM_ERC20 \o POLYGON
-----------------------------------------------------------------------------
(* Amounts. *)

\* The decimal point among the digits of an amount.
Point == 10
TrimEnd(text, c) == SubSeq(text, 1, SelectLastInSeq(text, LAMBDA d : d # c))

Pointed(digits, decimals) ==
  IF Len(digits) > decimals THEN InsertAt(digits, Len(digits) - decimals + 1, Point)
  ELSE <<0, Point>> \o Zeros(decimals - Len(digits)) \o digits

\* format_amount
FormatAmount(digits, decimals) ==
  IF decimals = 0 \/ digits = Zeros(1) THEN digits
  ELSE TrimEnd(TrimEnd(Pointed(digits, decimals), 0), Point)

Symbol(pool) == pool.asset.symbol
Amount(pool) == FormatAmount(pool.amountWei, pool.asset.decimals)
-----------------------------------------------------------------------------
(* Notes and their text. *)

Notes == [nullifier : [1..SECRET_BITS -> BOOLEAN], secret : [1..SECRET_BITS -> BOOLEAN]]
Preimage(note) == note.nullifier \o note.secret

FromPool(note, pool) ==
  [note |-> note, symbol |-> Symbol(pool), amount |-> Amount(pool), chainId |-> pool.chainId]

\* from_note: the first pool of the catalogue with the note's hints.
FromNote_AnyChain(string) ==
  LET k == SelectInSeq(POOLS, LAMBDA p : Symbol(p) = string.symbol /\ Amount(p) = string.amount)
  IN  IF k = 0 THEN NoPool ELSE POOLS[k]
FromNote(string) ==
  LET k == SelectInSeq(POOLS, LAMBDA p : /\ p.chainId = string.chainId
                                         /\ Symbol(p) = string.symbol /\ Amount(p) = string.amount)
  IN  IF k = 0 THEN NoPool ELSE POOLS[k]

\* Display: five parts with dashes between them, the last one's 0x apart.
Display(string) ==
  [parts |-> 5, tag |-> "tornado", symbol |-> string.symbol, amount |-> string.amount,
   chainId |-> string.chainId, prefixed |-> TRUE, bits |-> Preimage(string.note)]

\* from_str: the parts in their order, and where the first of them fails.
ParseError_AnyLength(text) ==
  IF text.parts < 5 \/ text.tag # "tornado" THEN "InvalidFormat"
  ELSE IF text.chainId = Garbled THEN "InvalidChainId"
  ELSE IF text.parts > 5 \/ text.bits = Garbled THEN "InvalidHex" ELSE "none"
ParseError(text) ==
  IF text.parts < 5 \/ text.tag # "tornado" THEN "InvalidFormat"
  ELSE IF text.chainId = Garbled THEN "InvalidChainId"
  ELSE IF text.parts > 5 \/ text.bits = Garbled THEN "InvalidHex"
  ELSE IF Len(text.bits) # 2 * SECRET_BITS THEN "InvalidFormat" ELSE "none"

FromStr(text) ==
  [note |-> [nullifier |-> SubSeq(text.bits, 1, SECRET_BITS),
             secret |-> SubSeq(text.bits, SECRET_BITS + 1, Len(text.bits))],
   symbol |-> text.symbol, amount |-> text.amount, chainId |-> text.chainId]
-----------------------------------------------------------------------------
\* The digits of a number, without leading zeros.
IsNumeral(digits) ==
  /\ digits \in Seq(0..9)
  /\ digits # <<>>
  /\ digits[1] = 0 => Len(digits) = 1

\* What an amount's text says: the digits before and after its point.
PointAt(text) == SelectInSeq(text, LAMBDA d : d = Point)
Whole(text) == IF PointAt(text) = 0 THEN text ELSE SubSeq(text, 1, PointAt(text) - 1)
Fraction(text) == IF PointAt(text) = 0 THEN <<>> ELSE SubSeq(text, PointAt(text) + 1, Len(text))

\* A number's digits without leading zeros.
Digits(text) ==
  LET k == SelectInSeq(text, LAMBDA d : d # 0)
  IN  IF k = 0 THEN Zeros(1) ELSE SubSeq(text, k, Len(text))

\* The text of an amount is the one way to write it in decimals: it has the amount's
\* value, a whole part without needless zeros, and no zero or point at its end.
WritesAmount(text, digits, decimals) ==
  /\ Whole(text) = Digits(Whole(text))
  /\ PointAt(text) # 0 => Fraction(text) # <<>> /\ Last(text) # 0
  /\ Len(Fraction(text)) <= decimals
  /\ Digits(Whole(text) \o Fraction(text) \o Zeros(decimals - Len(Fraction(text)))) = digits
==============================================================================
