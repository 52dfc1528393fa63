------------------------ MODULE MC_RelayedWithdrawal ------------------------
(***************************************************************************)
(* Notes of three bits a half.  One note is written down for every pool of   *)
(* the catalogue and for pools with unusual decimals, and every note for   *)
(* one pool.  Two are withdrawn, from a pool of ether and one of tokens.   *)
(***************************************************************************)
EXTENDS RelayedWithdrawal

Bitstring(i) == [b \in 1..SECRET_BITS |-> (i \div 2^(b - 1)) % 2 = 1]
SomeNote == [nullifier |-> Bitstring(1), secret |-> Bitstring(2)]

Written(pool, note) == [pool |-> pool, note |-> note]
Custom(amountWei, decimals) == Pool(5, "0xC00000", Native("tiny", decimals), amountWei)
CustomPools ==
  {Custom(<<1, 0, 0, 0>>, 0), Custom(<<1, 0, 0, 0>>, 3), Custom(<<1, 0, 0, 0>>, 2), Custom(<<1, 2, 0, 0>>, 3),
   Custom(<<1, 2>>, 3), Custom(<<1, 2>>, 2), Custom(<<0>>, 3), Custom(<<1, 0>>, 9), Custom(<<5, 0, 5>>, 1)}

ETHEREUM_ETHER_1 == ETHEREUM_ETHER[5]
ETHEREUM_USDC_100 == ETHEREUM_ERC20[5]

WithdrawnNotes == {Written(ETHEREUM_ETHER_1, SomeNote), Written(ETHEREUM_USDC_100, SomeNote)}
SomeBackups ==
  {Written(pool, SomeNote) : pool \in Range(POOLS) \cup CustomPools}
    \cup {Written(ETHEREUM_ETHER_1, note) : note \in Notes} \cup WithdrawnNotes

Units_(pool) == 20 * pool.amountWei[1]
Decimals_(pool) == pool.asset.decimals \div 6

Listed(pool, address) == [symbol |-> Symbol(pool), amount |-> Amount(pool), address |-> address]
Status(prices, serviceFee, address) ==
  [netId |-> 1, ethPrices |-> prices, serviceFee |-> serviceFee, rewardAccount |-> "relayer",
   instances |-> {Listed(ETHEREUM_ETHER_1, ETHEREUM_ETHER_1.address), Listed(ETHEREUM_USDC_100, address)}]
SomeStatuses ==
  {Status([usdc |-> price], serviceFee, ETHEREUM_USDC_100.address) : price \in {0, 3, 300}, serviceFee \in {-1, 1, 9}}
    \cup {Status([dai |-> 3], 1, ETHEREUM_USDC_100.address), Status([usdc |-> 3], 1, "0xC00000")}

\* A fee within the note, one with a refund that is, and one a unit above it.
UsdcStatus(price) == Status([usdc |-> price], 1, ETHEREUM_USDC_100.address)
SomeQuote(pool, price, refund) == <<pool.address, [status |-> UsdcStatus(price), gasPrice |-> 0, refund |-> refund]>>
SomeQuotes ==
  {SomeQuote(ETHEREUM_ETHER_1, 3, 0), SomeQuote(ETHEREUM_USDC_100, 300, 5), SomeQuote(ETHEREUM_USDC_100, 3, 5)}

\* For each segment, what Blake-256 gives until it gives a point.
Blake(y, sign) == [y |-> y, sign |-> sign]
BlakeOutputs ==
  << <<Blake(500, FALSE), Blake(3, TRUE), Blake(4, TRUE), Blake(5, FALSE), Blake(6, FALSE)>>,
     <<Blake(12, TRUE), Blake(13, TRUE), Blake(14, FALSE), Blake(15, FALSE), Blake(17, FALSE)>>,
     <<Blake(30, FALSE), Blake(31, TRUE), Blake(32, FALSE), Blake(33, FALSE), Blake(37, FALSE)>> >>
=============================================================================
