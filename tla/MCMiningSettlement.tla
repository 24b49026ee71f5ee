----------------------- MODULE MCMiningSettlement -----------------------
(***************************************************************************)
(* One harness for the miner and settlement code (PoV miner worker,       *)
(* miner reward and DoD settlement ABI, settlement RPC paging) and the    *)
(* public key distribution storage: each initial state picks one part     *)
(* (fn).  For the pure functions it picks one argument tuple; for the DoD *)
(* PAYG spans and user product lists, empty tables the updates fill; for  *)
(* public key distribution, a stored state that the queries read; for the *)
(* miner worker, its start configuration.  The variables of the other     *)
(* parts keep a fixed value.                                               *)
(***************************************************************************)
EXTENDS Integers, TLC

CONSTANTS Nil, None, b1, s1, s2, o1, o2, p1, p2, m1, m2, sha, Zero, Unknown, NoTemplate,
          a1, a2, Email, WeChat, BadType, e1, w1, k1, d1, ED, RSA, OtherKT, pk1, pk2,
          h1, h2, x1, x2, Garbled

VARIABLES fn, size, count, offset, startHeight, maxEndHeight,
          conn, disc, t0, t1, t2, flight, split, now,
          orders, userOrders, products, payg, paygCalls, userProducts, productCalls,
          tip, tipCount, clock, mineBlockPool, minerAlgoBlocks, lastMineHeight,
          minerAddr, algoType, cpuMining, reply, rpcErr, submitted,
          rawParam, rawCalls, verifiers, publishes, oracles

pwVars == <<tip, tipCount, clock, mineBlockPool, minerAlgoBlocks, lastMineHeight,
            minerAddr, algoType, cpuMining, reply, rpcErr, submitted>>

vars == <<fn, size, count, offset, startHeight, maxEndHeight,
          conn, disc, t0, t1, t2, flight, split, now,
          orders, userOrders, products, payg, paygCalls, userProducts, productCalls, pwVars, rawParam, rawCalls,
          verifiers, publishes, oracles>>

(* calculateRange: int scaled to 6 bits, sizes 0..4, counts -1..5.         *)
CR == INSTANCE CalculateRange WITH IntWidth <- 6, Sizes <- 0..4, Counts <- -1..5

(* Rounds of 4 blocks, rewards from height 6, at most 8 blocks per claim.  *)
MR == INSTANCE MinerReward WITH RewardHeightStart <- 6, MaxRewardBlocks <- 8,
                                HeightRound <- 4, Heights <- 0..24

(* Calendar units scaled down but ordered; every period length divides 60. *)
MCUnits == {"Year", "Month", "Day", "Second"}
MCUnitLen == [u \in MCUnits |->
                CASE u = "Year" -> 6 [] u = "Month" -> 4 [] u = "Day" -> 2
                  [] u = "Second" -> 1]
DI == INSTANCE DoDInvoice WITH Units <- MCUnits, UnitLen <- MCUnitLen,
                               Times <- 0..6, Nows <- {3, 6}, Den <- 60

(* Spans: one product and order (the spans of different keys are           *)
(* independent), times 0..2, three updates.  The order and connection       *)
(* tables stay empty in this harness.                                      *)
DSP == INSTANCE DoDStore WITH Buyers <- {b1}, Sellers <- {s1}, OrderIds <- {o1},
                              ProductIds <- {p1}, Times <- 0..2, MaxCalls <- 3
(* Product lists: one buyer, two sellers offering the same two product    *)
(* ids, four updates (enough for each seller to give each id).             *)
DSU == INSTANCE DoDStore WITH Buyers <- {b1}, Sellers <- {s1, s2}, OrderIds <- {o1},
                              ProductIds <- {p1, p2}, Times <- 0..0, MaxCalls <- 4

(* Miner worker: two miners, one of them pledged, the pledge checked from  *)
(* height 1 on, one algorithm, two best-chain changes, one 30-second       *)
(* period (a template reused within it and renewed after it).              *)
PW == INSTANCE PovWorker WITH Miners <- {m1, m2}, Algos <- {sha}, Pledged <- {m1},
                              VerifyHeightStart <- 2,
                              None <- NoTemplate, MaxTips <- 2, MaxClock <- 1

(* Connection raw parameters: one connection, a merged field of each      *)
(* kind (ItemId, Price) and an identity field (BuyerProductId), values     *)
(* 0..2 (0: not set), three updates.                                       *)
DCP == INSTANCE DoDConnParam WITH Ids <- {1}, Fields <- {"ItemId", "Price", "BuyerProductId"},
                                  Values <- 0..2, MaxCalls <- 3

(* Public key distribution: two accounts, one id, an ED25519 key and a    *)
(* key of no valid length, two previous-block hashes, two codes.  The      *)
(* verifier table is checked with both verifier types and two infos (one  *)
(* an e-mail address); the publish and oracle tables with one type (the   *)
(* two types take the same paths there).                                   *)
PKV == INSTANCE PKDStore WITH Accounts <- {a1, a2}, OracleTypes <- {Email, WeChat},
          Infos <- {e1, w1}, Emails <- {e1}, VKeys <- {k1}, Ids <- {d1},
          KeyTypes <- {ED, RSA, OtherKT}, ED25519 <- ED, RSA4096 <- RSA, PubKeys <- {pk1, pk2},
          PkLen <- (pk1 :> 32 @@ pk2 :> 20), Hashes <- {h1, h2}, Codes <- {x1, x2},
          Fees <- {0, 1}, PublishCost <- 1
PKP == INSTANCE PKDStore WITH Accounts <- {a1, a2}, OracleTypes <- {Email},
          Infos <- {e1, w1}, Emails <- {e1}, VKeys <- {k1}, Ids <- {d1},
          KeyTypes <- {ED, RSA, OtherKT}, ED25519 <- ED, RSA4096 <- RSA, PubKeys <- {pk1, pk2},
          PkLen <- (pk1 :> 32 @@ pk2 :> 20), Hashes <- {h1, h2}, Codes <- {x1, x2},
          Fees <- {0, 1}, PublishCost <- 1

Idle(f) ==
    /\ f # "calculateRange" => size = 0 /\ count = 0 /\ offset = Nil
    /\ f # "minerReward" => startHeight = 0 /\ maxEndHeight = 0
    /\ f # "connInvoice" =>
          /\ conn = None /\ disc = None /\ t0 = 0 /\ t1 = 0 /\ t2 = 0
          /\ flight = FALSE /\ split = FALSE /\ now = 0
    /\ orders = <<>> /\ userOrders = <<>> /\ products = <<>>
    /\ f # "paygSpan" => payg = <<>> /\ paygCalls = <<>>
    /\ f # "userProduct" => userProducts = <<>> /\ productCalls = <<>>
    /\ f # "povWorker" => minerAddr = Zero /\ algoType = Unknown /\ ~cpuMining
    /\ f # "pkdVerifier" => verifiers = <<>>
    /\ f # "pkdPublish" => publishes = <<>> /\ oracles = <<>>

Init ==
    /\ \/ fn = "calculateRange" /\ CR!Init
       \/ fn = "minerReward" /\ MR!Init
       \/ fn = "connInvoice" /\ DI!Init
       \/ fn = "paygSpan" /\ DSP!Init
       \/ fn = "userProduct" /\ DSU!InitProducts
       \/ fn = "povWorker"
       \/ fn = "connParam"
       \/ fn = "pkdVerifier" /\ PKV!InitVerifiers
       \/ fn = "pkdPublish" /\ PKP!InitPublishes /\ PKP!InitOracles
    /\ PW!Init
    /\ DCP!Init
    /\ Idle(fn)

dsVars == <<orders, userOrders, products, payg, paygCalls, userProducts, productCalls>>
cpVars == <<rawParam, rawCalls>>

pureVars == <<fn, size, count, offset, startHeight, maxEndHeight,
              conn, disc, t0, t1, t2, flight, split, now, verifiers, publishes, oracles>>

(* The pure functions stutter; the DoD tables take their updates, the miner*)
(* worker its requests and chain changes.                                  *)
Next ==
    \/ UNCHANGED vars
    \/ fn = "paygSpan" /\ DSP!SpanNext /\ UNCHANGED <<pureVars, pwVars, cpVars>>
    \/ fn = "userProduct" /\ DSU!ProductNext /\ UNCHANGED <<pureVars, pwVars, cpVars>>
    \/ fn = "povWorker" /\ PW!Next /\ UNCHANGED <<pureVars, dsVars, cpVars>>
    \/ fn = "connParam" /\ DCP!Next /\ UNCHANGED <<pureVars, dsVars, pwVars>>

Spec == Init /\ [][Next]_vars

-----------------------------------------------------------------------------

(* calculateRange errs exactly when the reference page is empty and       *)
(* otherwise returns exactly the reference page.                          *)
PageMatchesReference == fn = "calculateRange" => CR!PageMatchesReference

(* MinerCalcRewardEndHeight returns the highest admissible round boundary *)
(* (or 0), and a claim from the start to it passes Verify.                *)
EndHeightMatchesReference == fn = "minerReward" => MR!EndHeightMatchesReference

(* DoDSettleBillingUnitRound, when it returns, gives the first unit        *)
(* boundary from the period start at or after the bound.                   *)
RoundMatchesReference == fn = "connInvoice" => DI!RoundMatchesReference

(* Split DoD invoices of adjacent windows sum to the invoice of their      *)
(* union (DoDSettleCalcConnInvoice).                                       *)
DoDUsageAdditive == fn = "connInvoice" => DI!DoDUsageAdditive

(* DoDSettleUpdateUserProduct lists each product id given for the buyer    *)
(* once, with its first seller, in first-call order.                       *)
UserProductsListed == fn = "userProduct" => DSU!UserProductsListed

(* A connection's PAYG span is, field by field, the last non-zero value   *)
(* given to DoDSettleUpdatePAYGTimeSpan.                                   *)
SpanIsLastNonZero == fn = "paygSpan" => DSP!SpanIsLastNonZero

(* GetWork only hands out templates at the height after the best chain's  *)
(* head, whatever the order of chain changes, ticks and requests.          *)
GetWorkAtNextHeight == fn = "povWorker" => PW!GetWorkAtNextHeight

(* Every template GetWork keeps handing out is found by findBlockInPool    *)
(* (mineBlockPool), across resets and reuse.                               *)
TemplatesSubmittable == fn = "povWorker" => PW!TemplatesSubmittable

(* A connection's raw parameters hold, field by field, the last value an  *)
(* update set, except the identity fields, which keep the first request's. *)
RawParamMerged == fn = "connParam" => DCP!RawParamMerged

(* Every scan of the public key distribution tables returns exactly the   *)
(* valid entries its filter selects, each field read back out of the key  *)
(* by the byte offsets as the key was built.                               *)
PKDScansAgree ==
    /\ fn = "pkdVerifier" => PKV!PKDScansAgree
    /\ fn = "pkdPublish" => PKP!PKDScansAgree

(* The point reads and the checks the contract methods run (verifier      *)
(* registration and removal, publication ownership, oracle codes) agree   *)
(* with the scans.                                                         *)
PKDChecksAgree ==
    /\ fn = "pkdVerifier" => PKV!PKDChecksAgree
    /\ fn = "pkdPublish" => PKP!PKDChecksAgree

(* The miner worker's, the raw parameters' and the public key             *)
(* distribution's variables keep their types.                              *)
TypeOK == PW!TypeOK /\ DCP!TypeOK /\ PKV!TypeOK /\ (fn = "userProduct" => DSU!TypeOK)

====
