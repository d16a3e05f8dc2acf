------------------------------ MODULE MCFilters ------------------------------
(* A filter of logs beside a filter of transactions, and the time-out loop.   *)
EXTENDS Filters, TLC

TwoKind == ("l" :> "logs") @@ ("t" :> "txs")

==============================================================================
