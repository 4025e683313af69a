---------------------------- MODULE MCPreflight ----------------------------
(* The filters of a symbol for TLC, and what an exchange may change in them. *)
EXTENDS Preflight

Base == [status |-> "TRADING", oto |-> TRUE, oco |-> TRUE, trailing |-> TRUE,
         tick |-> 1, minPrice |-> 1, maxPrice |-> 5000,
         step |-> 10, minQty |-> 10, maxQty |-> 5000,
         minNotional |-> 100000, maxNotional |-> 9000000,
         trailMin |-> 10, trailMax |-> 2000,
         askDown |-> 5000, askUp |-> 20000, bidDown |-> 5000, bidUp |-> 20000,
         rangeAskDown |-> 9000, rangeAskUp |-> 12000, rangeBidDown |-> 9000, rangeBidUp |-> 11000,
         maxOrders |-> 6, maxAlgo |-> 3, maxLists |-> 2, maxPosition |-> 5000]

MCRuleSets ==
  {Base,
   [Base EXCEPT !.tick = 2, !.step = 7],
   [Base EXCEPT !.minNotional = 950000],
   [Base EXCEPT !.trailing = FALSE, !.oto = FALSE],
   [Base EXCEPT !.askUp = 10110, !.maxAlgo = 1],
   [Base EXCEPT !.rangeAskDown = 9900],
   [Base EXCEPT !.status = "BREAK"]}
=============================================================================
