---------------------------- MODULE MCWorkload --------------------------------
EXTENDS Workload

\* Two of the streams: one that inserts, one that returns early.
TheStreams == {"order-stream", "shipment-stream"}
TheCycle ==
  [t \in TheStreams |->
    IF t = "order-stream" THEN <<"insert_order", "other">>
    ELSE <<"insert_shipment_for_paid_order", "advance_random_shipment",
           "advance_random_shipment">>]

\* Two customers, products and orders, a category, and the one shipment.
TheTarget ==
  [customers |-> 2, categories |-> 1, products |-> 2, orders |-> 2, shipments |-> 1]
=============================================================================
