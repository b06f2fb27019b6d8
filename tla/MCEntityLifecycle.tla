------------------------- MODULE MCEntityLifecycle -------------------------
(* TLC instances of EntityLifecycle: an invoice that may be touched, paid or *)
(* run late, and is deleted and created again.                               *)
EXTENDS EntityLifecycle, MCTransitionCore

InvoiceMachine ==
  [parallel |-> TRUE,
   initial |-> [pay |-> "open", ship |-> "waiting"],
   transitions |->
     << Tr("pay", "open", "open", "touch", NoGuard),
        Tr("pay", "open", "paid", "capture", NoGuard),
        Tr("pay", "open", "late", "$timeout", After(1)) >>,
   joins |-> << [when |-> [pay |-> "paid"], target_region |-> "ship", target_state |-> "done"] >>]

\* Enough for a replay, and for a row of each kind.
TwoEvents == {Ev("touch", 1, None), EvReturned("capture", 1, None)}

\* An invoice that was just created, or one an engine without identities wrote.
InvoiceStores ==
  {Created([pay |-> "open", ship |-> "waiting"]),
   Legacy([pay |-> "open", ship |-> "waiting"], 2, 1,
          <<LegacyRow("touch", "pay", "open", "open", 9)>>)}
=============================================================================
