-------------------------- MODULE MCTransitionCore --------------------------
(* TLC instances of TransitionCore: an order with a payment and a shipping  *)
(* region, and a flat job with a single timer.                              *)
EXTENDS TransitionCoreAtomic, TLC

CONSTANTS q1, q2, s1, s2

NoGuard == [kind |-> "none"]
After(ms) == [kind |-> "timeout", ms |-> ms]
Tr(region, from, to, on, guard) ==
  [region |-> region, from |-> from, to |-> to, on |-> on, guard |-> guard]
Ev(type, ts, params) == [type |-> type, ts |-> ts, params |-> params, dispatch |-> TRUE]
EvReturned(type, ts, params) == [type |-> type, ts |-> ts, params |-> params, dispatch |-> FALSE]
None == <<>>
Approved == [ok |-> "yes"]
Refused == [ok |-> "no"]

\* Two regions, a guard, an explicit self-transition, a timer in each region, a
\* join fired by events and one fired by a timeout.
OrderMachine ==
  [parallel |-> TRUE,
   initial |-> [pay |-> "pending", ship |-> "waiting"],
   transitions |->
     << Tr("pay", "pending", "paid", "capture", [kind |-> "field", field |-> "ok", accepts |-> {"yes"}]),
        Tr("pay", "pending", "expired", "$timeout", After(2)),
        Tr("ship", "waiting", "packed", "pack", NoGuard),
        Tr("ship", "packed", "packed", "touch", NoGuard),
        Tr("ship", "packed", "waiting", "$timeout", After(1)) >>,
   joins |->
     << [when |-> [pay |-> "paid", ship |-> "packed"], target_region |-> "ship", target_state |-> "done"],
        [when |-> [pay |-> "expired"], target_region |-> "ship", target_state |-> "void"] >>]

OrderEvents ==
  {Ev("capture", 1, Approved), Ev("capture", 1, Refused), Ev("pack", 1, None), EvReturned("touch", 2, None)}

\* A flat machine whose timer re-enters its own state.
JobMachine ==
  [parallel |-> FALSE,
   initial |-> (DefaultRegion :> "open"),
   transitions |->
     << Tr(DefaultRegion, "open", "open", "$timeout", After(1)),
        Tr(DefaultRegion, "open", "closed", "close", NoGuard),
        Tr(DefaultRegion, "closed", "open", "$timeout", After(2)) >>,
   joins |-> <<>>]

JobEvents == {Ev("close", 1, None), Ev("close", 2, None)}

Absent == [entity |-> NoEntity, history |-> <<>>]

Legacy(states, version, updated_at, rows) ==
  [entity |-> [states |-> states, context |-> <<>>, version |-> version,
               created_at |-> 0, updated_at |-> updated_at, stored |-> NoEntries],
   history |-> rows]

LegacyRow(type, region, from, to, ts) ==
  [type |-> type, region |-> region, from |-> from, to |-> to, key |-> NoIdentity,
   params |-> None, ts |-> ts, at |-> 1]

\* No row yet, or a row an engine without entry tracking left behind.
OrderStores ==
  {Absent,
   Legacy([pay |-> "pending", ship |-> "waiting"], 1, 0, <<>>),
   Legacy([pay |-> "pending", ship |-> "packed"], 2, 1,
          <<LegacyRow("pack", "ship", "waiting", "packed", 1)>>)}

JobStores ==
  {Legacy(DefaultRegion :> "open", 1, 0, <<>>),
   Legacy(DefaultRegion :> "closed", 2, 1,
          <<LegacyRow("close", DefaultRegion, "open", "closed", 1)>>)}

\* A row the current engine has just created.
Created(states) ==
  [entity |-> [states |-> states, context |-> <<>>, version |-> 1, created_at |-> 1,
               updated_at |-> 1, stored |-> InitialEntries(states, 1)],
   history |-> <<>>]

\* A job in any of these shapes.
AllJobStores == JobStores \union {Absent, Created(DefaultRegion :> "open")}

Symmetry == Permutations(Requests) \union Permutations(Schedulers)
=============================================================================
