------------------------- MODULE MCManagedChildren -------------------------
(* TLC instances of ManagedChildren: a run with two branches, one of which  *)
(* nests a settlement two levels deep, and a definition that nests itself.  *)
EXTENDS ManagedChildren, TLC

NoGuard == [kind |-> "none"]
Timeout == [kind |-> "timeout"]
Tr(region, from, to, on) ==
  [region |-> region, from |-> from, to |-> to, on |-> on, guard |-> NoGuard]
Timer(region, from, to) ==
  [region |-> region, from |-> from, to |-> to, on |-> "$timeout", guard |-> Timeout]
Ev(type, ts, params) == [type |-> type, ts |-> ts, params |-> params]
None == <<>>
Amended == [note |-> "x"]

\* A settlement: the innermost machine, which may time out.
Settlement ==
  [parallel |-> FALSE, initial |-> (DefaultRegion :> "run"), regions |-> <<DefaultRegion>>,
   transitions |-> << Tr(DefaultRegion, "run", "done", "pay"), Timer(DefaultRegion, "run", "lost") >>,
   joins |-> <<>>, managed |-> <<>>]

\* A return case: a lost settlement is to be settled again, which the engine
\* refuses as a re-entry.
ReturnCase ==
  [parallel |-> FALSE, initial |-> (DefaultRegion :> "open"), regions |-> <<DefaultRegion>>,
   transitions |-> << Tr(DefaultRegion, "open", "settling", "settle") >>,
   joins |-> <<>>,
   managed |-> (<<DefaultRegion, "settling">> :>
                  [machine |-> "settlement", on_final |-> [done |-> "closed", lost |-> "settling"],
                   complete_when |-> <<>>])]

\* A check: it starts inside an audit and may be waived while the audit runs.
Check ==
  [parallel |-> TRUE, initial |-> [x |-> "wait", y |-> "audit"], regions |-> <<"x", "y">>,
   transitions |-> << Tr("x", "wait", "ok", "pay"), Timer("x", "wait", "ok") >>,
   joins |-> <<>>,
   managed |-> (<<"y", "audit">> :>
                  [machine |-> "settlement", on_final |-> [done |-> "ok"], complete_when |-> <<>>])]

\* The root: branch b2 starts inside its check; a finished return voids it.
RunMachine ==
  [parallel |-> TRUE, initial |-> [b1 |-> "idle", b2 |-> "checking"], regions |-> <<"b1", "b2">>,
   transitions |-> << Tr("b1", "idle", "returning", "return"),
                      Tr("b1", "returning", "stopped", "cancel"),
                      Tr("b1", "stopped", "returning", "return") >>,
   joins |-> << [when |-> [b1 |-> "returned"], target_region |-> "b2", target_state |-> "void"] >>,
   managed |-> (<<"b1", "returning">> :>
                  [machine |-> "return", on_final |-> [closed |-> "returned"], complete_when |-> <<>>])
            @@ (<<"b2", "checking">> :>
                  [machine |-> "check", on_final |-> <<>>,
                   complete_when |-> << [when |-> [x |-> "ok", y |-> "ok"], target |-> "checked"],
                                        [when |-> [x |-> "ok", y |-> "audit"], target |-> "waived"] >>])]

RunDefs ==
  [run |-> RunMachine] @@ ("return" :> ReturnCase) @@ [settlement |-> Settlement] @@ [check |-> Check]

RunKey == [machine |-> "run", path |-> <<>>]
ReturnKey == [machine |-> "return", path |-> <<"returning">>]
SettlementKey == [machine |-> "settlement", path |-> <<"returning", "settling">>]

RunAddressees == {RunKey, ReturnKey, SettlementKey}
RunEvents ==
  {Ev("return", 1, None), Ev("return", 2, None), Ev("settle", 1, None),
   Ev("pay", 1, None), Ev("pay", 1, Amended), Ev("cancel", 1, None)}
RunTargets ==
  { << [region |-> "b1", state |-> "returning", seq |-> 2] >>,
    << [region |-> "b1", state |-> "returning", seq |-> 0],
       [region |-> DefaultRegion, state |-> "settling", seq |-> 2] >>,
    << [region |-> "b2", state |-> "checking", seq |-> 1],
       [region |-> "y", state |-> "audit", seq |-> 0] >> }

\* Definitions that nest themselves (two updates that raced can leave them
\* behind): one level per event, and without end at creation.
DeepDefs ==
  [chain |-> [parallel |-> FALSE, initial |-> (DefaultRegion :> "idle"), regions |-> <<DefaultRegion>>,
              transitions |-> << Tr(DefaultRegion, "idle", "inner", "go"),
                                 Tr(DefaultRegion, "idle", "end", "stop"),
                                 Timer(DefaultRegion, "inner", "idle") >>,
              joins |-> <<>>,
              managed |-> (<<DefaultRegion, "inner">> :>
                             [machine |-> "chain", on_final |-> [end |-> "end"], complete_when |-> <<>>])],
   eager |-> [parallel |-> FALSE, initial |-> (DefaultRegion :> "inner"), regions |-> <<DefaultRegion>>,
              transitions |-> <<>>, joins |-> <<>>,
              managed |-> (<<DefaultRegion, "inner">> :>
                             [machine |-> "eager", on_final |-> <<>>, complete_when |-> <<>>])]]

ChainKey == [machine |-> "chain", path |-> <<>>]
EagerKey == [machine |-> "eager", path |-> <<>>]
DeepAddressees == {ChainKey, EagerKey}
DeepTargets == { << [region |-> DefaultRegion, state |-> "inner", seq |-> 0] >> }
DeepEvents == {Ev("go", 1, None), Ev("go", 2, None), Ev("go", 3, None), Ev("stop", 1, None)}
=============================================================================
