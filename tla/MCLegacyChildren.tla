-------------------------- MODULE MCLegacyChildren --------------------------
(* TLC instances of LegacyChildren: a case whose review may lapse, be        *)
(* reopened and be visited again, beside a check with a probe two levels     *)
(* down.                                                                     *)
EXTENDS LegacyChildren, TLC

NoGuard == [kind |-> "none"]
Timeout == [kind |-> "timeout"]
Tr(region, from, to, on) ==
  [region |-> region, from |-> from, to |-> to, on |-> on, guard |-> NoGuard]
Timer(region, from, to) ==
  [region |-> region, from |-> from, to |-> to, on |-> "$timeout", guard |-> Timeout]
Ev(type, ts, params) == [type |-> type, ts |-> ts, params |-> params]
None == <<>>
Amended == [note |-> "x"]

Flat(initial, transitions, subs) ==
  [parallel |-> FALSE, initial |-> (DefaultRegion :> initial), regions |-> <<DefaultRegion>>,
   transitions |-> transitions, joins |-> <<>>, subs |-> subs]

\* A review may lapse; either outcome can be reopened by writing it directly.
Review ==
  Flat("draft",
       << Tr(DefaultRegion, "draft", "ok", "approve"), Timer(DefaultRegion, "draft", "lapsed"),
          Tr(DefaultRegion, "lapsed", "draft", "reopen") >>,
       <<>>)

Probe == Flat("run", << Tr(DefaultRegion, "run", "hit", "approve") >>, <<>>)

Check ==
  Flat("wait", << Tr(DefaultRegion, "wait", "probing", "probe") >>,
       (<<DefaultRegion, "probing">> :> [machine |-> "probe", on_final |-> [hit |-> "done"]]))

\* The root starts inside its check; a lapsed review is to be reviewed again, an
\* accepted one may be opened again, and both branches together close the case.
Case ==
  [parallel |-> TRUE, initial |-> [a |-> "idle", b |-> "checking"], regions |-> <<"a", "b">>,
   transitions |-> << Tr("a", "idle", "review", "open"),
                      Tr("a", "review", "idle", "cancel"),
                      Tr("a", "accepted", "review", "open") >>,
   joins |-> << [when |-> [a |-> "accepted", b |-> "checked"], target_region |-> "b", target_state |-> "closed"] >>,
   subs |-> (<<"a", "review">> :>
               [machine |-> "review", on_final |-> [ok |-> "accepted", lapsed |-> "review"]])
         @@ (<<"b", "checking">> :> [machine |-> "check", on_final |-> [done |-> "checked"]])]

CaseDefs == [probe |-> Probe, check |-> Check, review |-> Review] @@ ("case" :> Case)

CaseKey   == [machine |-> "case", path |-> <<>>]
ReviewKey == [machine |-> "review", path |-> <<"review">>]
ProbeKey  == [machine |-> "probe", path |-> <<"checking", "probing">>]

CaseEvents ==
  {Ev("open", 1, None), Ev("open", 2, None), Ev("cancel", 1, None), Ev("approve", 1, None),
   Ev("approve", 1, Amended), Ev("probe", 1, None), Ev("reopen", 1, None)}

Empty == [entities |-> <<>>, history |-> <<>>]

LegacyRow(at, type, region, from, to, ts) ==
  [at |-> at, type |-> type, ts |-> ts, params |-> None, key |-> NoIdentity,
   region |-> region, from |-> from, to |-> to, cause |-> NoCause]

LegacyEntity(states, version) ==
  [states |-> states, context |-> <<>>, version |-> version, created_at |-> Now,
   updated_at |-> Now, stored |-> NoEntries]

\* Rows an engine without entries left: a review that lapsed before or after its
\* case was opened, or whose case has no history at all.
Lapsed(log, version) ==
  [entities |-> (CaseKey :> LegacyEntity([a |-> "review", b |-> "checked"], version))
             @@ (ReviewKey :> LegacyEntity(DefaultRegion :> "lapsed", 2)),
   history |-> log]

OpenRow  == LegacyRow(CaseKey, "open", "a", "idle", "review", 9)
LapseRow == LegacyRow(ReviewKey, "$timeout", DefaultRegion, "draft", "lapsed", 0)

CaseStores ==
  {Empty, Lapsed(<<LapseRow, OpenRow>>, 2), Lapsed(<<OpenRow, LapseRow>>, 2),
   Lapsed(<<LapseRow>>, 3)}

EmptyStores == {Empty}
AllAddressees == {CaseKey, ReviewKey, ProbeKey}
RootOnly == {CaseKey}
=============================================================================
