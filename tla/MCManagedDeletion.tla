------------------------- MODULE MCManagedDeletion -------------------------
(* TLC instances of ManagedDeletion: of definitions that nest themselves,  *)
(* two roots and a child that owns one itself are deleted and created      *)
(* again; their descendants stay.                                          *)
EXTENDS ManagedDeletion, MCManagedChildren

InnerKey == [machine |-> "chain", path |-> <<"inner">>]
DeletableSome == {ChainKey, EagerKey, InnerKey}
=============================================================================
