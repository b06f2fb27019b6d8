-------------------------- MODULE ManagedDeletion --------------------------
(***************************************************************************)
(* ManagedChildren with DELETE .../entities/{id}: an owner or a child is   *)
(* deleted without its relatives, and perhaps created again.  Each of the  *)
(* two statements of a delete commits on its own (EntityLifecycle is about *)
(* what may happen to the entity in between), so it is a step between two  *)
(* transactions; the second may never come.                                *)
(***************************************************************************)
EXTENDS ManagedChildren

CONSTANTS
  Deletable,     \* entities clients delete
  MaxDeletions   \* bound on the number of deletes

ASSUME MaxDeletionsAssumption == MaxDeletions \in Nat

VARIABLES
  purging,       \* entities whose history is still to be deleted
  made,          \* (ghost) transaction that made each row of `entities`
  deletions      \* deletes so far

deletionVars == <<vars, purging, made, deletions>>

DeletionInit ==
  /\ Init
  /\ purging = {}
  /\ made = <<>>
  /\ deletions = 0

\* What is left of a deleted history row is its id.
Nobody == [machine |-> "", path |-> <<>>]

Without(table, k) == [j \in DOMAIN table \ {k} |-> table[j]]

\* DELETE FROM entities; 404 if there is no row.
DeleteEntity(k) ==
  /\ phase = "idle"
  /\ deletions < MaxDeletions
  /\ k \in DOMAIN entities
  /\ entities' = Without(entities, k)
  /\ work' = Without(entities, k)
  /\ made' = Without(made, k)
  /\ purging' = purging \union {k}
  /\ deletions' = deletions + 1
  /\ UNCHANGED <<history, rows, todo, phase, request, reply, transactions>>

\* DELETE FROM transitions.
DeleteHistory(k) ==
  LET purged == [i \in DOMAIN history |->
                   IF history[i].at = k THEN [history[i] EXCEPT !.at = Nobody] ELSE history[i]]
  IN /\ phase = "idle"
     /\ purging' = purging \ {k}
     /\ history' = purged
     /\ rows' = purged
     /\ UNCHANGED <<entities, work, todo, phase, request, reply, transactions, made, deletions>>

\* A step of ManagedChildren, noting when rows are made.  An event for an
\* entity that was deleted since its request found it answers 404.
Proceed ==
  /\ Next
  /\ made' = [k \in DOMAIN entities' |-> IF k \in DOMAIN made THEN made[k] ELSE transactions]
  /\ UNCHANGED <<purging, deletions>>

DeletionNext ==
  \/ Proceed
  \/ \E k \in Deletable : DeleteEntity(k)
  \/ \E k \in purging : DeleteHistory(k)

DeletionSpec == DeletionInit /\ [][DeletionNext]_deletionVars

\* As in ManagedChildren, a transaction is polled until it ends.
DeletionFairSpec == DeletionSpec /\ WF_deletionVars((Call \/ Commit) /\ Proceed)

-----------------------------------------------------------------------------
(* Properties.                                                             *)

\* A child an earlier life of its owner left behind never counts as the child of
\* the new one: an active child that stands in the entry its live owner is in -
\* the one whose completion would move that owner, complete_parent asks for no
\* more - was made together with that entry or after it, by this very life.
OrphansAreNotAdopted ==
  \A k \in Instances :
    LET link == entities[k].instance.link
    IN /\ entities[k].instance.status = "active"
       /\ link.owner \in DOMAIN entities
       /\ Live(entities[link.owner])
       /\ EntryOf(link.owner, link.region).state = link.state
       /\ EntryOf(link.owner, link.region).seq = link.seq
       => made[k] >= made[link.owner]
=============================================================================
