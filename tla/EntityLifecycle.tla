-------------------------- MODULE EntityLifecycle --------------------------
(***************************************************************************)
(* TransitionCore with the requests that begin and end an entity's life:   *)
(* POST .../entities, DELETE .../entities/{id}, and the creation on demand *)
(* of POST .../evaluate with its re-load.                                  *)
(*                                                                         *)
(* A delete is two statements that commit one by one, first the row of     *)
(* `entities`, then the rows of `transitions`.  Between them, other        *)
(* requests may create the entity anew and write it, the second statement  *)
(* may be refused for the write lock, and the process may stop.  Deleted   *)
(* history rows leave a gap in the ids (AUTOINCREMENT), a Gap here.        *)
(***************************************************************************)
EXTENDS TransitionCore

CONSTANT
  MaxDeletes     \* bound on the number of delete and create requests

ASSUME MaxDeletesAssumption == MaxDeletes \in Nat

VARIABLES
  deletes,       \* delete and create requests so far
  born,          \* (ghost) id of the last row before the current or last life
  cut,           \* (ghost) last row of the life a delete in progress ended
  gone,          \* (ghost) last row of the lives whose end was acknowledged
  torn,          \* (ghost) a delete stopped between its statements
  overlapped     \* (ghost) a life began between the statements of a delete

ghosts == <<born, cut, gone, torn, overlapped>>
lifecycle == <<deletes, ghosts>>
lifeVars == <<vars, lifecycle>>

NoRow == [kind |-> "gone", name |-> "", n |-> 0, step |-> 0]

\* What is left of a deleted row is its id.
Gap ==
  [type |-> "$gone", region |-> "", key |-> NoRow, params |-> <<>>, ts |-> 0]

IsGap(row) == row.key = NoRow

LiveRows == {i \in DOMAIN history : ~ IsGap(history[i])}

-----------------------------------------------------------------------------
(* Creation.                                                               *)

LifeInit ==
  /\ Init
  /\ deletes = 0
  /\ born = 0
  /\ cut = [p \in Requests |-> 0]
  /\ gone = 0
  /\ torn = FALSE
  /\ overlapped = FALSE

Purging == {p \in Requests : phase[p] = "purge"}

\* A row is inserted where there is none.
BeginLife(p) ==
  /\ entity' = NewEntity(clock)
  /\ born' = Len(history)
  /\ overlapped' = (overlapped \/ Purging # {})
  /\ UNCHANGED <<history, sent, deletes, cut, gone, torn>>

\* load_or_create_entity: INSERT OR IGNORE.
InsertMissing(p) ==
  /\ phase[p] = "create"
  /\ lock = NoOne
  /\ IF entity = NoEntity THEN BeginLife(p) ELSE UNCHANGED <<store, lifecycle>>
  /\ phase' = [phase EXCEPT ![p] = "reload"]
  /\ UNCHANGED <<clock, lock, snap, request, reply, tick, cursor, batch, submits, crashes>>

\* The row is loaded again, and may be gone again.
Reload(p) ==
  /\ phase[p] = "reload"
  /\ IF entity = NoEntity THEN Answer(p, "not_found", "idle") ELSE Answer(p, reply[p], "begin")
  /\ UNCHANGED <<store, clock, lock, snap, request, tick, cursor, batch, submits, crashes, lifecycle>>

\* A request for one of the two entity routes arrives.
SubmitLife(p, first) ==
  /\ phase[p] = "idle"
  /\ deletes < MaxDeletes
  /\ deletes' = deletes + 1
  /\ Answer(p, "none", first)
  /\ UNCHANGED <<store, clock, lock, snap, request, tick, cursor, batch, submits, crashes,
                 born, cut, gone, torn, overlapped>>

\* create_entity: a plain INSERT, 409 for an entity that exists.
InsertEntity(p) ==
  /\ phase[p] = "insert"
  /\ lock = NoOne
  /\ IF entity = NoEntity
     THEN BeginLife(p) /\ Answer(p, "created", "idle")
     ELSE Answer(p, "exists", "idle") /\ UNCHANGED <<store, lifecycle>>
  /\ UNCHANGED <<clock, lock, snap, request, tick, cursor, batch, submits, crashes>>

-----------------------------------------------------------------------------
(* Deletion.                                                               *)

\* Mutant of DeleteOrder: the history goes first.
HistoryFirst == <<"transitions", "entities">>

DeleteOrder == <<"entities", "transitions">>

\* One autocommitted DELETE of request p.
DeleteFrom(p, table) ==
  /\ lock = NoOne
  /\ IF table = "entities"
     THEN /\ entity' = NoEntity
          /\ cut' = [cut EXCEPT ![p] = Len(history)]
          /\ UNCHANGED history
     ELSE /\ history' = [i \in DOMAIN history |-> Gap]
          /\ UNCHANGED <<entity, cut>>
  /\ UNCHANGED <<sent, clock, lock, snap, request, tick, cursor, batch, submits, crashes,
                 deletes, born, torn, overlapped>>

DeleteMissing(p) ==
  /\ phase[p] = "delete"
  /\ lock = NoOne
  /\ entity = NoEntity
  /\ Answer(p, "not_found", "idle")
  /\ UNCHANGED <<store, clock, lock, snap, request, tick, cursor, batch, submits, crashes, lifecycle>>

DeleteEntity(p) ==
  /\ phase[p] = "delete"
  /\ entity # NoEntity
  /\ DeleteFrom(p, DeleteOrder[1])
  /\ phase' = [phase EXCEPT ![p] = "purge"]
  /\ UNCHANGED <<reply, gone>>

DeleteHistory(p) ==
  /\ phase[p] = "purge"
  /\ DeleteFrom(p, DeleteOrder[2])
  /\ Answer(p, "deleted", "idle")
  /\ gone' = IF cut'[p] > gone THEN cut'[p] ELSE gone

-----------------------------------------------------------------------------
(* The statements of all routes, and their failures.                       *)

\* "database is locked": whatever the request did before stays done.
RefuseStatement(p) ==
  /\ phase[p] \in {"create", "begin", "insert", "delete", "purge"}
  /\ Refuse(p, "idle")
  /\ torn' = (torn \/ p \in Purging)
  /\ UNCHANGED <<deletes, born, cut, gone, overlapped>>

Stop(w) ==
  /\ Crash(w)
  /\ torn' = (torn \/ w \in Purging)
  /\ UNCHANGED <<deletes, born, cut, gone, overlapped>>

\* transition_in_tx loads the row first, and it may be gone.
AnswerGone(p) ==
  /\ phase[p] = "tx"
  /\ snap[p] = NoEntity
  /\ EndTx(p, "not_found", "idle")

AnswerEvent(p) ==
  /\ phase[p] = "tx" => snap[p] # NoEntity
  /\ AnswerDuplicate(p) \/ AnswerIdentityConflict(p) \/ AnswerNoTransition(p) \/ ApplyEvent(p)

LifeRequestStep(p) ==
  \/ /\ \/ LoadExisting(p) \/ AnswerNotFound(p) \/ LoadMissing(p)
        \/ BeginTx(p) \/ AnswerGone(p) \/ AnswerEvent(p)
        \/ ReturnActions(p) \/ DispatchEvent(p)
     /\ UNCHANGED lifecycle
  \/ InsertMissing(p) \/ Reload(p) \/ InsertEntity(p)
  \/ DeleteMissing(p) \/ DeleteEntity(p) \/ DeleteHistory(p) \/ RefuseStatement(p)

LifeSchedulerStep(s) == SchedulerStep(s) /\ UNCHANGED lifecycle

LifeNext ==
  \/ Tick /\ UNCHANGED lifecycle
  \/ \E p \in Requests :
       \/ LifeRequestStep(p)
       \/ \E ev \in Events : Submit(p, ev) /\ UNCHANGED lifecycle
       \/ \E first \in {"insert", "delete"} : SubmitLife(p, first)
  \/ \E s \in Schedulers : LifeSchedulerStep(s)
  \/ \E w \in Workers : Stop(w)

LifeSpec == LifeInit /\ [][LifeNext]_lifeVars

-----------------------------------------------------------------------------
(* Properties.                                                             *)

\* An answered delete is final: once DELETE has returned 204, no row of the life
\* it ended (nor of an earlier one) is in the history, however many events,
\* timeouts and creations ran between its two statements or run afterwards.
AcknowledgedDeletesAreFinal == \A i \in LiveRows : i > gone

\* Row and history share one life unless a delete went wrong: if none stopped
\* halfway and no life began while one was between its statements, the rows of
\* the history are exactly those the living entity wrote, and none if there is
\* no entity.
UndisturbedLivesAreWhole ==
  ~ torn /\ ~ overlapped /\ Purging = {} =>
    LiveRows = IF entity = NoEntity THEN {} ELSE born + 1..Len(history)

\* The guard of the unique index bites only on what a delete left behind: a
\* write that answers CONFLICT met a row of an earlier life.
ConflictsComeFromEarlierLives ==
  [][ (\E w \in Workers : reply[w] # "conflict" /\ reply'[w] = "conflict")
        => \E i \in LiveRows : i <= born ]_lifeVars
=============================================================================
