--------------------------- MODULE JobEventStream ---------------------------
(***************************************************************************)
(* How the events of one job reach a client: the transactions that append  *)
(* to rca_job_event (store.py _append_event, under the lock of the job     *)
(* row), the generator behind GET /rca/jobs/{id}/events (app.py            *)
(* stream_rca_job_events), which polls the table and then the row, and the *)
(* browser's EventSource (frontend/src/api.ts), which reconnects with the  *)
(* id of the last event it saw.                                            *)
(*                                                                         *)
(* A row lock covers one transaction; list_events and get_record are two   *)
(* reads with nothing to tie them together.                                *)
(***************************************************************************)
EXTENDS Integers, FiniteSets, Sequences

CONSTANTS
  Writer,      \* the processes that may append: workers and API threads
  NoWriter,
  MaxEvents,   \* bound: events of the job
  MaxDrops     \* bound: connections that break

ASSUME StreamAssumption ==
  NoWriter \notin Writer /\ MaxEvents \in Nat \ {0} /\ MaxDrops \in Nat

VARIABLES
  status,              \* committed status of the row, "active" or "terminal"
  table,               \* committed sequence -> whether it announces the end
  rowLock,             \* the writer whose transaction has locked the row
  pending,             \* the row an open transaction has inserted
  phase,               \* where the stream's generator is
  cursor, batch,       \* its local variables: last sequence sent, rows still to send
  wire,                \* frames on their way to the client, -1 for the end of the response
  seen,                \* sequences handed to onEvent, in order
  drops

storeVars == <<status, table, rowLock, pending>>
streamVars == <<phase, cursor, batch, wire>>
vars == <<storeVars, streamVars, seen, drops>>

Sequences == 1..MaxEvents
EndOfStream == -1
NoRow == [sequence |-> 0, terminal |-> FALSE]
Rows == {NoRow} \cup [sequence : Sequences, terminal : BOOLEAN]
MaxSequence == IF DOMAIN table = {} THEN 0 ELSE CHOOSE n \in DOMAIN table : \A m \in DOMAIN table : m <= n
LastEventId == IF seen = <<>> THEN 0 ELSE seen[Len(seen)]

TypeOK ==
  /\ status \in {"active", "terminal"}
  /\ \E D \in SUBSET Sequences : table \in [D -> BOOLEAN]
  /\ rowLock \in Writer \cup {NoWriter}
  /\ pending \in [Writer -> Rows]
  /\ phase \in {"closed", "left", "listing", "sending", "checking", "sleeping"}
  /\ cursor \in {0} \cup Sequences
  /\ batch \in Seq(Sequences) /\ wire \in Seq(Sequences \cup {EndOfStream})
  /\ seen \in Seq(Sequences)
  /\ drops \in 0..MaxDrops

\* A stream may be opened as soon as enqueue has committed the job with its first event.
Init ==
  /\ status = "active"
  /\ table = [n \in {1} |-> FALSE]
  /\ rowLock = NoWriter
  /\ pending = [p \in Writer |-> NoRow]
  /\ phase = "closed" /\ cursor = 0 /\ batch = <<>> /\ wire = <<>>
  /\ seen = <<>>
  /\ drops = 0

-----------------------------------------------------------------------------
(***************************************************************************)
(* Writers.                                                                *)
(***************************************************************************)

\* A bug: the event is numbered like a bigserial column, without the row lock.
AppendUnlocked(p, terminal) ==
  LET taken == DOMAIN table \cup {pending[q].sequence : q \in Writer} IN
  /\ pending[p] = NoRow
  /\ status = "active"
  /\ \E n \in Sequences \ taken :
       /\ \A m \in 1..(n - 1) : m \in taken
       /\ pending' = [pending EXCEPT ![p] = [sequence |-> n, terminal |-> terminal]]
  /\ UNCHANGED <<status, table, rowLock, streamVars, seen, drops>>

\* _locked_record waits for the row, a finished job refuses every event, and
\* _append_event inserts MAX(sequence) + 1.
AppendLocked(p, terminal) ==
  /\ rowLock = NoWriter
  /\ status = "active"
  /\ MaxSequence < MaxEvents
  /\ rowLock' = p
  /\ pending' = [pending EXCEPT ![p] = [sequence |-> MaxSequence + 1, terminal |-> terminal]]
  /\ UNCHANGED <<status, table, streamVars, seen, drops>>

\* The transaction commits the event together with the status it announces.
Commit(p) ==
  /\ pending[p] # NoRow
  /\ table' = [n \in DOMAIN table \cup {pending[p].sequence} |->
       IF n = pending[p].sequence THEN pending[p].terminal ELSE table[n]]
  /\ status' = IF pending[p].terminal THEN "terminal" ELSE status
  /\ rowLock' = NoWriter
  /\ pending' = [pending EXCEPT ![p] = NoRow]
  /\ UNCHANGED <<streamVars, seen, drops>>

\* It fails or its process dies: nothing is inserted.
Rollback(p) ==
  /\ pending[p] # NoRow
  /\ rowLock' = NoWriter
  /\ pending' = [pending EXCEPT ![p] = NoRow]
  /\ UNCHANGED <<status, table, streamVars, seen, drops>>

-----------------------------------------------------------------------------
(***************************************************************************)
(* The generator.                                                          *)
(***************************************************************************)

\* The rows of a snapshot after the cursor, ORDER BY sequence.
After(c) ==
  LET later == {n \in DOMAIN table : n > c}
  IN [i \in 1..Cardinality(later) |->
        CHOOSE n \in later : Cardinality({m \in later : m <= n}) = i]

ListEvents ==
  /\ phase = "listing"
  /\ batch' = After(cursor)
  /\ phase' = "sending"
  /\ UNCHANGED <<cursor, wire, storeVars, seen, drops>>

SendEvent ==
  /\ phase = "sending"
  /\ batch # <<>>
  /\ cursor' = Head(batch)
  /\ wire' = Append(wire, Head(batch))
  /\ batch' = Tail(batch)
  /\ UNCHANGED <<phase, storeVars, seen, drops>>

BatchSent ==
  /\ phase = "sending"
  /\ batch = <<>>
  /\ phase' = "checking"
  /\ UNCHANGED <<cursor, batch, wire, storeVars, seen, drops>>

\* get_record: the response ends with a finished job, else the generator sleeps.
CheckStatus ==
  /\ phase = "checking"
  /\ IF status = "terminal"
     THEN phase' = "closed" /\ wire' = Append(wire, EndOfStream)
     ELSE phase' = "sleeping" /\ wire' = wire
  /\ UNCHANGED <<cursor, batch, storeVars, seen, drops>>

Wake ==
  /\ phase = "sleeping"
  /\ phase' = "listing"
  /\ UNCHANGED <<cursor, batch, wire, storeVars, seen, drops>>

-----------------------------------------------------------------------------
(***************************************************************************)
(* The client and its connection.                                          *)
(***************************************************************************)

\* A bug: the new generator goes on where the old one stopped sending.
ConnectAtCursor ==
  /\ phase = "closed"
  /\ wire = <<>>
  /\ phase' = "listing"
  /\ batch' = <<>>
  /\ UNCHANGED <<cursor, wire, storeVars, seen, drops>>

\* EventSource connects, and reconnects by itself when a response has ended or broken,
\* with Last-Event-ID: the new generator's cursor.
Connect ==
  /\ phase = "closed"
  /\ wire = <<>>
  /\ phase' = "listing"
  /\ cursor' = LastEventId
  /\ batch' = <<>>
  /\ UNCHANGED <<wire, storeVars, seen, drops>>

Deliver ==
  /\ wire # <<>>
  /\ wire' = Tail(wire)
  /\ seen' = IF Head(wire) = EndOfStream THEN seen ELSE Append(seen, Head(wire))
  /\ UNCHANGED <<phase, cursor, batch, storeVars, drops>>

\* The connection breaks: frames on their way are lost, and the generator ends at its
\* next yield or disconnect check.
Drop ==
  /\ phase \in {"listing", "sending", "checking", "sleeping"} \/ wire # <<>>
  /\ drops < MaxDrops
  /\ drops' = drops + 1
  /\ phase' = "closed"
  /\ batch' = <<>>
  /\ wire' = <<>>
  /\ UNCHANGED <<cursor, storeVars, seen>>

\* The page closes its EventSource for good: the job it shows is finished, or another one.
Leave ==
  /\ phase # "left"
  /\ phase' = "left"
  /\ batch' = <<>>
  /\ wire' = <<>>
  /\ UNCHANGED <<cursor, storeVars, seen, drops>>

Generator == ListEvents \/ SendEvent \/ BatchSent \/ CheckStatus \/ Wake

Next ==
  \/ \E p \in Writer : Commit(p) \/ Rollback(p) \/ \E terminal \in BOOLEAN : AppendLocked(p, terminal)
  \/ Generator \/ Connect \/ Deliver \/ Drop \/ Leave

Spec == Init /\ [][Next]_vars

\* The event loop resumes the generator, the client reconnects and reads its socket.
\* Writers, broken connections and a client that leaves owe nothing.
FairSpec == Spec /\ WF_vars(Generator) /\ WF_vars(Connect) /\ WF_vars(Deliver)

-----------------------------------------------------------------------------
\* The table is numbered without gaps, at most one row is terminal, and it is the last.
NumberedInOrder ==
  /\ DOMAIN table = 1..MaxSequence
  /\ \A n \in DOMAIN table : table[n] <=> (status = "terminal" /\ n = MaxSequence)

\* Whatever is lost, repeated or reconnected, the client is given every event once and
\* in the order of the table, never skipping one that was committed.
SeenInOrder == \A i \in DOMAIN seen : seen[i] = i /\ i \in DOMAIN table

\* What the client sees and what the table holds is one gap-free order, with the end last.
InOrder == NumberedInOrder /\ SeenInOrder

\* Every event of the table, the end of the job included, reaches a client that stays.
AllArrives ==
  \A n \in Sequences : (n \in DOMAIN table) ~> (Len(seen) >= n \/ phase = "left")

=============================================================================
