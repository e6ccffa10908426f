---------------------------- MODULE JobApiProofs ----------------------------
(***************************************************************************)
(* The two job endpoints whose answers must survive repetition: the stream *)
(* of events and the idempotent submission.  They share no variable.       *)
(***************************************************************************)
EXTENDS JobEventStream, JobSubmission, SequenceTheorems, FiniteSetTheorems, TLAPS

(***************************************************************************)
(* The order of events, for any number of writers, events and broken       *)
(* connections.  The order of the table comes from the row lock; that of   *)
(* the client from a chain of positions: what it has seen, what is on the  *)
(* wire, what the generator still has to send and what the table holds     *)
(* follow one another without a gap.                                       *)
(***************************************************************************)

\* One writer at a time, who numbers its row next to the last one of an active job.
LockHeld ==
  \A p \in Writer : pending[p] # NoRow =>
    rowLock = p /\ status = "active" /\ pending[p].sequence = MaxSequence + 1

StoreOK ==
  /\ status \in {"active", "terminal"}
  /\ \E N \in Sequences : table \in [1..N -> BOOLEAN]
  /\ pending \in [Writer -> Rows]
  /\ NumberedInOrder
  /\ LockHeld

StreamTypeOK ==
  /\ phase \in {"closed", "left", "listing", "sending", "checking", "sleeping"}
  /\ cursor \in Nat
  /\ batch \in Seq(Nat) /\ wire \in Seq(Nat \cup {EndOfStream}) /\ seen \in Seq(Nat)

\* What is on the wire continues what the client has seen, the end of the response comes last.
WireFollows ==
  \A i \in DOMAIN wire :
    \/ wire[i] = Len(seen) + i /\ wire[i] <= MaxSequence
    \/ wire[i] = EndOfStream /\ i = Len(wire) /\ phase \in {"closed", "left"}

\* A generator at work stands where the wire ends, and what it still has to send follows.
BatchFollows ==
  /\ phase \in {"listing", "sending", "checking", "sleeping"} => cursor = Len(seen) + Len(wire)
  /\ \A i \in DOMAIN batch : batch[i] = cursor + i /\ batch[i] <= MaxSequence
  /\ batch # <<>> => phase = "sending"

SeenFits == Len(seen) <= MaxSequence /\ \A i \in DOMAIN seen : seen[i] = i

StreamOK == StreamTypeOK /\ WireFollows /\ BatchFollows /\ SeenFits

IInv == StoreOK /\ StreamOK

\* MaxSequence is the end of a table without gaps.
LEMMA LastSequence ==
  ASSUME NEW N \in Nat, DOMAIN table = 1..N
  PROVE  MaxSequence = N
<1>1. CASE N = 0
  BY <1>1 DEF MaxSequence
<1>2. CASE N # 0
  <2>1. N \in DOMAIN table /\ \A m \in DOMAIN table : m <= N
    BY <1>2
  <2>2. ASSUME NEW n \in DOMAIN table, \A m \in DOMAIN table : m <= n
        PROVE  n = N
    <3>1. N <= n
      BY <2>1, <2>2
    <3>2. QED BY <2>1, <3>1
  <2>3. QED BY <2>1, <2>2 DEF MaxSequence
<1>3. QED BY <1>1, <1>2

\* The table has its first row, and no gap.
LEMMA TableShape ==
  ASSUME StoreOK
  PROVE  MaxSequence \in Nat /\ MaxSequence \in Sequences /\ DOMAIN table = 1..MaxSequence
<1>1. PICK N \in Sequences : table \in [1..N -> BOOLEAN]
  BY DEF StoreOK
<1>2. N \in Nat /\ DOMAIN table = 1..N
  BY <1>1, StreamAssumption DEF Sequences
<1>3. MaxSequence = N
  BY <1>2, LastSequence
<1>4. QED BY <1>1, <1>2, <1>3

\* A listing is what follows its cursor, in order (list_events).
LEMMA AfterIsTheRest ==
  ASSUME StoreOK, NEW c \in 0..MaxSequence
  PROVE  /\ After(c) \in Seq(Nat)
         /\ \A i \in DOMAIN After(c) : After(c)[i] = c + i /\ After(c)[i] <= MaxSequence
<1> DEFINE N == MaxSequence
           later == {n \in DOMAIN table : n > c}
<1>1. N \in Nat /\ DOMAIN table = 1..N
  BY TableShape
<1>2. later = (c + 1)..N
  BY <1>1
<1>3. Cardinality(later) = N - c
  <2>1. c + 1 \in Int /\ N \in Int /\ c <= N
    BY <1>1
  <2>2. Cardinality((c + 1)..N) = IF c + 1 > N THEN 0 ELSE N - (c + 1) + 1
    BY <2>1, FS_Interval
  <2> HIDE DEF later
  <2>3. QED BY <1>2, <2>1, <2>2
<1>4. ASSUME NEW n \in later
      PROVE  Cardinality({m \in later : m <= n}) = n - c
  <2>1. {m \in later : m <= n} = (c + 1)..n
    BY <1>1, <1>2
  <2>2. c + 1 \in Int /\ n \in Int /\ c + 1 <= n
    BY <1>1, <1>2
  <2>3. Cardinality((c + 1)..n) = IF c + 1 > n THEN 0 ELSE n - (c + 1) + 1
    BY <2>2, FS_Interval
  <2>4. Cardinality((c + 1)..n) = n - c
    BY <2>2, <2>3
  <2>5. QED BY <2>1, <2>4, Zenon
<1>5. ASSUME NEW i \in 1..(N - c)
      PROVE  (CHOOSE n \in later : Cardinality({m \in later : m <= n}) = i) = c + i
  <2>1. c + i \in later
    BY <1>1, <1>2
  <2>2. \A n \in later : Cardinality({m \in later : m <= n}) = i <=> n = c + i
    BY <1>1, <1>2, <1>4
  <2> HIDE DEF later
  <2>3. QED BY <2>1, <2>2
<1>6. After(c) = [i \in 1..(N - c) |-> c + i]
  <2>1. After(c) = [i \in 1..(N - c) |-> CHOOSE n \in later : Cardinality({m \in later : m <= n}) = i]
    BY <1>3 DEF After
  <2> HIDE DEF later
  <2>2. QED BY <2>1, <1>5
<1> HIDE DEF N
<1>7. N - c \in Nat /\ \A i \in 1..(N - c) : c + i \in Nat /\ c + i <= N
  BY <1>1 DEF N
<1>8. After(c) \in [1..(N - c) -> Nat]
  BY <1>6, <1>7
<1>9. After(c) \in Seq(Nat)
  BY <1>7, <1>8, SeqDef
<1>10. QED BY <1>6, <1>7, <1>9 DEF N

\* Positions only grow when the table does, so a store step keeps the chain.
LEMMA StreamKept ==
  ASSUME StreamOK, UNCHANGED <<streamVars, seen>>, MaxSequence \in Nat, MaxSequence' \in Nat,
         MaxSequence <= MaxSequence'
  PROVE  StreamOK'
<1> USE DEF streamVars
<1>1. StreamTypeOK'
  BY DEF StreamOK, StreamTypeOK
<1>2. WireFollows'
  <2>1. \A i \in DOMAIN wire : wire[i] = Len(seen) + i /\ wire[i] <= MaxSequence => wire[i] <= MaxSequence'
    BY DEF StreamOK, StreamTypeOK
  <2>2. QED BY <2>1 DEF StreamOK, WireFollows
<1>3. BatchFollows'
  <2>1. \A i \in DOMAIN batch : batch[i] <= MaxSequence => batch[i] <= MaxSequence'
    BY DEF StreamOK, StreamTypeOK
  <2>2. QED BY <2>1 DEF StreamOK, BatchFollows
<1>4. SeenFits'
  BY DEF StreamOK, StreamTypeOK, SeenFits
<1>5. QED BY <1>1, <1>2, <1>3, <1>4 DEF StreamOK

\* A step of the generator or of the client leaves the store alone.
LEMMA StoreKept ==
  ASSUME StoreOK, UNCHANGED storeVars
  PROVE  StoreOK' /\ MaxSequence' = MaxSequence
<1>1. UNCHANGED <<status, table, rowLock, pending>>
  BY DEF storeVars
<1>2. MaxSequence' = MaxSequence
  BY <1>1 DEF MaxSequence
<1>3. NumberedInOrder' /\ LockHeld'
  BY <1>1, <1>2 DEF StoreOK, NumberedInOrder, LockHeld
<1>4. QED BY <1>1, <1>2, <1>3 DEF StoreOK

\* An append takes the lock and the next number (_append_event).
LEMMA AppendKeeps ==
  ASSUME IInv, NEW p \in Writer, NEW terminal \in BOOLEAN, AppendLocked(p, terminal)
  PROVE  IInv'
<1>a. MaxSequence \in Sequences /\ MaxSequence' = MaxSequence /\ MaxSequence + 1 \in Sequences
  <2>1. MaxSequence \in Sequences
    BY TableShape DEF IInv
  <2>2. QED BY <2>1, StreamAssumption DEF AppendLocked, MaxSequence, Sequences
<1>b. [sequence |-> MaxSequence + 1, terminal |-> terminal] \in Rows
  BY <1>a DEF Rows
<1>1. pending' \in [Writer -> Rows]
  BY <1>b DEF IInv, StoreOK, AppendLocked
<1>2. LockHeld'
  <2> SUFFICES ASSUME NEW q \in Writer, pending'[q] # NoRow
               PROVE  rowLock' = q /\ status' = "active" /\ pending'[q].sequence = MaxSequence + 1
    BY <1>a DEF LockHeld
  <2>1. pending[q] = NoRow
    BY StreamAssumption DEF IInv, StoreOK, LockHeld, AppendLocked
  <2>2. q = p
    BY <2>1 DEF AppendLocked, IInv, StoreOK
  <2>3. QED BY <2>2 DEF AppendLocked, IInv, StoreOK
<1>3. StoreOK'
  BY <1>a, <1>1, <1>2 DEF IInv, StoreOK, AppendLocked, NumberedInOrder
<1>4. StreamOK'
  BY <1>a, StreamKept DEF IInv, AppendLocked, Sequences
<1>5. QED BY <1>3, <1>4 DEF IInv

\* A rollback gives the lock back.
LEMMA RollbackKeeps ==
  ASSUME IInv, NEW p \in Writer, Rollback(p)
  PROVE  IInv'
<1>a. MaxSequence \in Nat /\ MaxSequence' = MaxSequence
  <2>1. MaxSequence \in Nat
    BY TableShape DEF IInv
  <2>2. table' = table
    BY DEF Rollback
  <2>3. QED BY <2>1, <2>2 DEF MaxSequence
<1>b. NoRow \in Rows
  BY DEF Rows
<1>1. pending' \in [Writer -> Rows]
  BY <1>b DEF IInv, StoreOK, Rollback
<1>2. LockHeld'
  <2> SUFFICES ASSUME NEW q \in Writer, pending'[q] # NoRow
               PROVE  FALSE
    BY DEF LockHeld
  <2>1. q # p /\ pending[q] # NoRow
    BY DEF IInv, StoreOK, Rollback
  <2>2. rowLock = q /\ rowLock = p
    BY <2>1 DEF IInv, StoreOK, LockHeld, Rollback
  <2>3. QED BY <2>1, <2>2
<1>3. StoreOK'
  BY <1>a, <1>1, <1>2 DEF IInv, StoreOK, Rollback, NumberedInOrder
<1>4. StreamOK'
  BY <1>a, StreamKept DEF IInv, Rollback
<1>5. QED BY <1>3, <1>4 DEF IInv

\* A commit appends the row behind the last one, and ends the job with a terminal one.
LEMMA CommitKeeps ==
  ASSUME IInv, NEW p \in Writer, Commit(p)
  PROVE  IInv'
<1> DEFINE N == MaxSequence
<1>a. N \in Sequences /\ DOMAIN table = 1..N
  BY TableShape DEF IInv
<1>b. /\ rowLock = p /\ status = "active" /\ pending[p].sequence = N + 1
      /\ pending[p] \in Rows
  BY DEF Commit, IInv, StoreOK, LockHeld
<1>c. N + 1 \in Sequences /\ pending[p].terminal \in BOOLEAN
  BY <1>a, <1>b DEF Rows, NoRow, Sequences, Commit
<1>d. table' = [n \in 1..(N + 1) |-> IF n = N + 1 THEN pending[p].terminal ELSE table[n]]
  <2>1. DOMAIN table \cup {N + 1} = 1..(N + 1)
    BY <1>a DEF Sequences
  <2>2. QED BY <1>b, <2>1 DEF Commit
<1>e. N \in Nat /\ N + 1 \in Nat
  BY <1>a, StreamAssumption DEF Sequences
<1> HIDE DEF N
<1>1. table' \in [1..(N + 1) -> BOOLEAN]
  BY <1>a, <1>c, <1>d, <1>e DEF IInv, StoreOK
<1>f. MaxSequence' = N + 1
  <2>1. DOMAIN table' = 1..(N + 1)
    BY <1>d
  <2>2. N + 1 \in DOMAIN table' /\ \A m \in DOMAIN table' : m <= N + 1
    BY <2>1, <1>e
  <2>3. ASSUME NEW n \in DOMAIN table', \A m \in DOMAIN table' : m <= n
        PROVE  n = N + 1
    <3>1. N + 1 <= n /\ n <= N + 1
      BY <2>2, <2>3
    <3>2. QED BY <1>e, <2>1, <3>1
  <2>4. QED BY <2>2, <2>3 DEF MaxSequence
<1>2. NumberedInOrder'
  <2>1. \A n \in 1..N : table[n] = FALSE
    BY <1>a, <1>b DEF IInv, StoreOK, NumberedInOrder
  <2>2. status' = IF pending[p].terminal THEN "terminal" ELSE "active"
    BY <1>b DEF Commit
  <2>3. \A n \in 1..(N + 1) : table'[n] <=> (status' = "terminal" /\ n = N + 1)
    BY <2>1, <2>2, <1>c, <1>d, <1>e
  <2>4. QED BY <1>d, <1>f, <2>3 DEF NumberedInOrder
<1>3. pending' \in [Writer -> Rows]
  BY DEF IInv, StoreOK, Commit, Rows
<1>4. LockHeld'
  <2> SUFFICES ASSUME NEW q \in Writer, pending'[q] # NoRow
               PROVE  FALSE
    BY DEF LockHeld
  <2>1. q # p /\ pending[q] # NoRow
    BY DEF IInv, StoreOK, Commit
  <2>2. rowLock = q
    BY <2>1 DEF IInv, StoreOK, LockHeld
  <2>3. QED BY <1>b, <2>1, <2>2
<1>5. StoreOK'
  <2>1. status' \in {"active", "terminal"}
    BY DEF Commit, IInv, StoreOK
  <2>2. QED BY <1>c, <1>1, <1>2, <1>3, <1>4, <2>1 DEF StoreOK
<1>6. StreamOK'
  <2>1. UNCHANGED <<streamVars, seen>>
    BY DEF Commit
  <2>2. MaxSequence \in Nat /\ MaxSequence' \in Nat /\ MaxSequence <= MaxSequence'
    BY <1>e, <1>f DEF N
  <2>3. QED BY <2>1, <2>2, StreamKept DEF IInv
<1>7. QED BY <1>5, <1>6 DEF IInv

Working == phase \in {"listing", "sending", "checking", "sleeping"}

\* A generator at work stands inside of the table.
LEMMA CursorFits ==
  ASSUME IInv, Working
  PROVE  cursor \in 0..MaxSequence
<1>a. MaxSequence \in Nat /\ Len(seen) \in Nat /\ Len(wire) \in Nat /\ DOMAIN wire = 1..Len(wire)
  BY TableShape DEF IInv, StreamOK, StreamTypeOK
<1>b. cursor = Len(seen) + Len(wire) /\ Len(seen) <= MaxSequence
  BY DEF Working, IInv, StreamOK, BatchFollows, SeenFits
<1>1. CASE Len(wire) = 0
  BY <1>1, <1>a, <1>b
<1>2. CASE Len(wire) # 0
  <2>1. Len(wire) \in DOMAIN wire
    BY <1>2, <1>a
  <2>2. wire[Len(wire)] = Len(seen) + Len(wire) /\ wire[Len(wire)] <= MaxSequence
    BY <2>1 DEF Working, IInv, StreamOK, WireFollows
  <2>3. QED BY <1>a, <1>b, <2>2
<1>3. QED BY <1>1, <1>2

\* list_events makes a batch that follows the cursor.
LEMMA ListKeeps ==
  ASSUME IInv, ListEvents
  PROVE  IInv'
<1>1. StoreOK' /\ MaxSequence' = MaxSequence
  BY StoreKept DEF IInv, ListEvents
<1>2. cursor \in 0..MaxSequence
  BY CursorFits DEF ListEvents, Working
<1>3. /\ batch' \in Seq(Nat)
      /\ \A i \in DOMAIN batch' : batch'[i] = cursor + i /\ batch'[i] <= MaxSequence
  BY <1>2, AfterIsTheRest DEF IInv, ListEvents
<1>4. StreamTypeOK'
  BY <1>3 DEF IInv, StreamOK, StreamTypeOK, ListEvents
<1>5. WireFollows' /\ SeenFits'
  BY <1>1 DEF IInv, StreamOK, WireFollows, SeenFits, ListEvents
<1>6. BatchFollows'
  BY <1>1, <1>3 DEF IInv, StreamOK, BatchFollows, ListEvents
<1>7. QED BY <1>1, <1>4, <1>5, <1>6 DEF IInv, StreamOK

\* Sending moves the head of the batch to the end of the wire.
LEMMA SendKeeps ==
  ASSUME IInv, SendEvent
  PROVE  IInv'
<1>1. StoreOK' /\ MaxSequence' = MaxSequence
  BY StoreKept DEF IInv, SendEvent
<1>a. /\ phase = "sending" /\ phase' = "sending" /\ batch # <<>> /\ batch \in Seq(Nat)
      /\ cursor' = Head(batch) /\ wire' = Append(wire, Head(batch)) /\ batch' = Tail(batch)
      /\ seen' = seen /\ seen \in Seq(Nat) /\ wire \in Seq(Nat \cup {EndOfStream})
      /\ cursor = Len(seen) + Len(wire) /\ cursor \in Nat
  BY DEF SendEvent, IInv, StreamOK, StreamTypeOK, BatchFollows
<1>b. Head(batch) = cursor + 1 /\ Head(batch) <= MaxSequence /\ Head(batch) \in Nat
  BY <1>a DEF IInv, StreamOK, BatchFollows
<1>c. /\ Len(wire) \in Nat /\ DOMAIN wire = 1..Len(wire) /\ DOMAIN wire' = 1..(Len(wire) + 1)
      /\ wire'[Len(wire) + 1] = Head(batch) /\ \A i \in DOMAIN wire : wire'[i] = wire[i]
      /\ wire' \in Seq(Nat \cup {EndOfStream})
  BY <1>a, <1>b, AppendProperties
<1>2. StreamTypeOK'
  BY <1>a, <1>b, <1>c DEF StreamTypeOK
<1>3. WireFollows'
  <2> SUFFICES ASSUME NEW i \in DOMAIN wire'
               PROVE  wire'[i] = Len(seen') + i /\ wire'[i] <= MaxSequence'
    BY DEF WireFollows
  <2>1. CASE i = Len(wire) + 1
    BY <2>1, <1>1, <1>a, <1>b, <1>c
  <2>2. CASE i # Len(wire) + 1
    <3>1. i \in DOMAIN wire /\ wire'[i] = wire[i]
      BY <2>2, <1>c
    <3>2. QED BY <3>1, <1>1, <1>a DEF IInv, StreamOK, WireFollows
  <2>3. QED BY <2>1, <2>2
<1>4. BatchFollows'
  <2>1. \A i \in DOMAIN batch' : i + 1 \in DOMAIN batch /\ batch'[i] = batch[i + 1] /\ i \in Nat
    BY <1>a
  <2>2. ASSUME NEW i \in DOMAIN batch'
        PROVE  batch'[i] = cursor' + i /\ batch'[i] <= MaxSequence'
    <3>1. i + 1 \in DOMAIN batch /\ batch'[i] = batch[i + 1] /\ i \in Nat
      BY <2>1
    <3>2. batch[i + 1] = cursor + (i + 1) /\ batch[i + 1] <= MaxSequence
      BY <3>1 DEF IInv, StreamOK, BatchFollows
    <3>3. cursor' = cursor + 1 /\ cursor \in Nat
      BY <1>a, <1>b
    <3>4. QED BY <3>1, <3>2, <3>3, <1>1
  <2>3. cursor' = Len(seen') + Len(wire')
    BY <1>a, <1>b
  <2>4. QED BY <1>a, <2>2, <2>3 DEF BatchFollows
<1>5. SeenFits'
  BY <1>1, <1>a DEF IInv, StreamOK, SeenFits
<1>6. QED BY <1>1, <1>2, <1>3, <1>4, <1>5 DEF IInv, StreamOK

\* The end of a batch and waking up move no frame.
LEMMA PhaseKeeps ==
  ASSUME IInv, BatchSent \/ Wake
  PROVE  IInv'
<1>1. StoreOK' /\ MaxSequence' = MaxSequence
  BY StoreKept DEF IInv, BatchSent, Wake
<1>2. UNCHANGED <<cursor, batch, wire, seen>> /\ phase' \in {"checking", "listing"} /\ Working /\ Working'
  BY DEF BatchSent, Wake, Working
<1>3. batch = <<>>
  BY DEF BatchSent, Wake, IInv, StreamOK, BatchFollows
<1>4. StreamTypeOK' /\ SeenFits'
  BY <1>1, <1>2 DEF IInv, StreamOK, StreamTypeOK, SeenFits
<1>5. WireFollows' /\ BatchFollows'
  BY <1>1, <1>2, <1>3 DEF IInv, StreamOK, WireFollows, BatchFollows, Working
<1>6. QED BY <1>1, <1>4, <1>5 DEF IInv, StreamOK

\* The end of the response goes behind the last frame (get_record).
LEMMA CheckKeeps ==
  ASSUME IInv, CheckStatus
  PROVE  IInv'
<1>1. StoreOK' /\ MaxSequence' = MaxSequence
  BY StoreKept DEF IInv, CheckStatus
<1>a. /\ phase = "checking" /\ UNCHANGED <<cursor, batch, seen>> /\ batch = <<>>
      /\ \/ phase' = "closed" /\ wire' = Append(wire, EndOfStream)
         \/ phase' = "sleeping" /\ wire' = wire
      /\ wire \in Seq(Nat \cup {EndOfStream}) /\ seen \in Seq(Nat)
  BY DEF CheckStatus, IInv, StreamOK, StreamTypeOK, BatchFollows
<1>2. StreamTypeOK'
  <2>1. wire' \in Seq(Nat \cup {EndOfStream})
    <3>1. CASE wire' = wire
      BY <3>1, <1>a
    <3>2. CASE wire' = Append(wire, EndOfStream)
      BY <3>2, <1>a, AppendProperties
    <3>3. QED BY <3>1, <3>2, <1>a
  <2>2. QED BY <1>a, <2>1 DEF IInv, StreamOK, StreamTypeOK
<1>3. WireFollows'
  <2>1. CASE wire' = wire
    BY <2>1, <1>1, <1>a DEF IInv, StreamOK, WireFollows
  <2>2. CASE phase' = "closed" /\ wire' = Append(wire, EndOfStream)
    <3> SUFFICES ASSUME NEW i \in DOMAIN wire'
                 PROVE  \/ wire'[i] = Len(seen') + i /\ wire'[i] <= MaxSequence'
                        \/ wire'[i] = EndOfStream /\ i = Len(wire') /\ phase' \in {"closed", "left"}
      BY DEF WireFollows
    <3>1. CASE i = Len(wire) + 1
      BY <3>1, <2>2, <1>a
    <3>2. CASE i # Len(wire) + 1
      <4>1. i \in DOMAIN wire /\ wire'[i] = wire[i]
        BY <3>2, <2>2, <1>a
      <4>2. QED BY <4>1, <1>1, <1>a DEF IInv, StreamOK, WireFollows
    <3>3. QED BY <3>1, <3>2
  <2>3. QED BY <2>1, <2>2, <1>a
<1>4. BatchFollows' /\ SeenFits'
  BY <1>1, <1>a DEF IInv, StreamOK, BatchFollows, SeenFits
<1>5. QED BY <1>1, <1>2, <1>3, <1>4 DEF IInv, StreamOK

\* A new generator starts behind what the client has seen.
LEMMA ConnectKeeps ==
  ASSUME IInv, Connect
  PROVE  IInv'
<1>1. StoreOK' /\ MaxSequence' = MaxSequence
  BY StoreKept DEF IInv, Connect
<1>a. /\ wire = <<>> /\ wire' = <<>> /\ phase' = "listing" /\ batch' = <<>> /\ seen' = seen
      /\ seen \in Seq(Nat)
  BY DEF Connect, IInv, StreamOK, StreamTypeOK
<1>b. LastEventId = Len(seen)
  <2>1. CASE seen = <<>>
    BY <2>1 DEF LastEventId
  <2>2. CASE seen # <<>>
    <3>1. Len(seen) \in DOMAIN seen
      BY <2>2, <1>a
    <3>2. QED BY <2>2, <3>1 DEF LastEventId, IInv, StreamOK, SeenFits
  <2>3. QED BY <2>1, <2>2
<1>c. cursor' = Len(seen) /\ Len(seen) \in Nat
  BY <1>a, <1>b DEF Connect
<1>2. StreamTypeOK' /\ SeenFits'
  BY <1>1, <1>a, <1>c DEF IInv, StreamOK, StreamTypeOK, SeenFits
<1>3. WireFollows' /\ BatchFollows'
  BY <1>a, <1>c DEF WireFollows, BatchFollows
<1>4. QED BY <1>1, <1>2, <1>3 DEF IInv, StreamOK

\* What the client takes from the wire is the next event, or the end.
LEMMA DeliverKeeps ==
  ASSUME IInv, Deliver
  PROVE  IInv'
<1>1. StoreOK' /\ MaxSequence' = MaxSequence
  BY StoreKept DEF IInv, Deliver
<1>a. /\ wire # <<>> /\ wire' = Tail(wire) /\ UNCHANGED <<phase, cursor, batch>>
      /\ wire \in Seq(Nat \cup {EndOfStream}) /\ seen \in Seq(Nat) /\ cursor \in Nat
      /\ batch \in Seq(Nat)
      /\ phase \in {"closed", "left", "listing", "sending", "checking", "sleeping"}
  BY DEF Deliver, IInv, StreamOK, StreamTypeOK
<1>c. /\ Len(wire) \in Nat /\ DOMAIN wire = 1..Len(wire) /\ 1 \in DOMAIN wire /\ Head(wire) = wire[1]
      /\ Len(seen) \in Nat
  BY <1>a
<1>b. \/ Head(wire) = Len(seen) + 1 /\ Head(wire) <= MaxSequence
      \/ Head(wire) = EndOfStream /\ Len(wire) = 1 /\ phase \in {"closed", "left"}
  BY <1>c DEF IInv, StreamOK, WireFollows
<1>2. CASE Head(wire) = EndOfStream
  <2>1. seen' = seen /\ wire' = <<>> /\ phase \in {"closed", "left"}
    <3>1. EndOfStream # Len(seen) + 1
      BY <1>a DEF EndOfStream
    <3>2. QED BY <1>2, <1>a, <1>b, <3>1 DEF Deliver
  <2>2. StreamTypeOK' /\ SeenFits' /\ WireFollows' /\ BatchFollows'
    BY <1>1, <1>a, <2>1 DEF IInv, StreamOK, StreamTypeOK, SeenFits, WireFollows, BatchFollows
  <2>3. QED BY <1>1, <2>2 DEF IInv, StreamOK
<1>3. CASE Head(wire) # EndOfStream
  <2>a. /\ seen' = Append(seen, Head(wire)) /\ Head(wire) = Len(seen) + 1
        /\ Len(seen) + 1 <= MaxSequence /\ Len(seen) \in Nat
    BY <1>3, <1>a, <1>b DEF Deliver
  <2>1. StreamTypeOK'
    BY <1>a, <2>a DEF StreamTypeOK
  <2>2. SeenFits'
    BY <1>1, <1>a, <2>a DEF IInv, StreamOK, SeenFits
  <2>3. WireFollows'
    <3>1. \A i \in DOMAIN wire' : i \in Nat /\ i + 1 \in DOMAIN wire /\ wire'[i] = wire[i + 1]
      BY <1>a
    <3>2. Len(wire') = Len(wire) - 1 /\ Len(seen') = Len(seen) + 1 /\ Len(wire) \in Nat
      BY <1>a, <2>a
    <3> SUFFICES ASSUME NEW i \in DOMAIN wire'
                 PROVE  \/ wire'[i] = Len(seen') + i /\ wire'[i] <= MaxSequence'
                        \/ wire'[i] = EndOfStream /\ i = Len(wire') /\ phase' \in {"closed", "left"}
      BY DEF WireFollows
    <3>3. \/ wire[i + 1] = Len(seen) + (i + 1) /\ wire[i + 1] <= MaxSequence
          \/ wire[i + 1] = EndOfStream /\ i + 1 = Len(wire) /\ phase \in {"closed", "left"}
      BY <3>1 DEF IInv, StreamOK, WireFollows
    <3>4. Len(seen) + (i + 1) = Len(seen') + i /\ (i + 1 = Len(wire) => i = Len(wire'))
      <4>1. i \in Nat /\ Len(seen) \in Nat /\ Len(wire) \in Nat
        BY <3>1, <3>2, <2>a
      <4>2. Len(seen') = Len(seen) + 1 /\ Len(wire') = Len(wire) - 1
        BY <3>2
      <4>3. QED BY <4>1, <4>2
    <3>5. QED BY <3>1, <3>3, <3>4, <1>1, <1>a
  <2>4. BatchFollows'
    <3>1. Len(seen') + Len(wire') = Len(seen) + Len(wire)
      BY <1>a, <2>a
    <3>2. QED BY <3>1, <1>1, <1>a DEF IInv, StreamOK, BatchFollows
  <2>5. QED BY <1>1, <2>1, <2>2, <2>3, <2>4 DEF IInv, StreamOK
<1>4. QED BY <1>2, <1>3

\* A break or a departure loses what was not seen.
LEMMA LossKeeps ==
  ASSUME IInv, Drop \/ Leave
  PROVE  IInv'
<1>1. StoreOK' /\ MaxSequence' = MaxSequence
  BY StoreKept DEF IInv, Drop, Leave
<1>2. phase' \in {"closed", "left"} /\ batch' = <<>> /\ wire' = <<>> /\ UNCHANGED <<cursor, seen>>
  BY DEF Drop, Leave
<1>3. StreamTypeOK' /\ SeenFits' /\ WireFollows' /\ BatchFollows'
  BY <1>1, <1>2 DEF IInv, StreamOK, StreamTypeOK, SeenFits, WireFollows, BatchFollows
<1>4. QED BY <1>1, <1>3 DEF IInv, StreamOK

LEMMA InitIInv == Init => IInv
<1> SUFFICES ASSUME Init PROVE IInv
  OBVIOUS
<1>a. DOMAIN table = 1..1 /\ table[1] = FALSE /\ 1 \in Sequences
  BY StreamAssumption DEF Init, Sequences
<1>b. MaxSequence = 1
  BY <1>a, LastSequence
<1>1. table \in [1..1 -> BOOLEAN]
  BY <1>a DEF Init
<1>2. NumberedInOrder /\ LockHeld
  BY <1>a, <1>b DEF Init, NumberedInOrder, LockHeld
<1>3. pending \in [Writer -> Rows]
  BY DEF Init, Rows
<1>4. StoreOK
  BY <1>a, <1>1, <1>2, <1>3 DEF Init, StoreOK
<1>5. StreamOK
  BY <1>b DEF Init, StreamOK, StreamTypeOK, WireFollows, BatchFollows, SeenFits
<1>6. QED BY <1>4, <1>5 DEF IInv

LEMMA NextKeepsIInv == IInv /\ [Next]_vars => IInv'
<1> SUFFICES ASSUME IInv, [Next]_vars PROVE IInv'
  OBVIOUS
<1>1. CASE Generator
  BY <1>1, ListKeeps, SendKeeps, PhaseKeeps, CheckKeeps DEF Generator
<1>2. ASSUME NEW p \in Writer, Commit(p) \/ Rollback(p) PROVE IInv'
  BY <1>2, CommitKeeps, RollbackKeeps
<1>3. ASSUME NEW p \in Writer, NEW terminal \in BOOLEAN, AppendLocked(p, terminal) PROVE IInv'
  BY <1>3, AppendKeeps
<1>4. CASE Connect \/ Deliver \/ Drop \/ Leave
  BY <1>4, ConnectKeeps, DeliverKeeps, LossKeeps
<1>5. CASE UNCHANGED vars
  <2>1. UNCHANGED storeVars /\ UNCHANGED <<streamVars, seen>>
    BY <1>5 DEF vars
  <2>2. StoreOK' /\ MaxSequence' = MaxSequence /\ MaxSequence \in Nat
    BY <2>1, StoreKept, TableShape DEF IInv
  <2>3. QED BY <2>1, <2>2, StreamKept DEF IInv
<1>6. QED BY <1>1, <1>2, <1>3, <1>4, <1>5 DEF Next

\* The invariant gives both orders.
LEMMA IInvOrders == IInv => InOrder
<1> SUFFICES ASSUME IInv PROVE InOrder
  OBVIOUS
<1>1. MaxSequence \in Nat /\ DOMAIN table = 1..MaxSequence
  BY TableShape DEF IInv
<1>2. seen \in Seq(Nat) /\ Len(seen) <= MaxSequence /\ \A i \in DOMAIN seen : seen[i] = i
  BY DEF IInv, StreamOK, StreamTypeOK, SeenFits
<1>3. SeenInOrder
  BY <1>1, <1>2 DEF SeenInOrder
<1>4. QED BY <1>3 DEF IInv, StoreOK, InOrder

\* The table of events has no gap and ends with the job, and a client is given each event once, in
\* its order, whatever is lost, rolled back or reconnected (_append_event, stream_rca_job_events).
THEOREM EventsAreInOrder == Spec => []InOrder
<1>1. Init => IInv
  BY InitIInv
<1>2. IInv /\ [Next]_vars => IInv'
  BY NextKeepsIInv
<1>3. IInv => InOrder
  BY IInvOrders
<1>4. QED BY <1>1, <1>2, <1>3, PTL DEF Spec

-----------------------------------------------------------------------------
(***************************************************************************)
(* Idempotent submission, for every number of calls, keys and requests.    *)
(***************************************************************************)

\* An open transaction holds its key alone: no row has it and no other transaction.
KeyHeld ==
  \A c \in open :
    /\ c \in Call
    /\ key[c] # NoKey => /\ \A i \in DOMAIN rows : rows[i].key # key[c]
                         /\ \A d \in open : key[d] = key[c] => d = c

\* A try that has not committed has no row yet.
TryIsFresh ==
  \A i \in DOMAIN rows :
    /\ i \in JobId /\ i[2] <= tries[i[1]]
    /\ i[2] = tries[i[1]] => stage[i[1]] \notin {"insert", "commit", "lookup"}

FieldsOK ==
  /\ key \in [Call -> Key \cup {NoKey}] /\ request \in [Call -> Request]
  /\ tries \in [Call -> 0..MaxTries]
  /\ stage \in [Call -> {"idle", "insert", "commit", "lookup", "reply"}]
  /\ answers \in [Call -> SUBSET Answer]
  /\ rows \in [DOMAIN rows -> Row]
  /\ \A c \in Call : /\ stage[c] = "commit" => c \in open
                     /\ stage[c] # "idle" => tries[c] >= 1

SInv == FieldsOK /\ KeyHeld /\ TryIsFresh /\ OneJobPerKey /\ AnswersAreFaithful

\* Nothing has been submitted yet.
LEMMA InitSInv == SubmissionInit => SInv
BY SubmissionAssumption DEF SubmissionInit, SInv, FieldsOK, KeyHeld, TryIsFresh, OneJobPerKey, AnswersAreFaithful

\* Every step of a submission preserves the invariant.
LEMMA NextKeepsSInv == SInv /\ [SubmissionNext]_submissionVars => SInv'
<1> SUFFICES ASSUME SInv, [SubmissionNext]_submissionVars
             PROVE  SInv'
  OBVIOUS
<1> USE SubmissionAssumption
<1>a. CASE UNCHANGED submissionVars
  BY <1>a DEF submissionVars, SInv, FieldsOK, KeyHeld, TryIsFresh, OneJobPerKey, AnswersAreFaithful, Bound
<1>b. ASSUME NEW c \in Call, Submit(c)
      PROVE  SInv'
  <2>1. FieldsOK' /\ KeyHeld' /\ OneJobPerKey'
    BY <1>b DEF Submit, Goto, SInv, FieldsOK, KeyHeld, OneJobPerKey
  <2>2. TryIsFresh'
    BY <1>b DEF Submit, Goto, SInv, FieldsOK, TryIsFresh, JobId
  <2>3. AnswersAreFaithful'
    BY <1>b DEF Submit, SInv, AnswersAreFaithful, Bound
  <2>4. QED BY <2>1, <2>2, <2>3 DEF SInv
<1>c. ASSUME NEW c \in Call, Insert(c)
      PROVE  SInv'
  <2>1. FieldsOK' /\ OneJobPerKey'
    BY <1>c DEF Insert, Goto, SInv, FieldsOK, OneJobPerKey
  <2>2. KeyHeld'
    BY <1>c DEF Insert, SInv, KeyHeld, Bound
  <2>3. TryIsFresh'
    BY <1>c DEF Insert, Goto, SInv, FieldsOK, TryIsFresh, JobId
  <2>4. AnswersAreFaithful'
    BY <1>c DEF Insert, SInv, AnswersAreFaithful, Bound
  <2>5. QED BY <2>1, <2>2, <2>3, <2>4 DEF SInv
<1>d. ASSUME NEW c \in Call, UniqueViolation(c) \/ RollbackJob(c) \/ Repeat(c)
      PROVE  SInv'
  <2>1. /\ UNCHANGED <<key, request, tries, rows, answers>>
        /\ open' \subseteq open /\ open \ {c} \subseteq open'
        /\ \/ stage' = [stage EXCEPT ![c] = "idle"]
           \/ stage' = [stage EXCEPT ![c] = "lookup"] /\ stage[c] = "insert"
    BY <1>d DEF UniqueViolation, RollbackJob, Repeat, Goto
  <2>2. FieldsOK' /\ KeyHeld' /\ OneJobPerKey'
    BY <2>1 DEF SInv, FieldsOK, KeyHeld, OneJobPerKey
  <2>3. TryIsFresh'
    BY <2>1 DEF SInv, FieldsOK, TryIsFresh, JobId
  <2>4. AnswersAreFaithful'
    BY <2>1 DEF SInv, AnswersAreFaithful, Bound
  <2>5. QED BY <2>2, <2>3, <2>4 DEF SInv
<1>e. ASSUME NEW c \in Call, Lookup(c)
      PROVE  SInv'
  <2>1. PICK i \in Bound(key[c]) :
          IF rows[i].request = request[c] THEN Tell(c, "accepted", i) ELSE Tell(c, "conflict", NoJob)
    BY <1>e DEF Lookup
  <2>2. /\ UNCHANGED <<key, request, tries, open, rows>>
        /\ stage[c] = "lookup" /\ stage' = [stage EXCEPT ![c] = "reply"]
        /\ i \in DOMAIN rows /\ rows[i].key = key[c]
    BY <1>e DEF Lookup, Goto, Bound
  <2>3. FieldsOK' /\ KeyHeld' /\ OneJobPerKey'
    <3>1. answers' \in [Call -> SUBSET Answer]
      BY <2>1, <2>2 DEF SInv, FieldsOK, Tell, Answer, TryIsFresh
    <3>2. QED BY <2>2, <3>1 DEF SInv, FieldsOK, KeyHeld, OneJobPerKey
  <2>4. TryIsFresh'
    BY <2>2 DEF SInv, FieldsOK, TryIsFresh, JobId
  <2>5. AnswersAreFaithful'
    <3>1. CASE rows[i].request = request[c]
      <4>1. answers' = [answers EXCEPT ![c] = @ \cup {[kind |-> "accepted", job |-> i]}]
        BY <2>1, <3>1 DEF Tell
      <4>2. rows[i] = [key |-> key[c], request |-> request[c]]
        BY <2>2, <3>1 DEF SInv, FieldsOK, Row
      <4>3. QED
        BY <2>2, <4>1, <4>2 DEF SInv, FieldsOK, AnswersAreFaithful, Bound
    <3>2. CASE rows[i].request # request[c]
      <4>1. answers' = [answers EXCEPT ![c] = @ \cup {[kind |-> "conflict", job |-> NoJob]}]
        BY <2>1, <3>2 DEF Tell
      <4>2. QED
        BY <2>1, <2>2, <3>2, <4>1 DEF SInv, FieldsOK, AnswersAreFaithful, Bound
    <3>3. QED BY <3>1, <3>2
  <2>6. QED BY <2>3, <2>4, <2>5 DEF SInv
<1>f. ASSUME NEW c \in Call, CommitJob(c)
      PROVE  SInv'
  <2> DEFINE me == Job(c)
             row == [key |-> key[c], request |-> request[c]]
  <2>1. /\ UNCHANGED <<key, request, tries>> /\ open' = open \ {c} /\ c \in open
        /\ rows' = [i \in DOMAIN rows \cup {me} |-> IF i = me THEN row ELSE rows[i]]
        /\ stage[c] = "commit"
        /\ \/ stage' = [stage EXCEPT ![c] = "reply"]
           \/ stage' = [stage EXCEPT ![c] = "idle"]
        /\ \/ answers' = [answers EXCEPT ![c] = @ \cup {[kind |-> "accepted", job |-> me]}]
           \/ answers' = answers
    BY <1>f DEF CommitJob, Goto, Tell, SInv, FieldsOK
  <2>2. tries[c] \in 1..MaxTries /\ me \in JobId /\ me = <<c, tries[c]>> /\ me \notin DOMAIN rows
    BY <2>1 DEF Job, JobId, SInv, FieldsOK, TryIsFresh
  <2> HIDE DEF me
  <2>3. FieldsOK'
    <3>1. row \in Row
      BY DEF SInv, FieldsOK, Row
    <3>2. rows' \in [DOMAIN rows' -> Row]
      BY <2>1, <3>1 DEF SInv, FieldsOK
    <3>3. answers' \in [Call -> SUBSET Answer]
      BY <2>1, <2>2 DEF SInv, FieldsOK, Answer
    <3>4. QED BY <2>1, <3>2, <3>3 DEF SInv, FieldsOK
  <2>4. KeyHeld'
    BY <2>1, <2>2 DEF SInv, KeyHeld
  <2>5. OneJobPerKey'
    BY <2>1, <2>2 DEF SInv, KeyHeld, OneJobPerKey
  <2>6. TryIsFresh'
    BY <2>1, <2>2 DEF SInv, FieldsOK, TryIsFresh, JobId
  <2>7. AnswersAreFaithful'
    <3>1. /\ \A i \in DOMAIN rows : i \in DOMAIN rows' /\ rows'[i] = rows[i]
          /\ me \in DOMAIN rows' /\ rows'[me] = row
      BY <2>1, <2>2
    <3>2. \A d \in Call : \A b \in answers'[d] :
            b \in answers[d] \/ (d = c /\ b = [kind |-> "accepted", job |-> me])
      BY <2>1 DEF SInv, FieldsOK
    <3>3. ASSUME NEW d \in Call, NEW b \in answers[d]
          PROVE  IF b.kind = "accepted"
                 THEN b.job \in DOMAIN rows' /\ rows'[b.job] = [key |-> key[d], request |-> request[d]]
                 ELSE \E i \in Bound(key[d])' : rows'[i].request # request[d]
      <4>1. CASE b.kind = "accepted"
        BY <3>1, <4>1 DEF SInv, AnswersAreFaithful
      <4>2. CASE b.kind # "accepted"
        BY <2>1, <3>1, <4>2 DEF SInv, AnswersAreFaithful, Bound
      <4>3. QED BY <4>1, <4>2
    <3>4. ASSUME NEW d \in Call, NEW b \in answers'[d]
          PROVE  IF b.kind = "accepted"
                 THEN b.job \in DOMAIN rows' /\ rows'[b.job] = [key |-> key[d], request |-> request[d]]
                 ELSE \E i \in Bound(key[d])' : rows'[i].request # request[d]
      BY <3>1, <3>2, <3>3
    <3>5. QED BY <2>1, <3>4 DEF AnswersAreFaithful
  <2>8. QED BY <2>3, <2>4, <2>5, <2>6, <2>7 DEF SInv
<1>g. QED BY <1>a, <1>b, <1>c, <1>d, <1>e, <1>f DEF SubmissionNext

\* The invariant holds in every reachable state of enqueue and its callers.
THEOREM SubmissionInvariance == SubmissionSpec => []SInv
BY InitSInv, NextKeepsSInv, PTL DEF SubmissionSpec

\* However submissions interleave, fail and are repeated, a key is bound to one job.
THEOREM KeysAreBoundOnce == SubmissionSpec => []OneJobPerKey
<1>1. SInv => OneJobPerKey
  BY DEF SInv
<1>2. QED BY SubmissionInvariance, <1>1, PTL

\* Clients are given the job of their own request, and a conflict only for another's.
THEOREM RepliesAreFaithful == SubmissionSpec => []AnswersAreFaithful
<1>1. SInv => AnswersAreFaithful
  BY DEF SInv
<1>2. QED BY SubmissionInvariance, <1>1, PTL

\* Every call with the same key and request is given the same answer.
THEOREM RepliesAgree == SubmissionSpec => []AnswersAgree
<1>1. SInv => AnswersAgree
  <2> SUFFICES ASSUME SInv, NEW c \in Call, NEW d \in Call, key[c] = key[d], key[c] # NoKey,
                      NEW a \in answers[c], NEW b \in answers[d]
               PROVE  /\ (a.kind = "accepted" /\ b.kind = "accepted") => a.job = b.job
                      /\ request[c] = request[d] => a.kind = b.kind
    BY DEF AnswersAgree
  <2>1. a.kind \in {"accepted", "conflict"} /\ b.kind \in {"accepted", "conflict"}
    BY DEF SInv, FieldsOK, Answer
  <2>2. a.kind = "accepted" => /\ a.job \in Bound(key[c])
                               /\ rows[a.job] = [key |-> key[c], request |-> request[c]]
    BY DEF SInv, AnswersAreFaithful, Bound
  <2>3. b.kind = "accepted" => /\ b.job \in Bound(key[c])
                               /\ rows[b.job] = [key |-> key[c], request |-> request[d]]
    BY DEF SInv, AnswersAreFaithful, Bound
  <2>4. \A i, j \in Bound(key[c]) : i = j
    BY DEF SInv, OneJobPerKey, Bound
  <2>5. a.kind # "accepted" => \E i \in Bound(key[c]) : rows[i].request # request[c]
    BY DEF SInv, AnswersAreFaithful
  <2>6. b.kind # "accepted" => \E i \in Bound(key[c]) : rows[i].request # request[d]
    BY DEF SInv, AnswersAreFaithful
  <2>7. QED BY <2>1, <2>2, <2>3, <2>4, <2>5, <2>6
<1>2. QED BY SubmissionInvariance, <1>1, PTL
=============================================================================
