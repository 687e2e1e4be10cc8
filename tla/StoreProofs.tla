------------------------------ MODULE StoreProofs ------------------------------
(***************************************************************************)
(* Proofs about the audited store, for every set of processes and runs,    *)
(* builds with any number of migrations and any number of events.          *)
(***************************************************************************)
EXTENDS AuditedStore, FoldFacts, SequenceTheorems, TLAPS

-----------------------------------------------------------------------------
(* The inductive invariant                                                 *)

Contents ==
  [type : {"preview", "run", "status", "purge", "forged"},
   subject : RunId \cup {None}, from : RunStatus, to : RunStatus]

Event == [sequence : Nat, content : Contents, previous : Seq(Contents),
          digest : Seq(Contents)]

OpenTx == [plans : SUBSET RunId, runs : [RunId -> RunStatus],
           told : Seq(Event)]

Stage == {"down", "migrating", "applying", "verifying", "opened", "up",
          "cleared", "writing"}

User == [at : Stage, build : Nat, next : Nat, writable : BOOLEAN,
         op : Mutation \cup {NoOp, RecoverRuns}, tx : OpenTx \cup {NoTx}]

StoreTypes ==
  /\ applied \in Seq(Nat)
  /\ plans \subseteq RunId
  /\ runs \in [RunId -> RunStatus]
  /\ events \in Seq(Event)
  /\ damage \in {"none", "pages", "rewritten", "cut"}
  /\ lock \in Process \cup {None}
  /\ proc \in [Process -> User]
  /\ late \in [Process -> Nat]

\* Who is opening the file knows how much of it is there, and writes to nothing.
OpeningInv ==
  /\ \A i \in 1 .. Len(applied) : applied[i] = i
  /\ \A p \in Process :
       /\ proc[p].at \in {"down", "migrating", "applying", "verifying"} =>
            ~proc[p].writable
       /\ proc[p].at = "applying" => proc[p].next \in 1 .. Len(applied) + 1
       /\ proc[p].at = "verifying" \/ proc[p].writable =>
            proc[p].build <= Len(applied)

\* The transaction of the writer, the only one, continues the chain.
WritingInv ==
  \A p \in Process :
    proc[p].at = "writing" =>
      /\ lock = p
      /\ proc[p].tx \in OpenTx
      /\ damage # "rewritten" => ChainValid(events \o proc[p].tx.told)

\* A mutation cleared before the damage was the last of its process.
LateInv ==
  \A p \in Process :
    \/ late[p] = 0
    \/ /\ late[p] = 1 /\ ~Healthy
       /\ proc[p].at \notin {"cleared", "writing"}

StoreInv ==
  /\ StoreTypes /\ OpeningInv /\ WritingInv /\ ChainIsWhole /\ LateInv

-----------------------------------------------------------------------------
(* Chains                                                                  *)

\* What the event at place i must say to continue the chain.
LinkedAt(chain, i) ==
  /\ chain[i].sequence = i
  /\ chain[i].previous = IF i = 1 THEN <<>> ELSE chain[i - 1].digest
  /\ chain[i].digest = Append(chain[i].previous, chain[i].content)

\* The tip of the events before the one at place i is the digest before it.
LEMMA TipBefore ==
  ASSUME NEW chain \in Seq(Event), NEW i \in 1 .. Len(chain)
  PROVE  Tip(SubSeq(chain, 1, i - 1)) =
           IF i = 1 THEN <<>> ELSE chain[i - 1].digest
<1>1. CASE i = 1
  <2>1. SubSeq(chain, 1, i - 1) = <<>>
    BY <1>1, SubSeqEmpty
  <2> QED BY <1>1, <2>1 DEF Tip, Genesis
<1>2. CASE i # 1
  <2> DEFINE before == SubSeq(chain, 1, i - 1)
  <2>1. /\ Len(chain) \in Nat /\ i \in Nat /\ i - 1 \in 1 .. Len(chain)
        /\ \A j \in 1 .. i - 1 : chain[j] \in Event
    BY <1>2
  <2>2. /\ before \in Seq(Event) /\ Len(before) = i - 1
        /\ \A j \in 1 .. i - 1 : before[j] = chain[j]
    BY <2>1, SubSeqProperties
  <2>3. before # <<>> /\ before[Len(before)] = chain[i - 1]
    BY <2>1, <2>2
  <2> QED BY <1>2, <2>3 DEF Tip, Last
<1> QED BY <1>1, <1>2

\* A chain is valid when each event continues what is before it.
LEMMA ValidIsLinked ==
  ASSUME NEW chain \in Seq(Event)
  PROVE  ChainValid(chain) <=> \A i \in 1 .. Len(chain) : LinkedAt(chain, i)
<1>1. DOMAIN chain = 1 .. Len(chain)
  OBVIOUS
<1>2. ASSUME NEW i \in 1 .. Len(chain)
      PROVE  LinkedAt(chain, i) <=>
               /\ chain[i].sequence = i
               /\ chain[i].previous = Tip(SubSeq(chain, 1, i - 1))
               /\ chain[i].digest = Digest(chain[i].previous, chain[i].content)
  <2>1. Tip(SubSeq(chain, 1, i - 1)) =
          IF i = 1 THEN <<>> ELSE chain[i - 1].digest
    BY TipBefore
  <2> QED BY <2>1 DEF LinkedAt, Digest
<1> QED BY <1>1, <1>2, Zenon DEF ChainValid

\* The event append() makes is an event and continues the chain.
LEMMA AppendedLinks ==
  ASSUME NEW chain \in Seq(Event), NEW content \in Contents
  PROVE  /\ Appended(chain, content) \in Event
         /\ Append(chain, Appended(chain, content)) \in Seq(Event)
         /\ ChainValid(chain) =>
              ChainValid(Append(chain, Appended(chain, content)))
<1> DEFINE event == Appended(chain, content)
           longer == Append(chain, event)
<1>1. Len(chain) \in Nat
  OBVIOUS
<1>2. Tip(chain) = IF Len(chain) = 0 THEN <<>> ELSE chain[Len(chain)].digest
  BY <1>1 DEF Tip, Last, Genesis
<1>3. Tip(chain) \in Seq(Contents)
  <2>1. CASE Len(chain) = 0
    BY <1>2, <2>1
  <2>2. CASE Len(chain) # 0
    <3>1. chain[Len(chain)] \in Event
      BY <1>1, <2>2
    <3> QED BY <1>2, <2>2, <3>1 DEF Event
  <2> QED BY <2>1, <2>2
<1>4. /\ event.sequence = Len(chain) + 1 /\ event.content = content
      /\ event.previous = Tip(chain)
      /\ event.digest = Append(Tip(chain), content)
      /\ event \in Event
  BY <1>1, <1>3 DEF Appended, Digest, Event
<1>5. /\ longer \in Seq(Event) /\ Len(longer) = Len(chain) + 1
      /\ \A i \in 1 .. Len(chain) : longer[i] = chain[i]
      /\ longer[Len(chain) + 1] = event
  BY <1>1, <1>4, AppendProperties
<1>6. ASSUME ChainValid(chain)
      PROVE  ChainValid(longer)
  <2>1. \A i \in 1 .. Len(chain) : LinkedAt(chain, i)
    BY <1>6, ValidIsLinked
  <2> SUFFICES ASSUME NEW i \in 1 .. Len(longer)
               PROVE  LinkedAt(longer, i)
    BY <1>5, ValidIsLinked
  <2>2. CASE i = Len(chain) + 1
    <3>1. i # 1 => /\ i - 1 \in 1 .. Len(chain) /\ i - 1 = Len(chain)
                   /\ Len(chain) # 0
      BY <1>1, <2>2
    <3>2. i = 1 => Len(chain) = 0
      BY <1>1, <2>2
    <3>3. longer[i] = event
      BY <1>5, <2>2
    <3>4. i # 1 => longer[i - 1] = chain[Len(chain)]
      BY <1>5, <3>1
    <3>5. event.previous = IF i = 1 THEN <<>> ELSE longer[i - 1].digest
      BY <1>2, <1>4, <3>1, <3>2, <3>4
    <3> HIDE DEF longer, event
    <3> QED BY <1>4, <2>2, <3>3, <3>5 DEF LinkedAt
  <2>3. CASE i # Len(chain) + 1
    <3>1. i \in 1 .. Len(chain) /\ (i # 1 => i - 1 \in 1 .. Len(chain))
      BY <1>1, <1>5, <2>3
    <3>2. longer[i] = chain[i] /\ (i # 1 => longer[i - 1] = chain[i - 1])
      BY <1>5, <3>1
    <3> HIDE DEF longer, event
    <3> QED BY <2>1, <3>1, <3>2 DEF LinkedAt
  <2> QED BY <2>2, <2>3
<1> QED BY <1>4, <1>5, <1>6

\* What starts a valid chain is valid.
LEMMA StartIsValid ==
  ASSUME NEW chain \in Seq(Event), NEW longer \in Seq(Event),
         Len(chain) <= Len(longer),
         \A i \in 1 .. Len(chain) : longer[i] = chain[i],
         ChainValid(longer)
  PROVE  ChainValid(chain)
<1>1. \A i \in 1 .. Len(longer) : LinkedAt(longer, i)
  BY ValidIsLinked
<1> SUFFICES ASSUME NEW i \in 1 .. Len(chain)
             PROVE  LinkedAt(chain, i)
  BY ValidIsLinked
<1>2. /\ Len(chain) \in Nat /\ Len(longer) \in Nat
      /\ i \in 1 .. Len(longer) /\ (i # 1 => i - 1 \in 1 .. Len(chain))
  OBVIOUS
<1>3. longer[i] = chain[i] /\ (i # 1 => longer[i - 1] = chain[i - 1])
  BY <1>2
<1> QED BY <1>1, <1>2, <1>3 DEF LinkedAt

-----------------------------------------------------------------------------
(* Steps that leave the tables alone                                       *)

\* What is applied is the first migrations.
LEMMA AppliedAreFirst ==
  ASSUME StoreTypes, OpeningInv
  PROVE  /\ Len(applied) \in Nat
         /\ \A v \in Nat : v \in Range(applied) <=> v \in 1 .. Len(applied)
<1>1. Len(applied) \in Nat /\ DOMAIN applied = 1 .. Len(applied)
  BY DEF StoreTypes
<1>2. \A i \in 1 .. Len(applied) : applied[i] = i
  BY DEF OpeningInv
<1> QED BY <1>1, <1>2 DEF Range

\* Damage that shows is not undone by a step that leaves file and damage alone,
\* and shows only when there is damage.
LEMMA DamageShows ==
  ASSUME StoreInv, ~Healthy
  PROVE  damage \in {"pages", "rewritten"}
BY DEF StoreInv, StoreTypes, ChainIsWhole, Healthy

\* One process moves and the tables stay as they are.
LEMMA OneMoves ==
  ASSUME StoreInv, NEW p \in Process,
         proc' \in [Process -> User],
         \A q \in Process \ {p} : proc'[q] = proc[q],
         applied' \in Seq(Nat), Len(applied) <= Len(applied'),
         \A i \in 1 .. Len(applied') : applied'[i] = i,
         UNCHANGED <<plans, runs, events, damage, late>>,
         lock' \in Process \cup {None},
         \A q \in Process \ {p} : lock = q => lock' = q,
         proc'[p].at \in {"down", "migrating", "applying", "verifying"} =>
           ~proc'[p].writable,
         proc'[p].at = "applying" => proc'[p].next \in 1 .. Len(applied') + 1,
         proc'[p].at = "verifying" \/ proc'[p].writable =>
           proc'[p].build <= Len(applied'),
         proc'[p].at = "writing" =>
           /\ lock' = p /\ proc'[p].tx \in OpenTx
           /\ damage # "rewritten" => ChainValid(events \o proc'[p].tx.told),
         proc'[p].at \in {"cleared", "writing"} =>
           Healthy \/ proc[p].at \in {"cleared", "writing"}
  PROVE  StoreInv'
<1> USE DEF StoreInv
<1>1. StoreTypes' /\ ChainIsWhole'
  BY DEF StoreTypes, ChainIsWhole, ChainValid
<1>2. OpeningInv'
  <2>1. Len(applied) \in Nat /\ Len(applied') \in Nat
    BY DEF StoreTypes
  <2> SUFFICES ASSUME NEW q \in Process \ {p}
               PROVE  /\ proc'[q].at = "applying" =>
                           proc'[q].next \in 1 .. Len(applied') + 1
                      /\ proc'[q].at = "verifying" \/ proc'[q].writable =>
                           proc'[q].build <= Len(applied')
    BY DEF OpeningInv
  <2>2. /\ proc[q].build \in Nat /\ proc[q].next \in Nat
        /\ proc'[q] = proc[q]
    BY DEF StoreTypes, User
  <2>3. proc[q].at = "applying" => proc[q].next \in 1 .. Len(applied') + 1
    BY <2>1, <2>2 DEF OpeningInv
  <2>4. proc[q].at = "verifying" \/ proc[q].writable =>
          proc[q].build <= Len(applied')
    BY <2>1, <2>2 DEF OpeningInv
  <2> QED BY <2>2, <2>3, <2>4
<1>3. WritingInv'
  <2> SUFFICES ASSUME NEW q \in Process, proc'[q].at = "writing"
               PROVE  /\ lock' = q
                      /\ proc'[q].tx \in OpenTx
                      /\ damage' # "rewritten" =>
                           ChainValid(events' \o proc'[q].tx.told)
    BY Zenon DEF WritingInv
  <2>1. CASE q = p
    BY <2>1
  <2>2. CASE q # p
    <3>1. q \in Process \ {p} /\ proc'[q] = proc[q]
      BY <2>2
    <3>2. /\ lock = q /\ proc[q].tx \in OpenTx
          /\ damage # "rewritten" => ChainValid(events \o proc[q].tx.told)
      BY <3>1 DEF WritingInv
    <3> QED BY <3>1, <3>2
  <2> QED BY <2>1, <2>2
<1>4. LateInv'
  <2>1. Healthy' <=> Healthy
    BY DEF Healthy, ChainValid
  <2> QED BY <2>1 DEF LateInv
<1> QED BY <1>1, <1>2, <1>3, <1>4

\* A process that is down is a process.
LEMMA DownIsUser == Down \in User
BY DEF Down, User, Stage

\* What a process is after its open() failed.
LEMMA RecoveryOpens ==
  ASSUME StoreTypes, NEW p \in Process, OpenRecovery(p)
  PROVE  /\ proc' \in [Process -> User]
         /\ \A q \in Process \ {p} : proc'[q] = proc[q]
         /\ proc'[p].at \in {"up", "down"}
         /\ proc'[p].writable => proc[p].writable
<1>1. CASE proc' = [proc EXCEPT ![p].at = "up", ![p].next = 0]
  BY <1>1 DEF StoreTypes, User, Stage
<1>2. CASE proc' = [proc EXCEPT ![p] = Down]
  <2>1. Down.at = "down" /\ Down.writable = FALSE
    BY DEF Down
  <2> QED BY <1>2, <2>1, DownIsUser DEF StoreTypes
<1> QED BY <1>1, <1>2 DEF OpenRecovery

\* Opening the file.
LEMMA OpenKeeps ==
  ASSUME StoreInv, NEW p \in Process, Open(p)
  PROVE  StoreInv'
<1> USE DEF StoreInv
<1>1. /\ applied \in Seq(Nat) /\ Len(applied) \in Nat
      /\ \A i \in 1 .. Len(applied) : applied[i] = i
      /\ \A v \in Nat : v \in Range(applied) <=> v \in 1 .. Len(applied)
      /\ lock \in Process \cup {None} /\ proc \in [Process -> User]
      /\ proc[p] \in User
  BY AppliedAreFirst DEF StoreTypes, OpeningInv
<1>2. CASE Start(p)
  <2>1. PICK build \in Builds :
          proc' = [proc EXCEPT ![p].at = "migrating", ![p].build = build]
    BY <1>2 DEF Start
  <2>2. build \in Nat /\ proc[p].at = "down" /\ ~proc[p].writable
    BY <1>2, StoreAssumption DEF Start, OpeningInv
  <2>3. /\ proc' \in [Process -> User]
        /\ \A q \in Process \ {p} : proc'[q] = proc[q]
        /\ proc'[p].at = "migrating"
        /\ proc'[p].writable = proc[p].writable
    BY <1>1, <2>1, <2>2 DEF User, Stage
  <2>4. UNCHANGED <<applied, plans, runs, events, damage, lock, late>>
    BY <1>2 DEF Start, tables
  <2> QED BY <1>1, <2>2, <2>3, <2>4, OneMoves
<1>3. CASE LookUpMigration(p)
  <2>1. /\ UNCHANGED <<applied, plans, runs, events, damage, lock, late>>
        /\ proc[p].at = "migrating" /\ ~proc[p].writable
    BY <1>3 DEF LookUpMigration, tables, OpeningInv
  <2>2. CASE Missing(p) = {} /\ To(p, "verifying")
    <3>1. /\ proc' \in [Process -> User]
          /\ \A q \in Process \ {p} : proc'[q] = proc[q]
          /\ proc'[p].at = "verifying" /\ proc'[p].build = proc[p].build
          /\ proc'[p].writable = proc[p].writable
      BY <1>1, <2>2 DEF To, User, Stage
    <3>2. proc[p].build \in Nat
      BY <1>1 DEF User
    <3>3. \A v \in 1 .. proc[p].build : v \in 1 .. Len(applied)
      BY <1>1, <2>2, <3>2 DEF Missing
    <3>4. proc[p].build <= Len(applied)
      BY <1>1, <3>2, <3>3
    <3> QED BY <1>1, <2>1, <3>1, <3>4, OneMoves
  <2>3. ASSUME NEW v \in Missing(p), \A w \in Missing(p) : v <= w,
               proc' = [proc EXCEPT ![p].at = "applying", ![p].next = v]
        PROVE  StoreInv'
    <3>1. proc[p].build \in Nat
      BY <1>1 DEF User
    <3>2. v \in 1 .. proc[p].build /\ v \notin Range(applied)
      BY <2>3 DEF Missing
    <3>0. v \in Nat
      BY <3>1, <3>2
    <3>3. /\ proc' \in [Process -> User]
          /\ \A q \in Process \ {p} : proc'[q] = proc[q]
          /\ proc'[p].at = "applying" /\ proc'[p].next = v
          /\ proc'[p].writable = proc[p].writable
      BY <1>1, <2>3, <3>0 DEF User, Stage
    <3>4. v <= Len(applied) + 1
      <4> SUFFICES ASSUME v > Len(applied) + 1
                   PROVE  FALSE
        BY <1>1, <3>1, <3>2
      <4>1. Len(applied) + 1 \in 1 .. proc[p].build
        BY <1>1, <3>1, <3>2
      <4>2. Len(applied) + 1 \in Missing(p)
        BY <1>1, <4>1 DEF Missing
      <4> QED BY <1>1, <2>3, <3>1, <3>2, <4>2
    <3>5. v \in 1 .. Len(applied) + 1
      BY <1>1, <3>1, <3>2, <3>4
    <3> QED BY <1>1, <2>1, <3>3, <3>5, OneMoves
  <2> QED BY <1>3, <2>2, <2>3 DEF LookUpMigration
<1>4. ASSUME OpenRecovery(p), ~proc[p].writable,
             UNCHANGED <<applied, tables, damage, lock, late>>
      PROVE  StoreInv'
  <2>1. UNCHANGED <<applied, plans, runs, events, damage, lock, late>>
    BY <1>4 DEF tables
  <2> QED BY <1>1, <1>4, <2>1, RecoveryOpens, OneMoves
<1>5. CASE ApplyMigration(p)
  <2>1. /\ UNCHANGED <<plans, runs, events, damage, lock, late>>
        /\ proc[p].at = "applying" /\ ~proc[p].writable
        /\ proc[p].next \in 1 .. Len(applied) + 1
    BY <1>5 DEF ApplyMigration, tables, OpeningInv
  <2>2. CASE proc[p].next \in Range(applied)
    BY <1>4, <1>5, <2>1, <2>2 DEF ApplyMigration
  <2>3. CASE proc[p].next \notin Range(applied)
    <3>1. proc[p].next = Len(applied) + 1
      BY <1>1, <2>1, <2>3
    <3>2. /\ applied' = Append(applied, Len(applied) + 1)
          /\ proc' = [proc EXCEPT ![p].at = "migrating", ![p].next = 0]
      BY <1>5, <2>3, <3>1 DEF ApplyMigration
    <3>3. /\ applied' \in Seq(Nat) /\ Len(applied') = Len(applied) + 1
          /\ \A i \in 1 .. Len(applied) : applied'[i] = applied[i]
          /\ applied'[Len(applied) + 1] = Len(applied) + 1
      BY <1>1, <3>2, AppendProperties
    <3>4. \A i \in 1 .. Len(applied') : applied'[i] = i
      BY <1>1, <3>3
    <3>5. /\ proc' \in [Process -> User]
          /\ \A q \in Process \ {p} : proc'[q] = proc[q]
          /\ proc'[p].at = "migrating"
          /\ proc'[p].writable = proc[p].writable
      BY <1>1, <3>2 DEF User, Stage
    <3> QED BY <1>1, <2>1, <3>3, <3>4, <3>5, OneMoves
  <2> QED BY <2>2, <2>3
<1>6. CASE OpenFails(p)
  <2>1. ~proc[p].writable
    BY <1>6 DEF OpenFails, OpeningInv
  <2> QED BY <1>4, <1>6, <2>1 DEF OpenFails
<1>7. CASE VerifyOnOpen(p)
  <2>1. /\ UNCHANGED <<applied, plans, runs, events, damage, lock, late>>
        /\ ~proc[p].writable /\ proc[p].build <= Len(applied)
    BY <1>7 DEF VerifyOnOpen, tables, OpeningInv
  <2>2. CASE proc' = [proc EXCEPT ![p].at = "opened", ![p].writable = TRUE]
    <3>1. /\ proc' \in [Process -> User]
          /\ \A q \in Process \ {p} : proc'[q] = proc[q]
          /\ proc'[p].at = "opened" /\ proc'[p].build = proc[p].build
      BY <1>1, <2>2 DEF User, Stage
    <3> QED BY <1>1, <2>1, <3>1, OneMoves
  <2>3. CASE OpenRecovery(p)
    BY <1>4, <1>7, <2>1, <2>3 DEF VerifyOnOpen
  <2> QED BY <1>7, <2>2, <2>3 DEF VerifyOnOpen
<1>8. CASE BeginRecoverRuns(p)
  <2>1. /\ UNCHANGED <<applied, plans, runs, events, damage, lock, late>>
        /\ proc[p].writable => proc[p].build <= Len(applied)
    BY <1>8 DEF BeginRecoverRuns, tables, OpeningInv
  <2>2. CASE Healthy
    <3>1. proc' = [proc EXCEPT ![p].at = "cleared", ![p].op = RecoverRuns]
      BY <1>8, <2>2 DEF BeginRecoverRuns
    <3>2. /\ proc' \in [Process -> User]
          /\ \A q \in Process \ {p} : proc'[q] = proc[q]
          /\ proc'[p].at = "cleared" /\ proc'[p].build = proc[p].build
          /\ proc'[p].writable = proc[p].writable
      BY <1>1, <3>1 DEF User, Stage
    <3> QED BY <1>1, <2>1, <2>2, <3>2, OneMoves
  <2>3. CASE ~Healthy
    <3>1. proc' = [proc EXCEPT ![p].at = "up"]
      BY <1>8, <2>3 DEF BeginRecoverRuns, To
    <3>2. /\ proc' \in [Process -> User]
          /\ \A q \in Process \ {p} : proc'[q] = proc[q]
          /\ proc'[p].at = "up" /\ proc'[p].build = proc[p].build
          /\ proc'[p].writable = proc[p].writable
      BY <1>1, <3>1 DEF User, Stage
    <3> QED BY <1>1, <2>1, <3>2, OneMoves
  <2> QED BY <2>2, <2>3
<1> QED BY <1>2, <1>3, <1>5, <1>6, <1>7, <1>8 DEF Open

-----------------------------------------------------------------------------
(* Transactions                                                            *)

\* What the kinds of mutations carry.
LEMMA Kinds ==
  ASSUME NEW op \in Mutation \cup {NoOp, RecoverRuns}
  PROVE  /\ op.kind \in {"preview", "run", "status"} => op.run \in RunId
         /\ op.kind = "status" => op.to \in RunStatus
         /\ op.kind \in {"preview", "run", "status", "purge", "none", "recover"}
BY DEF Mutation, NoOp, RecoverRuns

\* The event of a mutation is an event's content.
LEMMA EventTyped ==
  ASSUME StoreTypes, NEW op \in Mutation \cup {NoOp, RecoverRuns},
         EventOf(op) # NoEvent
  PROVE  EventOf(op) \in Contents
<1>1. CASE op.kind = "preview"
  BY <1>1, Kinds DEF EventOf, Content, Contents, RunStatus
<1>2. CASE op.kind = "run"
  BY <1>2, Kinds DEF EventOf, Content, Contents, RunStatus
<1>3. CASE op.kind = "status"
  <2>1. runs[op.run] \in RunStatus /\ op.to \in RunStatus /\ op.run \in RunId
    BY <1>3, Kinds DEF StoreTypes
  <2>2. EventOf(op) = Content("status", op.run, runs[op.run], op.to)
    BY <1>3 DEF EventOf
  <2> QED BY <2>1, <2>2 DEF Content, Contents
<1>4. CASE op.kind = "purge"
  <2>1. EventOf(op) = IF plans # {} THEN Content("purge", None, "none", "none")
                      ELSE NoEvent
    BY <1>4 DEF EventOf
  <2> QED BY <2>1 DEF Content, Contents, RunStatus
<1>5. CASE op.kind \in {"none", "recover"}
  <2>1. EventOf(op) = NoEvent
    BY <1>5 DEF EventOf
  <2> QED BY <2>1
<1> QED BY <1>1, <1>2, <1>3, <1>4, <1>5, Kinds

\* What a mutation leaves of the tables is a state of the tables.
LEMMA AfterTyped ==
  ASSUME StoreTypes, NEW op \in Mutation \cup {NoOp, RecoverRuns}
  PROVE  /\ PlansAfter(op) \subseteq RunId
         /\ RunsAfter(op) \in [RunId -> RunStatus]
<1>1. CASE op.kind = "preview"
  BY <1>1, Kinds DEF PlansAfter, RunsAfter, StoreTypes
<1>2. CASE op.kind = "run"
  <2>1. RunsAfter(op) = [runs EXCEPT ![op.run] = "planned"]
    BY <1>2 DEF RunsAfter
  <2> QED BY <1>2, <2>1 DEF PlansAfter, StoreTypes, RunStatus
<1>3. CASE op.kind = "status"
  <2>1. RunsAfter(op) = [runs EXCEPT ![op.run] = op.to]
    BY <1>3 DEF RunsAfter
  <2> QED BY <1>3, <2>1, Kinds DEF PlansAfter, StoreTypes
<1>4. CASE op.kind = "purge"
  BY <1>4 DEF PlansAfter, RunsAfter, StoreTypes, RunStatus
<1>5. CASE op.kind \in {"none", "recover"}
  BY <1>5 DEF PlansAfter, RunsAfter, StoreTypes
<1> QED BY <1>1, <1>2, <1>3, <1>4, <1>5, Kinds

\* A transaction starts with what continues the chain.
LEMMA AfterContinues ==
  ASSUME StoreInv, NEW op \in Mutation \cup {NoOp, RecoverRuns}
  PROVE  /\ After(op) \in OpenTx
         /\ damage # "rewritten" => ChainValid(events \o After(op).told)
<1>1. StoreTypes /\ events \in Seq(Event)
      /\ (damage # "rewritten" => ChainValid(events))
  BY DEF StoreInv, StoreTypes, ChainIsWhole
<1>2. /\ After(op).told = IF EventOf(op) = NoEvent THEN <<>>
                          ELSE <<Appended(events, EventOf(op))>>
      /\ After(op).told \in Seq(Event) => After(op) \in OpenTx
  BY <1>1, AfterTyped DEF After, OpenTx
<1>3. CASE EventOf(op) = NoEvent
  BY <1>1, <1>2, <1>3, ConcatEmptySeq
<1>4. CASE EventOf(op) # NoEvent
  <2>1. PICK content \in Contents : content = EventOf(op)
    BY <1>1, <1>4, EventTyped
  <2>2. PICK event \in Event : event = Appended(events, content)
    BY <1>1, AppendedLinks
  <2>3. After(op).told = <<event>>
    BY <1>2, <1>4, <2>1, <2>2
  <2>4. events \o <<event>> = Append(events, event)
    BY <1>1, AppendIsConcat
  <2>5. damage # "rewritten" => ChainValid(Append(events, event))
    BY <1>1, <2>2, AppendedLinks, Zenon
  <2>6. After(op).told \in Seq(Event)
    BY <2>3
  <2>7. events \o After(op).told = Append(events, event)
    BY <2>3, <2>4
  <2>9. damage # "rewritten" => ChainValid(events \o After(op).told)
    BY <2>5, <2>7
  <2> QED BY <1>2, <2>6, <2>9
<1> QED BY <1>3, <1>4

\* A mutation that throws leaves its process up, or down.
LEMMA ThrownMoves ==
  ASSUME StoreTypes, NEW p \in Process, Thrown(p)
  PROVE  /\ proc' \in [Process -> User]
         /\ \A q \in Process \ {p} : proc'[q] = proc[q]
         /\ \/ proc'[p].at = "down" /\ ~proc'[p].writable
            \/ /\ proc'[p].at = "up" /\ proc'[p].writable = proc[p].writable
               /\ proc'[p].build = proc[p].build
<1>1. proc \in [Process -> User] /\ proc[p] \in User
  BY DEF StoreTypes
<1>2. CASE proc[p].op = RecoverRuns
  <2>1. proc' = [proc EXCEPT ![p] = Down]
    BY <1>1, <1>2 DEF Thrown
  <2>2. Down.at = "down" /\ Down.writable = FALSE
    BY DEF Down
  <2> QED BY <1>1, <2>1, <2>2, DownIsUser
<1>3. CASE proc[p].op # RecoverRuns
  <2>1. PICK u : u = [proc[p] EXCEPT !.at = "up", !.op = NoOp, !.tx = NoTx]
    OBVIOUS
  <2>2. proc' = [proc EXCEPT ![p] = u]
    BY <1>1, <1>3, <2>1 DEF Thrown
  <2>3. /\ u \in User /\ u.at = "up" /\ u.writable = proc[p].writable
        /\ u.build = proc[p].build
    BY <1>1, <2>1 DEF User, Stage
  <2> QED BY <1>1, <2>2, <2>3
<1> QED BY <1>2, <1>3

\* A transaction, up to its commit.
LEMMA WriteKeeps ==
  ASSUME StoreInv, NEW p \in Process,
         \/ \E op \in Mutation : Request(p, op)
         \/ Begin(p) \/ Refuse(p) \/ RecoverRow(p) \/ Rollback(p) \/ Leave(p)
  PROVE  StoreInv'
<1> USE DEF StoreInv
<1>1. /\ applied \in Seq(Nat) /\ Len(applied) \in Nat
      /\ Len(applied) <= Len(applied)
      /\ \A i \in 1 .. Len(applied) : applied[i] = i
      /\ lock \in Process \cup {None} /\ proc \in [Process -> User]
      /\ proc[p] \in User
      /\ proc[p].writable => proc[p].build <= Len(applied)
      /\ StoreTypes
  BY AppliedAreFirst DEF StoreTypes, OpeningInv
<1>2. ASSUME NEW op \in Mutation, Request(p, op)
      PROVE  StoreInv'
  <2>1. /\ UNCHANGED <<applied, plans, runs, events, damage, lock, late>>
        /\ Healthy
        /\ proc' = [proc EXCEPT ![p].at = "cleared", ![p].op = op]
    BY <1>2 DEF Request, tables
  <2>2. /\ proc' \in [Process -> User]
        /\ \A q \in Process \ {p} : proc'[q] = proc[q]
        /\ proc'[p].at = "cleared" /\ proc'[p].build = proc[p].build
        /\ proc'[p].writable = proc[p].writable
    BY <1>1, <2>1 DEF User, Stage
  <2> QED BY <1>1, <2>1, <2>2, OneMoves
<1>3. CASE Begin(p)
  <2>1. PICK op \in Mutation \cup {NoOp, RecoverRuns} : op = proc[p].op
    BY <1>1 DEF User
  <2>2. PICK tx \in OpenTx :
          /\ tx = After(op)
          /\ damage # "rewritten" => ChainValid(events \o tx.told)
    BY AfterContinues
  <2>3. /\ UNCHANGED <<applied, plans, runs, events, damage, late>>
        /\ lock = None /\ lock' = p /\ proc[p].at = "cleared"
        /\ proc' = [proc EXCEPT ![p].at = "writing", ![p].tx = tx]
    BY <1>3, <2>1, <2>2 DEF Begin, tables
  <2>4. /\ proc' \in [Process -> User]
        /\ \A q \in Process \ {p} : proc'[q] = proc[q]
        /\ proc'[p].at = "writing" /\ proc'[p].build = proc[p].build
        /\ proc'[p].writable = proc[p].writable /\ proc'[p].tx = tx
    BY <1>1, <2>3 DEF User, Stage
  <2> QED BY <1>1, <2>2, <2>3, <2>4, OneMoves, StoreAssumption
<1>4. CASE Refuse(p)
  <2>1. /\ UNCHANGED <<applied, plans, runs, events, damage, lock, late>>
        /\ Thrown(p)
    BY <1>4 DEF Refuse, tables
  <2> QED BY <1>1, <2>1, ThrownMoves, OneMoves
<1>5. CASE Rollback(p)
  <2>1. /\ UNCHANGED <<applied, plans, runs, events, damage, late>>
        /\ Thrown(p) /\ lock' = None /\ lock = p
    BY <1>5 DEF Rollback, tables, WritingInv
  <2> QED BY <1>1, <2>1, ThrownMoves, OneMoves
<1>6. CASE RecoverRow(p)
  <2>1. PICK r \in Unrecovered(p) :
          proc' = [proc EXCEPT
                  ![p].tx.runs[r] = "orphaned",
                  ![p].tx.told = Append(@, Appended(events \o @,
                     Content("status", r, "running", "orphaned")))]
    BY <1>6 DEF RecoverRow
  <2>2. /\ UNCHANGED <<applied, plans, runs, events, damage, lock, late>>
        /\ proc[p].at = "writing" /\ lock = p /\ proc[p].tx \in OpenTx
        /\ damage # "rewritten" => ChainValid(events \o proc[p].tx.told)
    BY <1>6 DEF RecoverRow, tables, WritingInv
  <2>3. PICK told \in Seq(Event) : told = proc[p].tx.told
    BY <2>2 DEF OpenTx
  <2>4. PICK content \in Contents :
          content = Content("status", r, "running", "orphaned")
    <3>1. r \in RunId
      BY DEF Unrecovered
    <3> QED BY <3>1 DEF Content, Contents, RunStatus
  <2>5. events \o told \in Seq(Event)
    BY <1>1, ConcatProperties DEF StoreTypes
  <2>6. PICK event \in Event : event = Appended(events \o told, content)
    BY <2>5, AppendedLinks
  <2>7. PICK more \in Seq(Event) : more = Append(told, event)
    BY AppendProperties
  <2>8. events \o more = Append(events \o told, event)
    <3>1. <<event>> \in Seq(Event) /\ events \in Seq(Event)
      BY <1>1 DEF StoreTypes
    <3>2. more = told \o <<event>>
      BY <2>7, AppendIsConcat
    <3>3. Append(events \o told, event) = (events \o told) \o <<event>>
      BY <2>5, AppendIsConcat
    <3> QED BY <3>1, <3>2, <3>3, ConcatAssociative
  <2>9. damage # "rewritten" => ChainValid(events \o more)
    BY <2>2, <2>3, <2>5, <2>6, <2>8, AppendedLinks, Zenon
  <2>10. /\ \A q \in Process \ {p} : proc'[q] = proc[q]
         /\ proc' \in [Process -> User]
         /\ proc'[p].at = "writing" /\ proc'[p].build = proc[p].build
         /\ proc'[p].writable = proc[p].writable
         /\ proc'[p].tx \in OpenTx /\ proc'[p].tx.told = more
    <3>1. PICK marked : marked = [proc[p].tx.runs EXCEPT ![r] = "orphaned"]
      OBVIOUS
    <3>2. marked \in [RunId -> RunStatus]
      BY <2>2, <3>1 DEF OpenTx, RunStatus
    <3>3. PICK tx : tx = [proc[p].tx EXCEPT !.runs = marked, !.told = more]
      OBVIOUS
    <3>4. tx \in OpenTx /\ tx.told = more
      BY <2>2, <3>2, <3>3 DEF OpenTx
    <3>5. PICK u : u = [proc[p] EXCEPT !.tx = tx]
      OBVIOUS
    <3>6. /\ u \in User /\ u.at = proc[p].at /\ u.build = proc[p].build
          /\ u.writable = proc[p].writable /\ u.tx = tx
      BY <1>1, <3>4, <3>5 DEF User
    <3>7. proc' = [proc EXCEPT ![p] = u]
      BY <2>1, <2>3, <2>4, <2>6, <2>7, <3>1, <3>3, <3>5
    <3> QED BY <1>1, <2>2, <3>4, <3>6, <3>7
  <2> QED BY <1>1, <2>2, <2>9, <2>10, OneMoves
<1>7. CASE Leave(p)
  <2>1. /\ UNCHANGED <<applied, plans, runs, events, damage, late>>
        /\ proc' = [proc EXCEPT ![p] = Down]
        /\ lock' = IF lock = p THEN None ELSE lock
    BY <1>7 DEF Leave, tables
  <2>2. Down.at = "down" /\ Down.writable = FALSE
    BY DEF Down
  <2>3. /\ proc' \in [Process -> User] /\ proc'[p] = Down
        /\ \A q \in Process \ {p} : proc'[q] = proc[q]
    BY <1>1, <2>1, DownIsUser
  <2> QED BY <1>1, <2>1, <2>2, <2>3, OneMoves
<1> QED BY <1>2, <1>3, <1>4, <1>5, <1>6, <1>7

\* The commit adds to the chain what continues it, and on a damaged file it is
\* the last of its process.
LEMMA CommitKeeps ==
  ASSUME StoreInv, NEW p \in Process, Commit(p)
  PROVE  StoreInv'
<1> USE DEF StoreInv
<1>1. /\ StoreTypes /\ proc[p] \in User /\ proc \in [Process -> User]
      /\ events \in Seq(Event) /\ late \in [Process -> Nat]
      /\ proc[p].at = "writing" /\ lock = p /\ proc[p].tx \in OpenTx
      /\ damage # "rewritten" => ChainValid(events \o proc[p].tx.told)
      /\ proc[p].writable => proc[p].build <= Len(applied)
  BY DEF Commit, WritingInv, StoreTypes, OpeningInv
<1>2. PICK told \in Seq(Event) : told = proc[p].tx.told
  BY <1>1 DEF OpenTx
<1>3. /\ UNCHANGED <<applied, damage>>
      /\ plans' = proc[p].tx.plans /\ runs' = proc[p].tx.runs
      /\ events' = events \o told /\ lock' = None
      /\ late' = IF Healthy THEN late ELSE [late EXCEPT ![p] = @ + 1]
      /\ proc' = [proc EXCEPT ![p].at = "up", ![p].op = NoOp, ![p].tx = NoTx]
  BY <1>2 DEF Commit
<1>4. /\ events' \in Seq(Event)
      /\ damage' # "rewritten" => ChainValid(events')
      /\ ChainValid(events') => ChainValid(events)
  <2>1. PICK chain \in Seq(Event) : chain = events \o told
    BY <1>1, ConcatProperties
  <2>2. /\ Len(events) \in Nat /\ Len(told) \in Nat
        /\ Len(chain) = Len(events) + Len(told)
        /\ \A i \in 1 .. Len(events) : chain[i] = events[i]
    BY <1>1, <2>1, ConcatProperties
  <2>3. ChainValid(chain) => ChainValid(events)
    BY <1>1, <2>2, StartIsValid
  <2>4. damage # "rewritten" => ChainValid(chain)
    BY <1>1, <1>2, <2>1
  <2> QED BY <1>3, <2>1, <2>3, <2>4
<1>5. /\ proc' \in [Process -> User]
      /\ \A q \in Process \ {p} : proc'[q] = proc[q]
      /\ proc'[p].at = "up" /\ proc'[p].writable = proc[p].writable
      /\ proc'[p].build = proc[p].build
  BY <1>1, <1>3 DEF User, Stage
<1>6. late' \in [Process -> Nat]
  BY <1>1, <1>3
<1>7. StoreTypes'
  BY <1>1, <1>3, <1>4, <1>5, <1>6 DEF StoreTypes, OpenTx
<1>8. OpeningInv'
  BY <1>1, <1>3, <1>5 DEF OpeningInv
<1>9. WritingInv'
  <2>1. ASSUME NEW q \in Process, proc'[q].at = "writing"
        PROVE  FALSE
    BY <1>1, <1>5, <2>1 DEF WritingInv
  <2> QED BY <2>1 DEF WritingInv
<1>10. ChainIsWhole'
  <2>1. damage' # "rewritten" => ChainValid(events)'
    BY <1>4 DEF ChainValid
  <2> QED BY <2>1 DEF ChainIsWhole
<1>11. LateInv'
  <2>1. ~Healthy => ~Healthy'
    <3>1. ChainValid(events)' => ChainValid(events)
      BY <1>4 DEF ChainValid
    <3> QED BY <1>3, <3>1 DEF Healthy
  <2>2. late[p] = 0
    BY <1>1 DEF LateInv
  <2> SUFFICES ASSUME NEW q \in Process
               PROVE  \/ late'[q] = 0
                      \/ /\ late'[q] = 1 /\ ~Healthy'
                         /\ proc'[q].at \notin {"cleared", "writing"}
    BY DEF LateInv
  <2>3. CASE q = p
    BY <1>1, <1>3, <1>5, <2>1, <2>2, <2>3
  <2>4. CASE q # p
    <3>1. late'[q] = late[q] /\ proc'[q] = proc[q]
      BY <1>1, <1>3, <1>5, <2>4
    <3> QED BY <2>1, <3>1 DEF LateInv
  <2> QED BY <2>3, <2>4
<1> QED BY <1>7, <1>8, <1>9, <1>10, <1>11

-----------------------------------------------------------------------------
(* What is done from outside                                               *)

\* Damaged pages leave the chain and the writer alone.
LEMMA RotKeeps ==
  ASSUME StoreInv, Rot
  PROVE  StoreInv'
<1>1. /\ UNCHANGED <<applied, plans, runs, events, lock, proc, late>>
      /\ damage = "none" /\ damage' = "pages"
  BY DEF Rot, tables
<1>2. ~Healthy'
  BY <1>1 DEF Healthy
<1>3. StoreTypes' /\ OpeningInv' /\ ChainIsWhole'
  BY <1>1 DEF StoreInv, StoreTypes, OpeningInv, ChainIsWhole, ChainValid
<1>4. WritingInv'
  BY <1>1 DEF StoreInv, WritingInv, ChainValid
<1>5. LateInv'
  BY <1>1, <1>2 DEF StoreInv, LateInv
<1> QED BY <1>3, <1>4, <1>5 DEF StoreInv

\* Nobody writes while the file is tampered with, and an end cut off leaves a
\* valid chain.
LEMMA TamperKeeps ==
  ASSUME StoreInv, Tamper
  PROVE  StoreInv'
<1>1. /\ UNCHANGED <<applied, plans, runs, lock, proc, late>>
      /\ damage = "none" /\ lock = None /\ events # <<>>
      /\ events \in Seq(Event) /\ ChainValid(events)
      /\ StoreTypes
  BY DEF Tamper, StoreInv, StoreTypes, ChainIsWhole
<1>2. /\ events' \in Seq(Event)
      /\ damage' \in {"rewritten", "cut"}
      /\ damage' = "cut" => ChainValid(events')
  <2>1. ASSUME damage' = "rewritten", NEW i \in DOMAIN events,
               events' = [events EXCEPT ![i].content.type = "forged"]
        PROVE  events' \in Seq(Event)
    <3>1. i \in 1 .. Len(events) /\ events[i] \in Event
      BY <1>1
    <3>2. PICK content : content = [events[i].content EXCEPT !.type = "forged"]
      OBVIOUS
    <3>3. content \in Contents
      BY <3>1, <3>2 DEF Event, Contents
    <3>4. PICK event : event = [events[i] EXCEPT !.content = content]
      OBVIOUS
    <3>5. event \in Event
      BY <3>1, <3>3, <3>4 DEF Event
    <3>6. events' = [events EXCEPT ![i] = event]
      BY <2>1, <3>2, <3>4
    <3> QED BY <1>1, <3>1, <3>5, <3>6, ExceptSeq
  <2>2. ASSUME damage' = "cut", events' = Front(events)
        PROVE  events' \in Seq(Event) /\ ChainValid(events')
    <3>1. PICK n \in Nat : n = Len(events) - 1 /\ n <= Len(events)
      BY <1>1
    <3>2. \A i \in 1 .. n : events[i] \in Event
      BY <1>1, <3>1
    <3>3. PICK chain : chain = SubSeq(events, 1, n)
      OBVIOUS
    <3>4. /\ chain \in Seq(Event) /\ Len(chain) = n
          /\ \A i \in 1 .. n : chain[i] = events[i]
      BY <3>1, <3>2, <3>3, SubSeqProperties
    <3>5. ChainValid(chain)
      BY <1>1, <3>1, <3>4, StartIsValid
    <3>6. events' = chain
      BY <2>2, <3>1, <3>3 DEF Front
    <3> QED BY <3>4, <3>5, <3>6
  <2> QED BY <2>1, <2>2 DEF Tamper
<1>3. StoreTypes' /\ OpeningInv'
  BY <1>1, <1>2 DEF StoreInv, StoreTypes, OpeningInv
<1>4. WritingInv'
  <2>1. \A q \in Process : proc'[q].at # "writing"
    BY <1>1, StoreAssumption DEF StoreInv, WritingInv
  <2> QED BY <2>1 DEF WritingInv
<1>5. ChainIsWhole'
  BY <1>2 DEF ChainIsWhole, ChainValid
<1>6. LateInv'
  <2>1. Healthy
    BY <1>1 DEF Healthy
  <2> QED BY <1>1, <2>1 DEF StoreInv, LateInv
<1> QED BY <1>3, <1>4, <1>5, <1>6 DEF StoreInv

-----------------------------------------------------------------------------
(* Replaying the events                                                    *)

Tables == [plans : SUBSET (RunId \cup {None, "not allowed"}),
           runs : [RunId -> RunStatus]]

LEMMA UntoldTyped == Untold \in Tables
BY DEF Untold, Tables, RunStatus

LEMMA TellingTyped ==
  ASSUME NEW state \in Tables, NEW event \in Event
  PROVE  Telling(state, event) \in Tables
<1> DEFINE c == event.content
<1>1. c \in Contents
  BY DEF Event
<1>2. /\ c.type \in {"preview", "run", "status", "purge", "forged"}
      /\ c.subject \in RunId \cup {None} /\ c.to \in RunStatus
  BY <1>1 DEF Contents
<1>3. CASE c.type = "preview"
  <2>1. Telling(state, event) = [state EXCEPT !.plans = @ \cup {c.subject}]
    BY <1>3 DEF Telling
  <2> QED BY <1>2, <2>1 DEF Tables
<1>4. CASE c.type = "purge"
  <2>1. c.type # "preview"
    BY <1>4
  <2>2. Telling(state, event) = Untold
    BY <1>4, <2>1 DEF Telling
  <2> QED BY <2>2, UntoldTyped
<1>5. ASSUME Telling(state, event) = [state EXCEPT !.runs[c.subject] = c.to]
      PROVE  Telling(state, event) \in Tables
  <2>1. PICK subject : subject = c.subject
    OBVIOUS
  <2>2. PICK to \in RunStatus : to = c.to
    BY <1>2
  <2>3. PICK marked : marked = [state.runs EXCEPT ![subject] = to]
    OBVIOUS
  <2>4. marked \in [RunId -> RunStatus]
    BY <2>2, <2>3 DEF Tables
  <2>5. Telling(state, event) = [state EXCEPT !.runs = marked]
    BY <1>5, <2>1, <2>2, <2>3
  <2> QED BY <2>4, <2>5 DEF Tables
<1>6. ASSUME Telling(state, event) = [state EXCEPT !.plans = {"not allowed"}]
      PROVE  Telling(state, event) \in Tables
  BY <1>6 DEF Tables
<1>7. CASE c.type \notin {"preview", "purge"}
  <2>1. \/ Telling(state, event) = [state EXCEPT !.runs[c.subject] = c.to]
        \/ Telling(state, event) = [state EXCEPT !.plans = {"not allowed"}]
    BY <1>2, <1>7 DEF Telling
  <2> QED BY <1>5, <1>6, <2>1
<1> QED BY <1>3, <1>4, <1>7

ReplayRun(chain, it) ==
  \A t \in SUBSET (1 .. Len(chain)) :
    it[t] = IF t = {} THEN Untold
            ELSE Telling(it[t \ {Max(t)}], chain[Max(t)])

\* The last of some places in a chain.
LEMMA LastPlace ==
  ASSUME NEW chain \in Seq(Event), NEW t \in SUBSET (1 .. Len(chain)), t # {}
  PROVE  Max(t) \in t /\ Max(t) \in 1 .. Len(chain)
<1>1. Len(chain) \in Nat /\ t \in SUBSET (0 .. Len(chain))
  OBVIOUS
<1>2. Max(t) \in t
  BY <1>1, Greatest
<1> QED BY <1>2

LEMMA ReplayRuns ==
  ASSUME NEW chain \in Seq(Event)
  PROVE  \E it \in [SUBSET (1 .. Len(chain)) -> Tables] :
           ReplayRun(chain, it) /\ Replay(chain) = it[1 .. Len(chain)]
<1> DEFINE D == 1 .. Len(chain)
           pick == [t \in SUBSET D |-> Max(t)]
           op == [i \in D |-> [state \in Tables |-> Telling(state, chain[i])]]
           Step(it) == [t \in SUBSET D |->
                         IF t = {} THEN Untold
                         ELSE Telling(it[t \ {Max(t)}], chain[Max(t)])]
           run == CHOOSE it : it = Step(it)
<1>1. IsFiniteSet(D) /\ DOMAIN chain = D
  BY FS_Interval
<1>2. Picks(D, pick)
  BY LastPlace DEF Picks
<1>3. op \in [D -> [Tables -> Tables]]
  BY TellingTyped
<1>4. PICK it \in [SUBSET D -> Tables] : IsRun(D, Untold, pick, op, it)
  <2> HIDE DEF D, pick, op
  <2> QED BY <1>1, <1>2, <1>3, UntoldTyped, RunExists
<1>5. ReplayRun(chain, it)
  <2>1. ASSUME NEW t \in SUBSET D, t # {}
        PROVE  it[t] = Telling(it[t \ {Max(t)}], chain[Max(t)])
    <3>1. Max(t) \in D /\ it[t \ {Max(t)}] \in Tables
      BY <2>1, LastPlace
    <3>2. it[t] = op[Max(t)][it[t \ {Max(t)}]]
      BY <1>4, <2>1 DEF IsRun
    <3> QED BY <3>1, <3>2
  <2>2. it[{}] = Untold
    BY <1>4 DEF IsRun
  <2> QED BY <2>1, <2>2 DEF ReplayRun
<1>6. it = Step(it)
  BY <1>5 DEF ReplayRun
<1>7. run = Step(run)
  <2> HIDE DEF Step
  <2> QED BY <1>6
<1>8. ReplayRun(chain, run)
  BY <1>7 DEF ReplayRun
<1>9. Replay(chain) = run[D]
  BY <1>1 DEF Replay, FoldLeft, MapThenFoldSet
<1>10. run[D] = it[D]
  <2> HIDE DEF run
  <2> DEFINE G == {t \in SUBSET D : run[t] = it[t]}
  <2>1. {} \in G
    BY <1>5, <1>8 DEF ReplayRun
  <2>2. ASSUME NEW t \in SUBSET D, t # {}, \A x \in t : t \ {x} \in G
        PROVE  t \in G
    <3>1. t \ {Max(t)} \in G
      BY <2>2, LastPlace
    <3> QED BY <1>5, <1>8, <2>2, <3>1 DEF ReplayRun
  <2>3. SUBSET D \subseteq G
    <3> HIDE DEF G, D
    <3> QED BY <1>1, <2>1, <2>2, SubsetInduction
  <2> QED BY <2>3
<1> QED BY <1>5, <1>9, <1>10

\* One event more is read after all that were there.
LEMMA ReplayAppended ==
  ASSUME NEW chain \in Seq(Event), NEW event \in Event
  PROVE  /\ Replay(chain) \in Tables
         /\ Replay(Append(chain, event)) = Telling(Replay(chain), event)
<1>1. PICK n \in Nat : n = Len(chain)
  OBVIOUS
<1>2. PICK longer \in Seq(Event) :
        /\ longer = Append(chain, event) /\ Len(longer) = n + 1
        /\ longer[n + 1] = event /\ \A i \in 1 .. n : longer[i] = chain[i]
  <2>1. PICK longer : longer = Append(chain, event)
    OBVIOUS
  <2>2. /\ longer \in Seq(Event) /\ Len(longer) = Len(chain) + 1
        /\ longer[Len(chain) + 1] = event
        /\ \A i \in 1 .. Len(chain) : longer[i] = chain[i]
    BY <2>1, AppendProperties
  <2> QED BY <1>1, <2>1, <2>2
<1>3. PICK it \in [SUBSET (1 .. n) -> Tables] :
        ReplayRun(chain, it) /\ Replay(chain) = it[1 .. n]
  BY <1>1, ReplayRuns
<1>4. PICK other \in [SUBSET (1 .. n + 1) -> Tables] :
        ReplayRun(longer, other) /\ Replay(longer) = other[1 .. n + 1]
  BY <1>2, ReplayRuns
<1>5. \A t \in SUBSET (1 .. n) : t \in SUBSET (1 .. n + 1)
  OBVIOUS
<1>6. other[1 .. n] = it[1 .. n]
  <2> DEFINE G == {t \in SUBSET (1 .. n) : other[t] = it[t]}
  <2>1. {} \in G
    BY <1>1, <1>2, <1>3, <1>4 DEF ReplayRun
  <2>2. ASSUME NEW t \in SUBSET (1 .. n), t # {}, \A x \in t : t \ {x} \in G
        PROVE  t \in G
    <3>1. Max(t) \in t /\ Max(t) \in 1 .. n
      BY <1>1, <2>2, LastPlace
    <3>2. other[t \ {Max(t)}] = it[t \ {Max(t)}]
      BY <2>2, <3>1
    <3>3. longer[Max(t)] = chain[Max(t)]
      BY <1>2, <3>1
    <3>4. it[t] = Telling(it[t \ {Max(t)}], chain[Max(t)])
      BY <1>1, <1>3, <2>2 DEF ReplayRun
    <3>5. other[t] = Telling(other[t \ {Max(t)}], longer[Max(t)])
      BY <1>2, <1>4, <1>5, <2>2 DEF ReplayRun
    <3> QED BY <3>2, <3>3, <3>4, <3>5
  <2>3. SUBSET (1 .. n) \subseteq G
    <3>1. IsFiniteSet(1 .. n)
      BY FS_Interval
    <3> HIDE DEF G
    <3> QED BY <2>1, <2>2, <3>1, SubsetInduction
  <2> QED BY <2>3
<1>7. Replay(longer) = Telling(Replay(chain), event)
  <2>1. PICK t \in SUBSET (1 .. n + 1) : t = 1 .. n + 1
    OBVIOUS
  <2>2. t # {} /\ n + 1 \in t /\ t \in SUBSET (0 .. n + 1) /\ n + 1 \in Nat
    <3>1. n + 1 \in Nat /\ n + 1 \in 1 .. n + 1
      OBVIOUS
    <3>2. 1 .. n + 1 \subseteq 0 .. n + 1
      OBVIOUS
    <3> QED BY <2>1, <3>1, <3>2
  <2>3. Max(t) \in t /\ \A k \in t : k <= Max(t)
    BY <2>2, Greatest
  <2>4. Max(t) = n + 1
    <3>1. n + 1 <= Max(t) /\ Max(t) \in Nat /\ Max(t) <= n + 1
      BY <2>1, <2>2, <2>3
    <3> QED BY <3>1
  <2>5. t \ {n + 1} = 1 .. n
    BY <2>1
  <2>6. other[t] = Telling(other[t \ {Max(t)}], longer[Max(t)])
    BY <1>2, <1>4, <2>2 DEF ReplayRun
  <2> QED BY <1>2, <1>3, <1>4, <1>6, <2>1, <2>4, <2>5, <2>6
<1>8. Replay(chain) \in Tables
  BY <1>3
<1> QED BY <1>2, <1>7, <1>8

LEMMA ReplayEmpty == Replay(<<>>) = Untold
<1>1. <<>> \in Seq(Event) /\ Len(<<>>) = 0 /\ 1 .. 0 = {}
  OBVIOUS
<1>2. PICK it : ReplayRun(<<>>, it) /\ Replay(<<>>) = it[1 .. 0]
  BY <1>1, ReplayRuns
<1> QED BY <1>1, <1>2 DEF ReplayRun

-----------------------------------------------------------------------------
(* The events tell the tables                                              *)

Held(p, r) == [plans |-> p, runs |-> r]

HeldWithPlans(p, r) == \A x \in RunId : r[x] # "none" => x \in p

Untouched == damage \in {"none", "pages"}

\* What the events tell is what the tables hold, and with what its transaction
\* inserts what the writer will leave.
TrailInv ==
  /\ Untouched => Replay(events) = Held(plans, runs)
  /\ HeldWithPlans(plans, runs)
  /\ \A p \in Process :
       proc[p].at = "writing" =>
         /\ Untouched => Replay(events \o proc[p].tx.told)
                           = Held(proc[p].tx.plans, proc[p].tx.runs)
         /\ HeldWithPlans(proc[p].tx.plans, proc[p].tx.runs)

\* What is told of the changes that are allowed.
LEMMA TellingPreview ==
  ASSUME NEW p, NEW r, NEW x, NEW event,
         event.content = Content("preview", x, "none", "none")
  PROVE  Telling(Held(p, r), event) = Held(p \cup {x}, r)
BY DEF Telling, Content, Held

LEMMA TellingPurge ==
  ASSUME NEW p, NEW r, NEW event,
         event.content = Content("purge", None, "none", "none")
  PROVE  Telling(Held(p, r), event) = Held({}, [x \in RunId |-> "none"])
BY DEF Telling, Content, Held, Untold

LEMMA TellingRun ==
  ASSUME NEW p, NEW r, NEW x, NEW event, r[x] = "none",
         event.content = Content("run", x, "none", "planned")
  PROVE  Telling(Held(p, r), event) = Held(p, [r EXCEPT ![x] = "planned"])
<1> DEFINE c == event.content
<1>1. c.type = "run" /\ c.subject = x /\ c.to = "planned"
  BY DEF Content
<1>2. Telling(Held(p, r), event) = [Held(p, r) EXCEPT !.runs[x] = "planned"]
  BY <1>1 DEF Telling, Held
<1> QED BY <1>2 DEF Held

LEMMA TellingStatus ==
  ASSUME NEW p, NEW r, NEW x, NEW from, NEW to, NEW event,
         r[x] = from, to \in RunSuccessors(from),
         event.content = Content("status", x, from, to)
  PROVE  Telling(Held(p, r), event) = Held(p, [r EXCEPT ![x] = to])
<1> DEFINE c == event.content
<1>1. c.type = "status" /\ c.subject = x /\ c.from = from /\ c.to = to
  BY DEF Content
<1>2. Telling(Held(p, r), event) = [Held(p, r) EXCEPT !.runs[x] = to]
  BY <1>1 DEF Telling, Held
<1> QED BY <1>2 DEF Held

LEMMA TellingOrphaned ==
  ASSUME NEW p, NEW r, NEW x, NEW event, r[x] = "running",
         event.content = Content("status", x, "running", "orphaned")
  PROVE  Telling(Held(p, r), event) = Held(p, [r EXCEPT ![x] = "orphaned"])
<1>1. PICK from, to : from = "running" /\ to = "orphaned"
  OBVIOUS
<1>2. r[x] = from /\ event.content = Content("status", x, from, to)
  BY <1>1
<1>3. to \in RunSuccessors(from)
  BY <1>1 DEF RunSuccessors, TerminalRun
<1>4. Telling(Held(p, r), event) = Held(p, [r EXCEPT ![x] = to])
  BY <1>2, <1>3, TellingStatus
<1> QED BY <1>1, <1>4

\* A transaction that is allowed starts with the telling of what it changes.
LEMMA AfterIsTold ==
  ASSUME StoreInv, TrailInv, NEW op \in Mutation \cup {NoOp, RecoverRuns},
         ~Refused(op)
  PROVE  /\ Untouched => Replay(events \o After(op).told)
                           = Held(After(op).plans, After(op).runs)
         /\ HeldWithPlans(After(op).plans, After(op).runs)
<1>1. /\ StoreTypes /\ events \in Seq(Event) /\ plans \in SUBSET RunId
      /\ runs \in [RunId -> RunStatus]
      /\ Untouched => Replay(events) = Held(plans, runs)
      /\ HeldWithPlans(plans, runs)
  BY DEF StoreInv, StoreTypes, TrailInv
<1>2. /\ After(op).plans = PlansAfter(op) /\ After(op).runs = RunsAfter(op)
      /\ After(op).told = IF EventOf(op) = NoEvent THEN <<>>
                          ELSE <<Appended(events, EventOf(op))>>
  BY DEF After
<1>3. ASSUME EventOf(op) = NoEvent
      PROVE  events \o After(op).told = events
  BY <1>1, <1>2, <1>3, ConcatEmptySeq
<1>4. ASSUME EventOf(op) # NoEvent
      PROVE  \E event \in Event :
               /\ event.content = EventOf(op)
               /\ Replay(events \o After(op).told)
                    = Telling(Replay(events), event)
  <2>1. PICK content \in Contents : content = EventOf(op)
    BY <1>1, <1>4, EventTyped
  <2>2. PICK event \in Event : event = Appended(events, content)
    BY <1>1, AppendedLinks
  <2>3. event.content = content
    BY <2>2 DEF Appended
  <2>4. After(op).told = <<event>>
    BY <1>2, <1>4, <2>1, <2>2
  <2>5. events \o <<event>> = Append(events, event)
    BY <1>1, AppendIsConcat
  <2> QED BY <1>1, <2>1, <2>3, <2>4, <2>5, ReplayAppended
<1>5. CASE op.kind = "preview"
  <2>1. /\ op.run \in RunId
        /\ EventOf(op) = Content("preview", op.run, "none", "none")
        /\ PlansAfter(op) = plans \cup {op.run} /\ RunsAfter(op) = runs
    BY <1>5, Kinds DEF EventOf, PlansAfter, RunsAfter
  <2>2. EventOf(op) # NoEvent
    BY <2>1 DEF Content, NoEvent
  <2>3. HeldWithPlans(PlansAfter(op), RunsAfter(op))
    BY <1>1, <2>1 DEF HeldWithPlans
  <2>4. PICK event \in Event :
        /\ event.content = EventOf(op)
        /\ Replay(events \o After(op).told) = Telling(Replay(events), event)
    BY <1>4, <2>2
  <2>5. Telling(Held(plans, runs), event) = Held(plans \cup {op.run}, runs)
    BY <2>1, <2>4, TellingPreview
  <2> QED BY <1>1, <1>2, <2>1, <2>3, <2>4, <2>5
<1>6. CASE op.kind = "run"
  <2>1. /\ op.run \in RunId /\ runs[op.run] = "none" /\ op.run \in plans
        /\ EventOf(op) = Content("run", op.run, "none", "planned")
        /\ PlansAfter(op) = plans
        /\ RunsAfter(op) = [runs EXCEPT ![op.run] = "planned"]
    BY <1>6, Kinds DEF EventOf, PlansAfter, RunsAfter, Refused
  <2>2. EventOf(op) # NoEvent
    BY <2>1 DEF Content, NoEvent
  <2>3. HeldWithPlans(PlansAfter(op), RunsAfter(op))
    BY <1>1, <2>1 DEF HeldWithPlans
  <2>4. PICK event \in Event :
        /\ event.content = EventOf(op)
        /\ Replay(events \o After(op).told) = Telling(Replay(events), event)
    BY <1>4, <2>2
  <2>5. Telling(Held(plans, runs), event) = Held(plans, RunsAfter(op))
    <3>1. PICK x : x = op.run
      OBVIOUS
    <3>2. /\ runs[x] = "none"
          /\ event.content = Content("run", x, "none", "planned")
      BY <2>1, <2>4, <3>1
    <3>3. Telling(Held(plans, runs), event)
            = Held(plans, [runs EXCEPT ![x] = "planned"])
      BY <3>2, TellingRun
    <3> QED BY <2>1, <3>1, <3>3
  <2> QED BY <1>1, <1>2, <2>1, <2>3, <2>4, <2>5
<1>7. CASE op.kind = "status"
  <2>1. /\ op.run \in RunId /\ op.to \in RunStatus
        /\ op.to \in RunSuccessors(runs[op.run])
        /\ EventOf(op) = Content("status", op.run, runs[op.run], op.to)
        /\ PlansAfter(op) = plans
        /\ RunsAfter(op) = [runs EXCEPT ![op.run] = op.to]
    BY <1>7, Kinds DEF EventOf, PlansAfter, RunsAfter, Refused
  <2>2. EventOf(op) # NoEvent
    BY <2>1 DEF Content, NoEvent
  <2>3. HeldWithPlans(PlansAfter(op), RunsAfter(op))
    <3>1. runs[op.run] # "none"
      BY <2>1 DEF RunSuccessors
    <3> QED BY <1>1, <2>1, <3>1 DEF HeldWithPlans
  <2>4. PICK event \in Event :
        /\ event.content = EventOf(op)
        /\ Replay(events \o After(op).told) = Telling(Replay(events), event)
    BY <1>4, <2>2
  <2>5. Telling(Held(plans, runs), event) = Held(plans, RunsAfter(op))
    <3>1. PICK x, from, to : x = op.run /\ from = runs[x] /\ to = op.to
      OBVIOUS
    <3>2. /\ runs[x] = from /\ to \in RunSuccessors(from)
          /\ event.content = Content("status", x, from, to)
      BY <2>1, <2>4, <3>1
    <3>3. Telling(Held(plans, runs), event)
            = Held(plans, [runs EXCEPT ![x] = to])
      BY <3>2, TellingStatus
    <3> QED BY <2>1, <3>1, <3>3
  <2> QED BY <1>1, <1>2, <2>1, <2>3, <2>4, <2>5
<1>8. CASE op.kind = "purge"
  <2>1. /\ EventOf(op) = IF plans # {}
                         THEN Content("purge", None, "none", "none")
                         ELSE NoEvent
        /\ PlansAfter(op) = {} /\ RunsAfter(op) = [x \in RunId |-> "none"]
    BY <1>8 DEF EventOf, PlansAfter, RunsAfter
  <2>2. HeldWithPlans(PlansAfter(op), RunsAfter(op))
    BY <2>1 DEF HeldWithPlans
  <2>3. CASE plans = {}
    <3>1. \A x \in RunId : runs[x] = "none"
      BY <1>1, <2>3 DEF HeldWithPlans
    <3>2. runs = [x \in RunId |-> "none"]
      BY <1>1, <3>1
    <3> QED BY <1>1, <1>2, <1>3, <2>1, <2>2, <2>3, <3>2
  <2>4. CASE plans # {}
    <3>1. PICK x \in RunId : x \in plans
      BY <1>1, <2>4
    <3>2. EventOf(op) # NoEvent
      BY <2>1, <2>4 DEF Content, NoEvent
    <3>3. PICK event \in Event :
          /\ event.content = EventOf(op)
          /\ Replay(events \o After(op).told) = Telling(Replay(events), event)
      BY <1>4, <3>2
    <3>4. Telling(Held(plans, runs), event) = Held({}, RunsAfter(op))
      BY <2>1, <2>4, <3>3, TellingPurge
    <3> QED BY <1>1, <1>2, <2>1, <2>2, <3>3, <3>4
  <2> QED BY <2>3, <2>4
<1>9. CASE op.kind \in {"none", "recover"}
  <2>1. /\ EventOf(op) = NoEvent /\ PlansAfter(op) = plans
        /\ RunsAfter(op) = runs
    BY <1>9 DEF EventOf, PlansAfter, RunsAfter
  <2> QED BY <1>1, <1>2, <1>3, <2>1
<1> QED BY <1>5, <1>6, <1>7, <1>8, <1>9, Kinds

\* Nothing but one process moves, and it does not go on writing.
LEMMA TrailStays ==
  ASSUME StoreInv, TrailInv, NEW p \in Process, UNCHANGED <<tables, damage>>,
         \A q \in Process \ {p} : proc'[q] = proc[q],
         proc'[p].at # "writing"
  PROVE  TrailInv'
<1>1. UNCHANGED <<plans, runs, events, damage>>
  BY DEF tables
<1>2. \A q \in Process : proc'[q].at = "writing" => proc'[q] = proc[q]
  OBVIOUS
<1> QED BY <1>1, <1>2 DEF TrailInv, Untouched

\* Where the process that moves is after each step but those of a writer.
LEMMA Elsewhere ==
  ASSUME StoreInv, NEW p \in Process,
         \/ Open(p) \/ Refuse(p) \/ Rollback(p) \/ Leave(p)
         \/ \E op \in Mutation : Request(p, op)
  PROVE  /\ UNCHANGED <<tables, damage>>
         /\ \A q \in Process \ {p} : proc'[q] = proc[q]
         /\ proc'[p].at # "writing"
<1>1. StoreTypes /\ proc \in [Process -> User] /\ Down.at = "down"
  BY DEF StoreInv, StoreTypes, Down
<1>2. ASSUME OpenRecovery(p)
      PROVE  /\ \A q \in Process \ {p} : proc'[q] = proc[q]
             /\ proc'[p].at # "writing"
  BY <1>1, <1>2, RecoveryOpens
<1>3. ASSUME Thrown(p)
      PROVE  /\ \A q \in Process \ {p} : proc'[q] = proc[q]
             /\ proc'[p].at # "writing"
  BY <1>1, <1>3, ThrownMoves
<1>4. CASE Open(p)
  <2>1. CASE Start(p)
    BY <1>1, <2>1 DEF Start
  <2>2. CASE LookUpMigration(p)
    BY <1>1, <2>2 DEF LookUpMigration, To, User
  <2>3. CASE ApplyMigration(p)
    BY <1>1, <1>2, <2>3 DEF ApplyMigration, User
  <2>4. CASE OpenFails(p)
    BY <1>2, <2>4 DEF OpenFails
  <2>5. CASE VerifyOnOpen(p)
    BY <1>1, <1>2, <2>5 DEF VerifyOnOpen, User
  <2>6. CASE BeginRecoverRuns(p)
    BY <1>1, <2>6 DEF BeginRecoverRuns, To, User
  <2> QED BY <1>4, <2>1, <2>2, <2>3, <2>4, <2>5, <2>6 DEF Open
<1>5. CASE Refuse(p)
  BY <1>3, <1>5 DEF Refuse
<1>6. CASE Rollback(p)
  BY <1>3, <1>6 DEF Rollback
<1>7. CASE Leave(p)
  BY <1>1, <1>7 DEF Leave
<1>8. CASE \E op \in Mutation : Request(p, op)
  BY <1>1, <1>8 DEF Request, User
<1> QED BY <1>4, <1>5, <1>6, <1>7, <1>8

LEMMA TrailStep ==
  ASSUME StoreInv, TrailInv, [Next]_vars
  PROVE  TrailInv'
<1>1. /\ StoreTypes /\ proc \in [Process -> User] /\ events \in Seq(Event)
      /\ runs \in [RunId -> RunStatus]
  BY DEF StoreInv, StoreTypes
<1>2. ASSUME NEW p \in Process, Begin(p)
      PROVE  TrailInv'
  <2>1. PICK op \in Mutation \cup {NoOp, RecoverRuns} : op = proc[p].op
    BY <1>1 DEF User
  <2>2. PICK tx : tx = After(op)
    OBVIOUS
  <2>3. /\ Untouched => Replay(events \o tx.told) = Held(tx.plans, tx.runs)
        /\ HeldWithPlans(tx.plans, tx.runs)
    BY <1>2, <2>1, <2>2, AfterIsTold DEF Begin
  <2>4. /\ UNCHANGED <<plans, runs, events, damage>>
        /\ proc' = [proc EXCEPT ![p].at = "writing", ![p].tx = tx]
    BY <1>2, <2>1, <2>2 DEF Begin, tables
  <2>5. /\ \A q \in Process \ {p} : proc'[q] = proc[q]
        /\ proc'[p].tx = tx
    BY <1>1, <2>4 DEF User
  <2> QED BY <2>3, <2>4, <2>5 DEF TrailInv, Untouched
<1>3. ASSUME NEW p \in Process, RecoverRow(p)
      PROVE  TrailInv'
  <2>1. PICK r \in Unrecovered(p) :
          proc' = [proc EXCEPT
                  ![p].tx.runs[r] = "orphaned",
                  ![p].tx.told = Append(@, Appended(events \o @,
                     Content("status", r, "running", "orphaned")))]
    BY <1>3 DEF RecoverRow
  <2>2. /\ UNCHANGED <<plans, runs, events, damage>>
        /\ proc[p].at = "writing" /\ proc[p].tx \in OpenTx
    BY <1>3 DEF RecoverRow, tables, StoreInv, WritingInv
  <2>3. PICK marked \in [RunId -> RunStatus], told \in Seq(Event) :
          marked = proc[p].tx.runs /\ told = proc[p].tx.told
    BY <2>2 DEF OpenTx
  <2>4. PICK content \in Contents :
          content = Content("status", r, "running", "orphaned")
    <3>1. r \in RunId
      BY DEF Unrecovered
    <3> QED BY <3>1 DEF Content, Contents, RunStatus
  <2>5. PICK chain \in Seq(Event) : chain = events \o told
    BY <1>1, ConcatProperties
  <2>6. PICK event \in Event : event = Appended(chain, content)
    BY AppendedLinks
  <2>7. events \o Append(told, event) = Append(chain, event)
    <3>1. /\ Append(told, event) = told \o <<event>>
          /\ Append(chain, event) = chain \o <<event>>
      BY AppendIsConcat
    <3>2. <<event>> \in Seq(Event)
      OBVIOUS
    <3> QED BY <1>1, <2>5, <3>1, <3>2, ConcatAssociative
  <2>8. PICK u : u = proc[p].tx
    OBVIOUS
  <2>9. PICK tx :
          tx = [u EXCEPT !.runs = [marked EXCEPT ![r] = "orphaned"],
                         !.told = Append(told, event)]
    OBVIOUS
  <2>10. /\ \A q \in Process \ {p} : proc'[q] = proc[q]
         /\ proc'[p].tx = tx
    <3>1. PICK v : v = [proc[p] EXCEPT !.tx = tx]
      OBVIOUS
    <3>2. proc' = [proc EXCEPT ![p] = v]
      BY <2>1, <2>2, <2>3, <2>4, <2>5, <2>6, <2>8, <2>9, <3>1
    <3>3. v.tx = tx
      BY <1>1, <3>1 DEF User
    <3> QED BY <1>1, <3>2, <3>3
  <2>11. /\ tx.plans = u.plans /\ tx.told = Append(told, event)
         /\ tx.runs = [marked EXCEPT ![r] = "orphaned"]
    BY <2>2, <2>8, <2>9 DEF OpenTx
  <2>12. /\ Untouched => Replay(chain) = Held(u.plans, marked)
         /\ HeldWithPlans(u.plans, marked)
    BY <2>2, <2>3, <2>5, <2>8 DEF TrailInv
  <2>13. r \in RunId /\ marked[r] = "running"
    BY <2>3 DEF Unrecovered
  <2>14. Untouched => Replay(events \o tx.told) = Held(tx.plans, tx.runs)
    <3> SUFFICES ASSUME Untouched
                 PROVE  Replay(Append(chain, event))
                          = Held(u.plans, [marked EXCEPT ![r] = "orphaned"])
      BY <2>7, <2>11
    <3>1. Replay(Append(chain, event)) = Telling(Held(u.plans, marked), event)
      BY <2>12, ReplayAppended
    <3>2. event.content = Content("status", r, "running", "orphaned")
      BY <2>4, <2>6 DEF Appended
    <3>3. PICK rows : rows = u.plans
      OBVIOUS
    <3>4. Telling(Held(rows, marked), event)
            = Held(rows, [marked EXCEPT ![r] = "orphaned"])
      BY <2>13, <3>2, TellingOrphaned
    <3> QED BY <3>1, <3>3, <3>4
  <2>15. HeldWithPlans(tx.plans, tx.runs)
    BY <2>11, <2>12, <2>13 DEF HeldWithPlans
  <2> QED BY <2>2, <2>10, <2>14, <2>15 DEF TrailInv, Untouched
<1>4. ASSUME NEW p \in Process, Commit(p)
      PROVE  TrailInv'
  <2>1. /\ proc[p].at = "writing" /\ lock = p
        /\ plans' = proc[p].tx.plans /\ runs' = proc[p].tx.runs
        /\ events' = events \o proc[p].tx.told /\ damage' = damage
        /\ proc' = [proc EXCEPT ![p].at = "up", ![p].op = NoOp, ![p].tx = NoTx]
    BY <1>4 DEF Commit, StoreInv, WritingInv
  <2>2. \A q \in Process : proc'[q].at # "writing"
    <3>1. proc'[p].at = "up" /\ \A q \in Process \ {p} : proc'[q] = proc[q]
      BY <1>1, <2>1 DEF User
    <3> QED BY <2>1, <3>1 DEF StoreInv, WritingInv
  <2> QED BY <2>1, <2>2 DEF TrailInv, Untouched
<1>5. CASE Rot
  BY <1>5 DEF Rot, tables, TrailInv, Untouched
<1>6. CASE Tamper
  <2>1. /\ UNCHANGED <<plans, runs>> /\ damage' \in {"rewritten", "cut"}
        /\ \A q \in Process : proc'[q].at # "writing"
    BY <1>6, StoreAssumption DEF Tamper, StoreInv, WritingInv
  <2> QED BY <2>1 DEF TrailInv, Untouched
<1>7. CASE UNCHANGED vars
  BY <1>7 DEF vars, tables, TrailInv, Untouched
<1> QED BY <1>2, <1>3, <1>4, <1>5, <1>6, <1>7, Elsewhere, TrailStays
        DEF Next, Write

-----------------------------------------------------------------------------
(* The theorems                                                            *)

\* The store stays as it should be, whoever opens it, writes and dies.
THEOREM StoreInOrder == Spec => []StoreInv
<1>1. Init => StoreInv
  <2> SUFFICES ASSUME Init
               PROVE  StoreInv
    OBVIOUS
  <2>1. /\ applied = <<>> /\ events = <<>> /\ damage = "none" /\ lock = None
        /\ plans = {} /\ runs = [r \in RunId |-> "none"]
        /\ proc = [p \in Process |-> Down] /\ late = [p \in Process |-> 0]
    BY DEF Init
  <2>2. Down.at = "down" /\ Down.writable = FALSE
    BY DEF Down
  <2>3. StoreTypes
    BY <2>1, DownIsUser DEF StoreTypes, RunStatus
  <2>4. OpeningInv /\ WritingInv /\ LateInv
    BY <2>1, <2>2 DEF OpeningInv, WritingInv, LateInv
  <2>5. ChainIsWhole
    BY <2>1 DEF ChainIsWhole, ChainValid
  <2> QED BY <2>3, <2>4, <2>5 DEF StoreInv
<1>2. StoreInv /\ [Next]_vars => StoreInv'
  <2> SUFFICES ASSUME StoreInv, [Next]_vars
               PROVE  StoreInv'
    OBVIOUS
  <2>1. CASE UNCHANGED vars
    <3>1. UNCHANGED <<applied, plans, runs, events, damage, lock, proc, late>>
      BY <2>1 DEF vars, tables
    <3>2. StoreTypes' /\ OpeningInv' /\ ChainIsWhole' /\ WritingInv'
      BY <3>1 DEF StoreInv, StoreTypes, OpeningInv, ChainIsWhole, ChainValid,
                  WritingInv
    <3>3. Healthy' <=> Healthy
      BY <3>1 DEF Healthy, ChainValid
    <3>4. LateInv'
      BY <3>1, <3>3 DEF StoreInv, LateInv
    <3> QED BY <3>2, <3>4 DEF StoreInv
  <2> QED BY <2>1, OpenKeeps, WriteKeeps, CommitKeeps, RotKeeps, TamperKeeps
          DEF Next, Write
<1> QED BY <1>1, <1>2, PTL DEF Spec

\* The chain of events is whole unless an event was rewritten from outside,
\* whatever the writers, crashes and rollbacks.
THEOREM ChainsAreWhole == Spec => []ChainIsWhole
BY StoreInOrder, PTL DEF StoreInv

\* Every migration is applied once and in its place, and whoever may write has
\* all it knows applied.
THEOREM MigrationsAreOnce == Spec => []MigrationsApplyOnce
<1>1. StoreInv => MigrationsApplyOnce
  <2> SUFFICES ASSUME StoreInv
               PROVE  MigrationsApplyOnce
    OBVIOUS
  <2>1. /\ DOMAIN applied = 1 .. Len(applied) /\ Len(applied) \in Nat
        /\ \A v \in Nat : v \in Range(applied) <=> v \in 1 .. Len(applied)
        /\ \A p \in Process : proc[p].build \in Nat
    BY AppliedAreFirst DEF StoreInv, StoreTypes, User
  <2>2. \A i \in DOMAIN applied : applied[i] = i
    BY <2>1 DEF StoreInv, OpeningInv
  <2>3. ASSUME NEW p \in Process, proc[p].writable
        PROVE  1 .. proc[p].build \subseteq Range(applied)
    <3>1. proc[p].build <= Len(applied)
      BY <2>3 DEF StoreInv, OpeningInv
    <3>2. \A v \in 1 .. proc[p].build : v \in Nat /\ v \in 1 .. Len(applied)
      BY <2>1, <3>1
    <3> QED BY <2>1, <3>2
  <2> QED BY <2>2, <2>3 DEF MigrationsApplyOnce
<1> QED BY <1>1, StoreInOrder, PTL

\* Once the pages are damaged or the chain is broken a process commits at most
\* the one mutation it had been cleared for.
THEOREM DamageStops == Spec => []DamageStopsWriting
<1>1. StoreInv => DamageStopsWriting
  BY DEF StoreInv, LateInv, DamageStopsWriting
<1> QED BY <1>1, StoreInOrder, PTL

\* What the events tell, replayed from the first, is exactly what the tables
\* hold, and every step of it is allowed.
THEOREM TrailsTellState == Spec => []TrailTellsState
<1>1. Init => TrailInv
  <2> SUFFICES ASSUME Init
               PROVE  TrailInv
    OBVIOUS
  <2>1. Replay(events) = Held(plans, runs)
    BY ReplayEmpty DEF Init, Untold, Held
  <2>2. \A p \in Process : proc[p].at = "down"
    BY DEF Init, Down
  <2> QED BY <2>1, <2>2 DEF Init, TrailInv, HeldWithPlans
<1>2. StoreInv /\ TrailInv /\ [Next]_vars => TrailInv'
  BY TrailStep
<1>3. TrailInv => TrailTellsState
  BY DEF TrailInv, TrailTellsState, Untouched, Held
<1> QED BY <1>1, <1>2, <1>3, StoreInOrder, PTL DEF Spec

=============================================================================
