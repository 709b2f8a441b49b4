-------------------------- MODULE ChunkTransferTypes ---------------------------
(***************************************************************************)
(* Type correctness of ChunkTransfer for every number of chunks,          *)
(* downloaders and workers, and the lemmas about queues it rests on.       *)
(***************************************************************************)
EXTENDS ChunkTransfer, FiniteSetTheorems, TLAPS

(***************************************************************************)
(* Queues.                                                                 *)
(***************************************************************************)

\* What PushBack does to the contents of a queue.
LEMMA AppendFacts ==
    ASSUME NEW s \in Seq(Chunks), NEW c \in Chunks
    PROVE  /\ Append(s, c) \in Seq(Chunks)
           /\ Range(Append(s, c)) = Range(s) \cup {c}
           /\ NoRepeat(s) /\ c \notin Range(s) => NoRepeat(Append(s, c))
<1> DEFINE t == Append(s, c)
<1>1. /\ t \in Seq(Chunks)
      /\ Len(t) = Len(s) + 1
      /\ Len(s) \in Nat
      /\ t[Len(s) + 1] = c
      /\ \A i \in 1..Len(s) : t[i] = s[i]
      /\ DOMAIN t = 1..(Len(s) + 1)
      /\ DOMAIN s = 1..Len(s)
  OBVIOUS
<1>2. Range(t) = Range(s) \cup {c}
  BY <1>1 DEF Range
<1>3. ASSUME NoRepeat(s), c \notin Range(s) PROVE NoRepeat(t)
  BY <1>1, <1>3 DEF NoRepeat, Range
<1> QED
  BY <1>1, <1>2, <1>3

\* What Pop does to the contents of a queue.
LEMMA TailFacts ==
    ASSUME NEW s \in Seq(Chunks), s # << >>
    PROVE  /\ Tail(s) \in Seq(Chunks)
           /\ Head(s) \in Chunks
           /\ Range(s) = Range(Tail(s)) \cup {Head(s)}
           /\ NoRepeat(s) => NoRepeat(Tail(s)) /\ Head(s) \notin Range(Tail(s))
<1> DEFINE t == Tail(s)
<1>1. /\ t \in Seq(Chunks)
      /\ Head(s) = s[1]
      /\ Head(s) \in Chunks
      /\ Len(s) \in Nat \ {0}
      /\ Len(t) = Len(s) - 1
      /\ \A i \in 1..Len(t) : t[i] = s[i + 1]
      /\ DOMAIN t = 1..Len(t)
      /\ DOMAIN s = 1..Len(s)
  OBVIOUS
<1>2. \A i \in 2..Len(s) : i - 1 \in 1..Len(t) /\ t[i - 1] = s[i]
  BY <1>1
<1>3. Range(s) = Range(t) \cup {Head(s)}
  <2>1. \A c \in Range(s) : c \in Range(t) \cup {Head(s)}
    <3>1. SUFFICES ASSUME NEW i \in 1..Len(s)
                   PROVE  s[i] \in Range(t) \cup {Head(s)}
      BY <1>1 DEF Range
    <3>2. CASE i = 1
      BY <1>1, <3>2
    <3>3. CASE i # 1
      <4>1. i - 1 \in 1..Len(t) /\ t[i - 1] = s[i]
        BY <1>1, <1>2, <3>3
      <4> QED
        BY <1>1, <4>1 DEF Range
    <3> QED
      BY <3>2, <3>3
  <2>2. \A c \in Range(t) : c \in Range(s)
    <3>1. \A i \in 1..Len(t) : i + 1 \in 1..Len(s)
      BY <1>1
    <3> QED
      BY <1>1, <3>1 DEF Range
  <2>3. Head(s) \in Range(s)
    BY <1>1 DEF Range
  <2> QED
    BY <2>1, <2>2, <2>3
<1>4. ASSUME NoRepeat(s) PROVE NoRepeat(t) /\ Head(s) \notin Range(t)
  BY <1>1, <1>4 DEF NoRepeat, Range
<1> QED
  BY <1>1, <1>3, <1>4

\* What PushShuffledList does to the contents of a queue.
LEMMA ShuffleFacts ==
    ASSUME NEW s \in Seq(Chunks), NEW S \in SUBSET Chunks, NEW q \in Shuffles(S)
    PROVE  /\ s \o q \in Seq(Chunks)
           /\ Range(s \o q) = Range(s) \cup S
           /\ NoRepeat(s) /\ Range(s) \cap S = {} => NoRepeat(s \o q)
<1> DEFINE t == s \o q
<1>1. IsFiniteSet(S) /\ Cardinality(S) \in Nat
  BY ChunksAssumption, FS_Subset, FS_CardinalityType
<1>2. /\ q \in [1..Cardinality(S) -> S]
      /\ \A i, j \in 1..Cardinality(S) : q[i] = q[j] => i = j
      /\ \A c \in S : \E i \in 1..Cardinality(S) : q[i] = c
  BY DEF Shuffles, Bijection, Injection, Surjection, IsInjective
<1>3. q \in Seq(S) /\ Len(q) = Cardinality(S)
  BY <1>1, <1>2
<1>4. /\ t \in Seq(Chunks)
      /\ Len(t) = Len(s) + Len(q)
      /\ Len(s) \in Nat
      /\ \A i \in 1..Len(s) : t[i] = s[i]
      /\ \A i \in 1..Len(q) : t[Len(s) + i] = q[i]
      /\ DOMAIN t = 1..(Len(s) + Len(q))
      /\ DOMAIN s = 1..Len(s)
  BY <1>1, <1>3
<1>5. \A i \in 1..Len(t) : i \in 1..Len(s) \/ (i - Len(s) \in 1..Len(q) /\ t[i] = q[i - Len(s)])
  BY <1>1, <1>3, <1>4
<1>6. Range(t) = Range(s) \cup S
  <2>1. \A c \in S : \E i \in 1..Len(q) : t[Len(s) + i] = c /\ Len(s) + i \in 1..Len(t)
    BY <1>1, <1>2, <1>3, <1>4
  <2>2. \A i \in 1..Len(s) : i \in 1..Len(t)
    BY <1>1, <1>3, <1>4
  <2>3. \A c \in Range(t) : c \in Range(s) \cup S
    BY <1>2, <1>3, <1>4, <1>5 DEF Range
  <2>4. \A c \in Range(s) \cup S : c \in Range(t)
    BY <1>4, <2>1, <2>2 DEF Range
  <2> QED
    BY <2>3, <2>4
<1>7. ASSUME NoRepeat(s), Range(s) \cap S = {} PROVE NoRepeat(t)
  <2>1. \A i \in 1..Len(s) : t[i] \notin S
    BY <1>4, <1>7 DEF Range
  <2>2. \A i \in 1..Len(t) : i \notin 1..Len(s) => t[i] \in S
    BY <1>1, <1>2, <1>3, <1>5
  <2>3. SUFFICES ASSUME NEW i \in 1..Len(t), NEW j \in 1..Len(t), t[i] = t[j] PROVE i = j
    BY DEF NoRepeat
  <2>4. CASE i \in 1..Len(s)
    BY <1>4, <1>7, <2>1, <2>2, <2>3, <2>4 DEF NoRepeat
  <2>5. CASE i \notin 1..Len(s)
    <3>1. j \notin 1..Len(s)
      BY <2>1, <2>2, <2>3, <2>5
    <3>2. q[i - Len(s)] = q[j - Len(s)]
      BY <1>5, <2>3, <2>5, <3>1
    <3>3. i - Len(s) = j - Len(s)
      BY <1>2, <1>3, <1>5, <2>5, <3>1, <3>2
    <3> QED
      BY <1>4, <3>3
  <2> QED
    BY <2>4, <2>5
<1> QED
  BY <1>4, <1>6, <1>7

(***************************************************************************)
(* Processes and their downloaders.                                        *)
(***************************************************************************)
LEMMA HomeFacts ==
    /\ \A p \in Procs : Home(p) \in Downloaders
    /\ \A d \in Downloaders : d \in Procs /\ d \notin Workers /\ Home(d) = d
    /\ \A w \in Workers : w \in Procs /\ w \notin Downloaders /\ Home(w) = Owner[w]
    /\ Peers \subseteq Downloaders
BY ProcsAssumption DEF Home, Procs, Peers

(***************************************************************************)
(* Type correctness, with HandOK, which it needs for PushBack.             *)
(***************************************************************************)
TypeInv == TypeOK /\ HandOK

\* The initial states.
LEMMA TypeInit == Init => TypeInv
<1> SUFFICES ASSUME Init PROVE TypeInv
  OBVIOUS
<1>1. queue \in [Downloaders -> Seq(Chunks)]
  <2>1. \A q \in Shuffles(Chunks) : q \in Seq(Chunks)
    <3> SUFFICES ASSUME NEW q \in Shuffles(Chunks) PROVE q \in Seq(Chunks)
      OBVIOUS
    <3>1. Cardinality(Chunks) \in Nat /\ q \in [1..Cardinality(Chunks) -> Chunks]
      BY ChunksAssumption, FS_CardinalityType DEF Shuffles, Bijection, Injection
    <3> QED
      BY <3>1
  <2>2. queue \in [Downloaders -> Shuffles(Chunks) \cup {<< >>}]
    BY DEF Init
  <2>3. << >> \in Seq(Chunks)
    OBVIOUS
  <2>4. Shuffles(Chunks) \cup {<< >>} \subseteq Seq(Chunks)
    BY <2>1, <2>3, Zenon
  <2> QED
    BY <2>2, <2>4, Zenon
<1>2. /\ pc \in [Procs -> DispatcherPC \cup WorkerPC]
      /\ \A d \in Downloaders : pc[d] \in DispatcherPC
      /\ \A w \in Workers : pc[w] \in WorkerPC
  BY ProcsAssumption DEF Init, Procs, DispatcherPC, WorkerPC
<1>3. HandOK
  BY ChunksAssumption DEF Init, HandOK, Holding
<1> QED
  BY <1>1, <1>2, <1>3 DEF Init, TypeInv, TypeOK

\* The step moves process p to v.
MovesTo(p, v) ==
    /\ pc' = [pc EXCEPT ![p] = v]
    /\ p \in Downloaders => v \in DispatcherPC
    /\ p \in Workers => v \in WorkerPC

\* The part of TypeOK about pc, after a step that moves one process.
LEMMA MoveType ==
    ASSUME TypeOK, NEW p \in Procs, NEW v, MovesTo(p, v)
    PROVE  /\ pc' \in [Procs -> DispatcherPC \cup WorkerPC]
           /\ \A d \in Downloaders : pc'[d] \in DispatcherPC
           /\ \A w \in Workers : pc'[w] \in WorkerPC
           /\ pc'[p] = v
           /\ \A r \in Procs : r # p => pc'[r] = pc[r]
BY HomeFacts DEF TypeOK, Procs, MovesTo

\* A step that only moves p, between two places with a chunk in hand or two
\* places without one.
LEMMA QuietType ==
    ASSUME TypeInv, NEW p \in Procs, NEW v, MovesTo(p, v),
           pc[p] \in Holding <=> v \in Holding,
           UNCHANGED <<status, queue, avail, num, hand>>,
           received' \in [Downloaders -> Nat], total' \in Nat,
           stale' \in BOOLEAN, cancelled' \in BOOLEAN, completed' \in BOOLEAN,
           UNCHANGED <<peers, idle, exitCode, tail>>
    PROVE  TypeInv'
<1>1. TypeOK'
  BY MoveType DEF TypeInv, TypeOK, peers, tail
<1>2. HandOK'
  BY MoveType DEF TypeInv, HandOK
<1> QED
  BY <1>1, <1>2 DEF TypeInv


\* A step of CompleteOne by any process.
LEMMA CompleteOneType ==
    ASSUME TypeInv, NEW p \in Procs, CompleteOne(p) PROVE TypeInv'
<1> USE DEF table, stats, peers, timer, flags, tail
<1>0. Home(p) \in Downloaders /\ After(p) \in {"tally", "loop"}
  BY HomeFacts DEF After
<1>1. MovesTo(p, pc'[p]) /\ pc'[p] \notin Holding
  BY HomeFacts DEF CompleteOne, AddOne, LoadNum, DownloadCancel, StoreCompleted, After,
     MovesTo, TypeInv, TypeOK, DispatcherPC, WorkerPC, Holding
<1>2. CASE AddOne(p)
  <2>1. TypeOK'
    BY <1>0, <1>1, <1>2, MoveType DEF TypeInv, TypeOK, AddOne
  <2>2. HandOK'
    BY <1>1, <1>2, MoveType, ChunksAssumption DEF TypeInv, TypeOK, HandOK, AddOne
  <2> QED
    BY <2>1, <2>2 DEF TypeInv
<1>3. CASE LoadNum(p)
  BY <1>1, <1>3, QuietType DEF TypeInv, TypeOK, LoadNum, Holding
<1>4. CASE DownloadCancel(p)
  BY <1>1, <1>4, QuietType DEF TypeInv, TypeOK, DownloadCancel, Holding
<1>5. CASE StoreCompleted(p)
  BY <1>1, <1>5, QuietType DEF TypeInv, TypeOK, StoreCompleted, Holding
<1> QED
  BY <1>2, <1>3, <1>4, <1>5 DEF CompleteOne

\* PushBack keeps the types.
LEMMA PushBackType ==
    ASSUME TypeInv, NEW p \in Procs, PushBack(p) PROVE TypeInv'
<1> USE DEF table, stats, peers, timer, flags, tail
<1>1. MovesTo(p, pc'[p]) /\ pc'[p] \notin Holding
  BY HomeFacts DEF PushBack, MovesTo, TypeInv, TypeOK, DispatcherPC, WorkerPC, Holding
<1>2. hand[p] \in Chunks /\ queue[Home(p)] \in Seq(Chunks)
  BY HomeFacts DEF PushBack, TypeInv, TypeOK, HandOK, Holding
<1>3. queue' \in [Downloaders -> Seq(Chunks)]
  BY <1>2, HomeFacts, AppendFacts DEF PushBack, TypeInv, TypeOK
<1>4. TypeOK'
  BY <1>1, <1>3, MoveType DEF TypeInv, TypeOK, PushBack
<1>5. HandOK'
  BY <1>1, MoveType, ChunksAssumption DEF TypeInv, TypeOK, HandOK, PushBack
<1> QED
  BY <1>4, <1>5 DEF TypeInv

\* The dispatchers keep the types.
LEMMA DispatcherType ==
    ASSUME TypeInv, NEW d \in Downloaders, Dispatcher(d) PROVE TypeInv'
<1> USE DEF table, stats, peers, timer, flags, tail
<1>0. d \in Procs /\ d \notin Workers
  BY HomeFacts
<1>1. CASE Start(d)
  <2>1. MovesTo(d, pc'[d]) /\ (pc[d] \in Holding <=> pc'[d] \in Holding)
    BY <1>0, <1>1 DEF Start, MovesTo, TypeInv, TypeOK, DispatcherPC, Holding
  <2> QED
    BY <1>0, <1>1, <2>1, QuietType DEF Start, TypeInv, TypeOK
<1>2. CASE CheckLoop(d)
  <2>1. MovesTo(d, pc'[d]) /\ (pc[d] \in Holding <=> pc'[d] \in Holding)
    BY <1>0, <1>2 DEF CheckLoop, MovesTo, TypeInv, TypeOK, DispatcherPC, Holding
  <2> QED
    BY <1>0, <1>2, <2>1, QuietType DEF CheckLoop, TypeInv, TypeOK
<1>3. CASE CheckReady(d)
  <2>1. MovesTo(d, pc'[d]) /\ (pc[d] \in Holding <=> pc'[d] \in Holding)
    BY <1>0, <1>3 DEF CheckReady, MovesTo, TypeInv, TypeOK, DispatcherPC, Holding
  <2> QED
    BY <1>0, <1>3, <2>1, QuietType DEF CheckReady, TypeInv, TypeOK
<1>4. CASE PopEmpty(d)
  <2>1. MovesTo(d, pc'[d]) /\ (pc[d] \in Holding <=> pc'[d] \in Holding)
    BY <1>0, <1>4 DEF PopEmpty, MovesTo, TypeInv, TypeOK, DispatcherPC, Holding
  <2> QED
    BY <1>0, <1>4, <2>1, QuietType DEF PopEmpty, TypeInv, TypeOK
<1>5. CASE ClaimLost(d)
  <2>1. MovesTo(d, pc'[d]) /\ (pc[d] \in Holding <=> pc'[d] \in Holding)
    BY <1>0, <1>5 DEF ClaimLost, MovesTo, TypeInv, TypeOK, DispatcherPC, Holding
  <2> QED
    BY <1>0, <1>5, <2>1, QuietType DEF ClaimLost, TypeInv, TypeOK
<1>6. CASE Leave(d)
  <2>1. MovesTo(d, pc'[d]) /\ (pc[d] \in Holding <=> pc'[d] \in Holding)
    BY <1>0, <1>6 DEF Leave, MovesTo, TypeInv, TypeOK, DispatcherPC, Holding
  <2> QED
    BY <1>0, <1>6, <2>1, QuietType DEF Leave, TypeInv, TypeOK
<1>7. CASE Pop(d)
  <2>1. Tail(queue[d]) \in Seq(Chunks) /\ Head(queue[d]) \in Chunks
    BY <1>7, TailFacts DEF Pop, TypeInv, TypeOK
  <2>2. MovesTo(d, pc'[d]) /\ pc'[d] \in Holding
    BY <1>0, <1>7, <2>1 DEF Pop, MovesTo, TypeInv, TypeOK, DispatcherPC, Holding
  <2>3. TypeOK'
    BY <1>0, <1>7, <2>1, <2>2, MoveType DEF TypeInv, TypeOK, Pop
  <2>4. HandOK'
    BY <1>0, <1>7, <2>1, <2>2, MoveType DEF TypeInv, TypeOK, HandOK, Pop
  <2> QED
    BY <2>3, <2>4 DEF TypeInv
<1>8. CASE Claim(d)
  <2>1. MovesTo(d, "send") /\ hand[d] \in Chunks
    BY <1>0, <1>8 DEF Claim, MovesTo, TypeInv, HandOK, DispatcherPC, Holding
  <2>2. TypeOK'
    BY <1>0, <1>8, <2>1, MoveType DEF TypeInv, TypeOK, Claim
  <2>3. HandOK'
    BY <1>0, <1>8, <2>1, MoveType DEF TypeInv, HandOK, Claim, Holding
  <2> QED
    BY <2>2, <2>3 DEF TypeInv
<1>9. ASSUME NEW w \in Workers, Send(d, w) PROVE TypeInv'
  <2>0. w \in Procs /\ w # d /\ w \notin Downloaders
    BY HomeFacts
  <2>1. hand[d] \in Chunks
    BY <1>0, <1>9 DEF Send, TypeInv, HandOK, Holding
  <2>2. /\ pc' \in [Procs -> DispatcherPC \cup WorkerPC]
        /\ pc'[d] = "loop" /\ pc'[w] = "got"
        /\ \A r \in Procs \ {d, w} : pc'[r] = pc[r]
    BY <1>0, <1>9, <2>0 DEF Send, TypeInv, TypeOK, DispatcherPC, WorkerPC
  <2>3. /\ hand' \in [Procs -> Chunks \cup {NoChunk}]
        /\ hand'[d] = NoChunk /\ hand'[w] = hand[d]
        /\ \A r \in Procs \ {d, w} : hand'[r] = hand[r]
    BY <1>0, <1>9, <2>0, <2>1 DEF Send, TypeInv, TypeOK
  <2>4. /\ \A r \in Downloaders : pc'[r] \in DispatcherPC
        /\ \A r \in Workers : pc'[r] \in WorkerPC
    BY <1>0, <2>0, <2>2, HomeFacts DEF TypeInv, TypeOK, DispatcherPC, WorkerPC
  <2>5. TypeOK'
    BY <1>9, <2>2, <2>3, <2>4 DEF Send, TypeInv, TypeOK
  <2>6. HandOK'
    BY <2>0, <2>1, <2>2, <2>3, ChunksAssumption DEF TypeInv, HandOK, Holding
  <2> QED
    BY <2>5, <2>6 DEF TypeInv
<1>10. CASE PushBack(d)
  BY <1>0, <1>10, PushBackType
<1>11. CASE CompleteOne(d)
  BY <1>0, <1>11, CompleteOneType
<1> QED
  BY <1>1, <1>2, <1>3, <1>4, <1>5, <1>6, <1>7, <1>8, <1>9, <1>10, <1>11 DEF Dispatcher

\* The workers keep the types.
LEMMA WorkerType ==
    ASSUME TypeInv, NEW w \in Workers, Worker(w) PROVE TypeInv'
<1> USE DEF table, stats, peers, timer, flags, tail
<1>0. w \in Procs /\ w \notin Downloaders /\ Owner[w] \in Downloaders
  BY HomeFacts, ProcsAssumption
<1>1. CASE Begin(w)
  <2>1. MovesTo(w, pc'[w]) /\ (pc[w] \in Holding <=> pc'[w] \in Holding)
    BY <1>0, <1>1 DEF Begin, MovesTo, TypeInv, TypeOK, WorkerPC, Holding
  <2> QED
    BY <1>0, <1>1, <2>1, QuietType DEF Begin, TypeInv, TypeOK
<1>2. CASE Tally(w)
  <2>1. MovesTo(w, pc'[w]) /\ (pc[w] \in Holding <=> pc'[w] \in Holding)
    BY <1>0, <1>2 DEF Tally, MovesTo, TypeInv, TypeOK, WorkerPC, Holding
  <2>2. received' \in [Downloaders -> Nat]
    <3>1. received \in [Downloaders -> Nat] /\ received' = [received EXCEPT ![Owner[w]] = @ + 1]
      BY <1>2 DEF Tally, TypeInv, TypeOK
    <3> QED
      BY <1>0, <3>1
  <2> QED
    BY <1>0, <1>2, <2>1, <2>2, QuietType DEF Tally, TypeInv, TypeOK
<1>3. CASE Exit(w)
  <2>1. MovesTo(w, pc'[w]) /\ (pc[w] \in Holding <=> pc'[w] \in Holding)
    BY <1>0, <1>3 DEF Exit, MovesTo, TypeInv, TypeOK, WorkerPC, Holding
  <2> QED
    BY <1>0, <1>3, <2>1, QuietType DEF Exit, TypeInv, TypeOK
<1>4. CASE Succeed(w)
  <2>1. MovesTo(w, "add") /\ hand[w] \in Chunks
    BY <1>0, <1>4 DEF Succeed, MovesTo, TypeInv, HandOK, WorkerPC, Holding
  <2>2. TypeOK'
    BY <1>0, <1>4, <2>1, MoveType DEF TypeInv, TypeOK, Succeed
  <2>3. HandOK'
    BY <1>0, <1>4, <2>1, MoveType DEF TypeInv, HandOK, Succeed, Holding
  <2> QED
    BY <2>2, <2>3 DEF TypeInv
<1>5. CASE Fail(w)
  <2>1. MovesTo(w, "push") /\ hand[w] \in Chunks
    BY <1>0, <1>5 DEF Fail, MovesTo, TypeInv, HandOK, WorkerPC, Holding
  <2>2. TypeOK'
    BY <1>0, <1>5, <2>1, MoveType DEF TypeInv, TypeOK, Fail
  <2>3. HandOK'
    BY <1>0, <1>5, <2>1, MoveType DEF TypeInv, HandOK, Fail, Holding
  <2> QED
    BY <2>2, <2>3 DEF TypeInv
<1>6. CASE PushBack(w)
  BY <1>0, <1>6, PushBackType
<1>7. CASE CompleteOne(w)
  BY <1>0, <1>7, CompleteOneType
<1> QED
  BY <1>1, <1>2, <1>3, <1>4, <1>5, <1>6, <1>7 DEF Worker

\* The updaters keep the types.
LEMMA UpdaterType ==
    ASSUME TypeInv, NEW d \in Peers, Updater(d) PROVE TypeInv'
<1> USE DEF table, stats, peers, timer, flags, tail
<1>0. d \in Downloaders
  BY HomeFacts
<1>1. CASE IsOther(d) \/ SameManifest(d) \/ UpdateEnd(d)
  <2>1. \E v \in {"verify", "sync", "end"} : upd' = [upd EXCEPT ![d] = v]
    BY <1>1 DEF IsOther, SameManifest, UpdateEnd
  <2>2. upd' \in [Downloaders -> {"self", "verify", "sync", "end"}]
    BY <1>0, <2>1 DEF TypeInv, TypeOK
  <2>3. UNCHANGED <<table, pc, hand, stats, valid, fin, ctl, timer, flags, tail>>
    BY <1>1 DEF IsOther, SameManifest, UpdateEnd
  <2> QED
    BY <2>2, <2>3 DEF TypeInv, TypeOK, HandOK
<1>2. CASE IsSelf(d)
  <2>1. valid' \in [Downloaders -> BOOLEAN]
    BY <1>0, <1>2 DEF IsSelf, TypeInv, TypeOK
  <2> QED
    BY <1>2, <2>1 DEF TypeInv, TypeOK, HandOK, IsSelf
<1>3. CASE OtherManifest(d)
  BY <1>3 DEF TypeInv, TypeOK, HandOK, OtherManifest
<1>4. ASSUME NEW S \in SUBSET Chunks, UpdateAvailable(d, S) PROVE TypeInv'
  <2>1. PICK q \in Shuffles(S \ avail[d]) : queue' = [queue EXCEPT ![d] = @ \o q]
    BY <1>4 DEF UpdateAvailable
  <2>2. queue[d] \o q \in Seq(Chunks)
    BY <1>0, ShuffleFacts DEF TypeInv, TypeOK
  <2>3. TypeOK'
    BY <1>0, <1>4, <2>1, <2>2 DEF TypeInv, TypeOK, UpdateAvailable
  <2>4. HandOK'
    BY <1>4 DEF TypeInv, HandOK, UpdateAvailable
  <2> QED
    BY <2>3, <2>4 DEF TypeInv
<1> QED
  BY <1>1, <1>2, <1>3, <1>4 DEF Updater

\* reconcile starts and stops downloaders.
LEMMA ReconcileType ==
    ASSUME TypeInv, NEW want \in SUBSET Peers, Reconcile(want),
           ctl' \in {"run", "stopping", "end"}
    PROVE  TypeInv'
<1> USE DEF table, stats, peers, timer, flags, tail
<1>0. want \subseteq Downloaders
  BY HomeFacts
<1>1. \A r \in want \ Known : r \in Downloaders /\ pc[r] \in {"new"} \cup {"closed"} \cup DispatcherPC
  BY <1>0 DEF TypeInv, TypeOK
<1>2. \A r \in Procs : pc'[r] = pc[r] \/ (r \in Downloaders /\ pc'[r] = "start" /\ pc[r] = "new")
  BY <1>0 DEF Reconcile, Known, TypeInv, TypeOK, Peers
<1>3. /\ pc' \in [Procs -> DispatcherPC \cup WorkerPC]
      /\ \A d \in Downloaders : pc'[d] \in DispatcherPC
      /\ \A w \in Workers : pc'[w] \in WorkerPC
  BY <1>2, HomeFacts DEF Reconcile, TypeInv, TypeOK, DispatcherPC, Procs
<1>4. TypeOK'
  BY <1>3 DEF Reconcile, TypeInv, TypeOK
<1>5. HandOK'
  BY <1>2 DEF Reconcile, TypeInv, HandOK, Holding
<1> QED
  BY <1>4, <1>5 DEF TypeInv

\* The controller keeps the types.
LEMMA ControllerType ==
    ASSUME TypeInv, Controller PROVE TypeInv'
<1> USE DEF table, stats, peers, timer, flags, tail
<1>1. ASSUME NEW want \in SUBSET Peers, Poll(want) PROVE TypeInv'
  BY <1>1, ReconcileType DEF Poll, TypeInv, TypeOK
<1>2. CASE StopAll
  <2>1. {} \in SUBSET Peers
    OBVIOUS
  <2> QED
    BY <1>2, <2>1, ReconcileType DEF StopAll
<1>3. CASE CtlEnd
  BY <1>3 DEF CtlEnd, TypeInv, TypeOK, HandOK
<1>4. ASSUME NEW d \in Peers, FinDone(d) PROVE TypeInv'
  BY <1>4, HomeFacts DEF FinDone, TypeInv, TypeOK, HandOK
<1> QED
  BY <1>1, <1>2, <1>3, <1>4 DEF Controller

\* The steps that touch neither the table nor the dispatchers and workers.
LEMMA OutsideType ==
    ASSUME TypeInv, Watchdog \/ Main \/ Interrupt \/ Terminated PROVE TypeInv'
<1> USE DEF table, stats, peers, timer, flags, tail
<1>1. CASE Watchdog
  BY <1>1 DEF Watchdog, TimePasses, IdleTimeout, IdleEnd, TypeInv, TypeOK, HandOK
<1>2. CASE Main
  <2>1. CASE CompleteTransfer \/ CompleteTransferFails \/ RunOnComplete
    BY <2>1 DEF CompleteTransfer, CompleteTransferFails, RunOnComplete, TypeInv, TypeOK, HandOK
  <2>2. ASSUME NEW ok \in BOOLEAN, VerifyTransfer(ok) PROVE TypeInv'
    BY <2>2 DEF VerifyTransfer, TypeInv, TypeOK, HandOK
  <2> QED
    BY <1>2, <2>1, <2>2 DEF Main
<1>3. CASE Interrupt
  BY <1>3 DEF Interrupt, TypeInv, TypeOK, HandOK
<1>4. CASE Terminated
  BY <1>4 DEF Terminated, vars, TypeInv, TypeOK, HandOK
<1> QED
  BY <1>1, <1>2, <1>3, <1>4

\* Every step keeps the types.
LEMMA TypeStep == TypeInv /\ [Next]_vars => TypeInv'
<1> SUFFICES ASSUME TypeInv, [Next]_vars PROVE TypeInv'
  OBVIOUS
<1>1. CASE Next
  BY <1>1, DispatcherType, WorkerType, UpdaterType, ControllerType, OutsideType DEF Next
<1>2. CASE UNCHANGED vars
  BY <1>2 DEF vars, table, stats, peers, timer, flags, tail, TypeInv, TypeOK, HandOK
<1> QED
  BY <1>1, <1>2

\* Every variable keeps its type in every behaviour of DownloadFiles, for any
\* manifest and any set of peers.
THEOREM TypeCorrect == Spec => []TypeOK
<1>1. Init => TypeInv
  BY TypeInit
<1>2. TypeInv /\ [Next]_vars => TypeInv'
  BY TypeStep
<1>3. TypeInv => TypeOK
  BY DEF TypeInv
<1> QED
  BY <1>1, <1>2, <1>3, PTL DEF Spec

================================================================================
