-------------------------- MODULE ChunkTransferProofs --------------------------
(***************************************************************************)
(* The safety of ChunkTransfer, for every number of chunks, downloaders    *)
(* and workers.  IInv is inductive; most steps do not touch what it is     *)
(* about (Quiet), and the others are taken one by one.                     *)
(***************************************************************************)
EXTENDS ChunkTransferTypes

Transferring == {"send", "got", "work"}

\* A step that touches neither the table nor a hand, starts and ends no
\* transfer, and brings nobody to AddOne.
Quiet ==
    /\ UNCHANGED <<status, queue, avail, num, hand>>
    /\ \A p \in Procs :
          /\ pc[p] \in Transferring <=> pc'[p] \in Transferring
          /\ pc'[p] = "add" => pc[p] = "add"

\* One process moves without touching a transfer.
LEMMA QuietMove ==
    ASSUME TypeOK, NEW p \in Procs, NEW v, pc' = [pc EXCEPT ![p] = v],
           UNCHANGED <<status, queue, avail, num, hand>>,
           v # "add", pc[p] \in Transferring <=> v \in Transferring
    PROVE  Quiet
BY DEF Quiet, TypeOK

\* A process keeps its place.
LEMMA QuietStill ==
    ASSUME UNCHANGED <<status, queue, avail, num, hand, pc>> PROVE Quiet
BY DEF Quiet

\* Every step is quiet or one of the few that move a chunk.
LEMMA StepKinds ==
    ASSUME TypeInv, [Next]_vars
    PROVE  \/ Quiet
           \/ \E d \in Downloaders :
                \/ Pop(d) \/ Claim(d)
                \/ \E w \in Workers : Send(d, w)
                \/ \E S \in SUBSET Chunks : UpdateAvailable(d, S)
           \/ \E p \in Procs : PushBack(p) \/ AddOne(p)
           \/ \E w \in Workers : Succeed(w) \/ Fail(w)
<1> USE DEF table, stats, peers, timer, flags, tail
<1>0. TypeOK
  BY DEF TypeInv
<1>1. ASSUME NEW p \in Procs, LoadNum(p) \/ DownloadCancel(p) \/ StoreCompleted(p)
      PROVE  Quiet
  <2>1. CASE LoadNum(p)
    <3>1. \E v \in {"cancel", "tally", "loop"} : pc' = [pc EXCEPT ![p] = v]
      BY <2>1 DEF LoadNum, After
    <3> QED
      BY <1>0, <2>1, <3>1, QuietMove DEF LoadNum, Transferring
  <2>2. CASE DownloadCancel(p)
    BY <1>0, <2>2, QuietMove DEF DownloadCancel, Transferring
  <2>3. CASE StoreCompleted(p)
    <3>1. \E v \in {"tally", "loop"} : pc' = [pc EXCEPT ![p] = v]
      BY <2>3 DEF StoreCompleted, After
    <3> QED
      BY <1>0, <2>3, <3>1, QuietMove DEF StoreCompleted, Transferring
  <2> QED
    BY <1>1, <2>1, <2>2, <2>3
<1>2. ASSUME NEW d \in Downloaders,
             Start(d) \/ CheckLoop(d) \/ CheckReady(d) \/ PopEmpty(d) \/ ClaimLost(d) \/ Leave(d)
      PROVE  Quiet
  <2>1. d \in Procs
    BY HomeFacts
  <2>2. /\ \E v \in {"cancel", "loop", "stats", "ready", "pop", "push", "closed"} :
              pc' = [pc EXCEPT ![d] = v]
        /\ pc[d] \notin Transferring
        /\ UNCHANGED <<status, queue, avail, num, hand>>
    BY <1>2 DEF Start, CheckLoop, CheckReady, PopEmpty, ClaimLost, Leave, Transferring
  <2> QED
    BY <1>0, <2>1, <2>2, QuietMove DEF Transferring
<1>3. ASSUME NEW w \in Workers, Begin(w) \/ Tally(w) \/ Exit(w) PROVE Quiet
  <2>1. w \in Procs
    BY HomeFacts
  <2>2. CASE Begin(w)
    BY <1>0, <2>1, <2>2, QuietMove DEF Begin, Transferring
  <2>3. CASE Tally(w) \/ Exit(w)
    <3>1. /\ \E v \in {"recv", "exit"} : pc' = [pc EXCEPT ![w] = v]
          /\ pc[w] \notin Transferring
          /\ UNCHANGED <<status, queue, avail, num, hand>>
      BY <2>3 DEF Tally, Exit, Transferring
    <3> QED
      BY <1>0, <2>1, <3>1, QuietMove DEF Transferring
  <2> QED
    BY <1>3, <2>2, <2>3
<1>4. ASSUME NEW want \in SUBSET Peers, Reconcile(want) PROVE Quiet
  <2>1. \A r \in Procs : pc'[r] = pc[r] \/ (pc'[r] = "start" /\ pc[r] \notin Transferring)
    BY <1>0, <1>4, HomeFacts DEF Reconcile, Known, TypeOK, Transferring, Peers
  <2> QED
    BY <1>4, <2>1 DEF Reconcile, Quiet, Transferring
<1>5. ASSUME NEW d \in Peers,
             IsOther(d) \/ IsSelf(d) \/ SameManifest(d) \/ OtherManifest(d) \/ UpdateEnd(d) \/ FinDone(d)
      PROVE  Quiet
  BY <1>5, QuietStill DEF IsOther, IsSelf, SameManifest, OtherManifest, UpdateEnd, FinDone
<1>6. CASE Watchdog \/ Main \/ Interrupt \/ Terminated \/ CtlEnd \/ UNCHANGED vars
  BY <1>6, QuietStill DEF Watchdog, TimePasses, IdleTimeout, IdleEnd, Main, CompleteTransfer,
     CompleteTransferFails, RunOnComplete, VerifyTransfer, Interrupt, Terminated, CtlEnd, vars
<1>7. ASSUME (\E want \in SUBSET Peers : Poll(want)) \/ StopAll PROVE Quiet
  <2>1. {} \in SUBSET Peers
    OBVIOUS
  <2> QED
    BY <1>4, <1>7, <2>1 DEF Poll, StopAll
<1>8. Downloaders \subseteq Procs /\ Workers \subseteq Procs /\ Peers \subseteq Downloaders
  BY HomeFacts
<1> QED
  BY <1>1, <1>2, <1>3, <1>5, <1>6, <1>7, <1>8
     DEF Next, Dispatcher, Worker, Updater, Controller, CompleteOne

(***************************************************************************)
(* What the steps that are not quiet do to the process that takes them.    *)
(***************************************************************************)
LEMMA PopFacts ==
    ASSUME TypeInv, NEW d \in Downloaders, Pop(d)
    PROVE  /\ d \in Procs /\ Home(d) = d
           /\ hand[d] \notin Chunks
           /\ hand'[d] = Head(queue[d])
           /\ queue' = [queue EXCEPT ![d] = Tail(@)]
           /\ queue[d] \in Seq(Chunks) /\ queue[d] # << >>
           /\ pc'[d] \in {"cas", "push", "add"}
           /\ pc'[d] = "add" => status[hand'[d]] = "Done"
           /\ pc[d] = "pop"
           /\ \A r \in Procs : r # d => hand'[r] = hand[r] /\ pc'[r] = pc[r]
           /\ UNCHANGED <<status, avail, num, completed>>
<1>1. d \in Procs /\ Home(d) = d
  BY HomeFacts
<1>2. queue[d] \in Seq(Chunks) /\ queue[d] # << >>
  BY DEF Pop, TypeInv, TypeOK
<1>3. status[Head(queue[d])] \in {"Pending", "Downloading", "Done"}
  BY <1>2, TailFacts DEF TypeInv, TypeOK
<1>4. /\ pc'[d] \in {"cas", "push", "add"}
      /\ pc'[d] = "add" => status[Head(queue[d])] = "Done"
  BY <1>1, <1>3 DEF Pop, TypeInv, TypeOK
<1>5. hand[d] \notin Chunks
  BY <1>1 DEF Pop, TypeInv, HandOK, Holding
<1> QED
  BY <1>1, <1>2, <1>4, <1>5 DEF Pop, TypeInv, TypeOK, flags

\* What Claim does.
LEMMA ClaimFacts ==
    ASSUME TypeInv, NEW d \in Downloaders, Claim(d)
    PROVE  /\ d \in Procs /\ hand[d] \in Chunks /\ status[hand[d]] = "Pending"
           /\ pc[d] = "cas" /\ pc'[d] = "send"
           /\ \A r \in Procs : r # d => pc'[r] = pc[r]
           /\ status'[hand[d]] = "Downloading"
           /\ \A c \in Chunks : c # hand[d] => status'[c] = status[c]
           /\ UNCHANGED <<hand, queue, avail, num, completed>>
BY HomeFacts DEF Claim, TypeInv, TypeOK, HandOK, Holding, flags

\* What Send does.
LEMMA SendFacts ==
    ASSUME TypeInv, NEW d \in Downloaders, NEW w \in Workers, Send(d, w)
    PROVE  /\ d \in Procs /\ w \in Procs /\ w # d /\ Home(w) = d /\ Home(d) = d
           /\ hand[d] \in Chunks /\ hand[w] \notin Chunks
           /\ hand'[d] \notin Chunks /\ hand'[w] = hand[d]
           /\ pc[d] = "send" /\ pc[w] = "recv" /\ pc'[d] = "loop" /\ pc'[w] = "got"
           /\ \A r \in Procs \ {d, w} : hand'[r] = hand[r] /\ pc'[r] = pc[r]
           /\ UNCHANGED <<status, queue, avail, num, completed>>
<1>1. d \in Procs /\ w \in Procs /\ w # d /\ Home(w) = d /\ Home(d) = d
  BY HomeFacts DEF Send
<1>2. hand[d] \in Chunks /\ hand[w] \notin Chunks
  BY <1>1 DEF Send, TypeInv, HandOK, Holding
<1>3. hand'[d] = NoChunk /\ hand'[w] = hand[d] /\ pc'[d] = "loop" /\ pc'[w] = "got"
  BY <1>1 DEF Send, TypeInv, TypeOK
<1>4. \A r \in Procs \ {d, w} : hand'[r] = hand[r] /\ pc'[r] = pc[r]
  BY <1>1 DEF Send, TypeInv, TypeOK
<1> QED
  BY <1>1, <1>2, <1>3, <1>4, ChunksAssumption DEF Send, table, flags

\* What PushBack does.
LEMMA PushBackFacts ==
    ASSUME TypeInv, NEW p \in Procs, PushBack(p)
    PROVE  /\ Home(p) \in Downloaders
           /\ hand[p] \in Chunks /\ hand'[p] \notin Chunks
           /\ queue' = [queue EXCEPT ![Home(p)] = Append(@, hand[p])]
           /\ queue[Home(p)] \in Seq(Chunks)
           /\ pc[p] = "push" /\ pc'[p] \in {"recv", "loop"}
           /\ \A r \in Procs : r # p => hand'[r] = hand[r] /\ pc'[r] = pc[r]
           /\ UNCHANGED <<status, avail, num, completed>>
<1>1. Home(p) \in Downloaders
  BY HomeFacts
<1> QED
  BY <1>1, ChunksAssumption DEF PushBack, TypeInv, TypeOK, HandOK, Holding, flags

\* What AddOne does.
LEMMA AddOneFacts ==
    ASSUME TypeInv, NEW p \in Procs, AddOne(p)
    PROVE  /\ Home(p) \in Downloaders
           /\ hand[p] \in Chunks /\ hand'[p] \notin Chunks
           /\ num' = [num EXCEPT ![Home(p)] = @ + 1]
           /\ pc[p] = "add" /\ pc'[p] = "load"
           /\ \A r \in Procs : r # p => hand'[r] = hand[r] /\ pc'[r] = pc[r]
           /\ UNCHANGED <<status, queue, avail, completed>>
<1>1. Home(p) \in Downloaders
  BY HomeFacts
<1> QED
  BY <1>1, ChunksAssumption DEF AddOne, TypeInv, TypeOK, HandOK, Holding, flags

\* Succeed and Fail: the transfer of the chunk in w's hand ends.
LEMMA OutcomeFacts ==
    ASSUME TypeInv, NEW w \in Workers, Succeed(w) \/ Fail(w)
    PROVE  /\ w \in Procs /\ hand[w] \in Chunks /\ pc[w] = "work"
           /\ \/ pc'[w] = "add" /\ status'[hand[w]] = "Done"
              \/ pc'[w] = "push" /\ status'[hand[w]] = "Pending"
           /\ \A c \in Chunks : c # hand[w] => status'[c] = status[c]
           /\ \A r \in Procs : r # w => pc'[r] = pc[r]
           /\ UNCHANGED <<hand, queue, avail, num, completed>>
BY HomeFacts DEF Succeed, Fail, TypeInv, TypeOK, HandOK, Holding, flags

(***************************************************************************)
(* One transfer per chunk.                                                 *)
(***************************************************************************)
LEMMA ClaimStep ==
    ASSUME TypeInv, ExclusiveClaim, [Next]_vars PROVE ExclusiveClaim'
<1> USE DEF Transferring
<1>1. CASE Quiet
  BY <1>1 DEF Quiet, ExclusiveClaim, Claims
<1>2. ASSUME NEW d \in Downloaders, Pop(d) PROVE ExclusiveClaim'
  BY <1>2, PopFacts DEF ExclusiveClaim, Claims
<1>3. ASSUME NEW d \in Downloaders, Claim(d) PROVE ExclusiveClaim'
  <2>1. \A r \in Procs, c \in Chunks : Claims(r, c)' <=> Claims(r, c) \/ (r = d /\ c = hand[d])
    BY <1>3, ClaimFacts DEF Claims
  <2>2. \A r \in Procs : ~Claims(r, hand[d])
    BY <1>3, ClaimFacts DEF ExclusiveClaim
  <2> QED
    BY <1>3, <2>1, <2>2, ClaimFacts DEF ExclusiveClaim
<1>4. ASSUME NEW d \in Downloaders, NEW w \in Workers, Send(d, w) PROVE ExclusiveClaim'
  <2>1. \A r \in Procs, c \in Chunks :
          Claims(r, c)' <=> \/ r \notin {d, w} /\ Claims(r, c)
                            \/ r = w /\ Claims(d, c)
    BY <1>4, SendFacts DEF Claims
  <2>2. \A c \in Chunks : ~Claims(w, c)
    BY <1>4, SendFacts DEF Claims
  <2>3. status' = status /\ d \in Procs /\ w \in Procs
    BY <1>4, SendFacts
  <2>4. ASSUME NEW c \in Chunks
        PROVE  (\E r \in Procs : Claims(r, c)') <=> (\E r \in Procs : Claims(r, c))
    BY <2>1, <2>2, <2>3
  <2>5. ASSUME NEW c \in Chunks, NEW r \in Procs, NEW q \in Procs, Claims(r, c)', Claims(q, c)'
        PROVE  r = q
    BY <2>1, <2>3, <2>5 DEF ExclusiveClaim
  <2> QED
    BY <2>3, <2>4, <2>5 DEF ExclusiveClaim
<1>5. ASSUME NEW d \in Downloaders, NEW S \in SUBSET Chunks, UpdateAvailable(d, S)
      PROVE  ExclusiveClaim'
  BY <1>5 DEF UpdateAvailable, ExclusiveClaim, Claims
<1>6. ASSUME NEW p \in Procs, PushBack(p) PROVE ExclusiveClaim'
  BY <1>6, PushBackFacts DEF ExclusiveClaim, Claims
<1>7. ASSUME NEW p \in Procs, AddOne(p) PROVE ExclusiveClaim'
  BY <1>7, AddOneFacts DEF ExclusiveClaim, Claims
<1>8. ASSUME NEW w \in Workers, Succeed(w) \/ Fail(w) PROVE ExclusiveClaim'
  <2>1. Claims(w, hand[w]) /\ w \in Procs /\ hand[w] \in Chunks
    BY <1>8, OutcomeFacts DEF Claims
  <2>2. \A r \in Procs, c \in Chunks : Claims(r, c)' <=> Claims(r, c) /\ r # w
    BY <1>8, OutcomeFacts DEF Claims
  <2>3. \A r \in Procs : Claims(r, hand[w]) => r = w
    BY <2>1 DEF ExclusiveClaim
  <2>4. \A c \in Chunks : Claims(w, c) => c = hand[w]
    BY DEF Claims
  <2>5. status'[hand[w]] # "Downloading"
    BY <1>8, OutcomeFacts
  <2> QED
    BY <1>8, <2>1, <2>2, <2>3, <2>4, <2>5, OutcomeFacts DEF ExclusiveClaim
<1> QED
  BY <1>1, <1>2, <1>3, <1>4, <1>5, <1>6, <1>7, <1>8, StepKinds

(***************************************************************************)
(* One place per chunk and downloader.                                     *)
(***************************************************************************)
LEMMA PlaceStep ==
    ASSUME TypeInv, OnePlace, [Next]_vars PROVE OnePlace'
<1>0. \A p \in Procs : Home(p) \in Downloaders
  BY HomeFacts
<1>00. queue \in [Downloaders -> Seq(Chunks)] /\ avail \in [Downloaders -> SUBSET Chunks]
  BY DEF TypeInv, TypeOK
<1>1. CASE Quiet
  BY <1>1 DEF Quiet, OnePlace
<1>2. ASSUME NEW d \in Downloaders, Pop(d) PROVE OnePlace'
  <2>1. /\ Range(queue[d]) = Range(Tail(queue[d])) \cup {Head(queue[d])}
        /\ NoRepeat(Tail(queue[d])) /\ Head(queue[d]) \notin Range(Tail(queue[d]))
    BY <1>2, PopFacts, TailFacts DEF OnePlace
  <2>2. /\ queue'[d] = Tail(queue[d])
        /\ \A e \in Downloaders : e # d => queue'[e] = queue[e]
    BY <1>00, <1>2, PopFacts
  <2>3. \A e \in Downloaders : NoRepeat(queue'[e]) /\ Range(queue'[e]) \subseteq avail'[e]
    BY <1>2, <2>1, <2>2, PopFacts DEF OnePlace
  <2>4. ASSUME NEW r \in Procs, hand'[r] \in Chunks
        PROVE  hand'[r] \in avail'[Home(r)] \ Range(queue'[Home(r)])
    <3>1. CASE r = d
      BY <1>2, <2>1, <2>2, <3>1, PopFacts DEF OnePlace
    <3>2. CASE r # d
      <4>1. hand[r] \in avail[Home(r)] \ Range(queue[Home(r)])
        BY <1>2, <2>4, <3>2, PopFacts DEF OnePlace
      <4> QED
        BY <1>0, <1>2, <2>1, <2>2, <3>2, <4>1, PopFacts
    <3> QED
      BY <3>1, <3>2
  <2>5. ASSUME NEW r \in Procs, NEW q \in Procs, Home(r) = Home(q),
               hand'[r] \in Chunks, hand'[r] = hand'[q]
        PROVE  r = q
    <3>1. \A p \in Procs : Home(p) = d /\ p # d /\ hand[p] \in Chunks => hand[p] # Head(queue[d])
      BY <2>1 DEF OnePlace
    <3>2. CASE r = d
      BY <1>2, <2>5, <3>1, <3>2, PopFacts
    <3>3. CASE q = d
      BY <1>2, <2>5, <3>1, <3>3, PopFacts
    <3>4. CASE r # d /\ q # d
      BY <1>2, <2>5, <3>4, PopFacts DEF OnePlace
    <3> QED
      BY <3>2, <3>3, <3>4
  <2> QED
    BY <2>3, <2>4, <2>5 DEF OnePlace
<1>3. ASSUME NEW d \in Downloaders, Claim(d) PROVE OnePlace'
  BY <1>3, ClaimFacts DEF OnePlace
<1>4. ASSUME NEW d \in Downloaders, NEW w \in Workers, Send(d, w) PROVE OnePlace'
  <2>1. \A e \in Downloaders : NoRepeat(queue'[e]) /\ Range(queue'[e]) \subseteq avail'[e]
    BY <1>4, SendFacts DEF OnePlace
  <2>2. \A r \in Procs : hand'[r] \in Chunks =>
            hand'[r] \in avail'[Home(r)] \ Range(queue'[Home(r)])
    BY <1>4, SendFacts DEF OnePlace
  <2>3. ASSUME NEW r \in Procs, NEW q \in Procs, Home(r) = Home(q),
               hand'[r] \in Chunks, hand'[r] = hand'[q]
        PROVE  r = q
    BY <1>4, <2>3, SendFacts DEF OnePlace
  <2> QED
    BY <2>1, <2>2, <2>3 DEF OnePlace
<1>5. ASSUME NEW d \in Downloaders, NEW S \in SUBSET Chunks, UpdateAvailable(d, S)
      PROVE  OnePlace'
  <2>1. PICK s \in Shuffles(S \ avail[d]) : queue' = [queue EXCEPT ![d] = @ \o s]
    BY <1>5 DEF UpdateAvailable
  <2>2. /\ queue'[d] = queue[d] \o s
        /\ \A e \in Downloaders : e # d => queue'[e] = queue[e] /\ avail'[e] = avail[e]
        /\ avail'[d] = avail[d] \cup S
        /\ hand' = hand
    BY <1>00, <1>5, <2>1 DEF UpdateAvailable
  <2>3. Range(queue[d]) \subseteq avail[d] /\ NoRepeat(queue[d])
    BY DEF OnePlace
  <2>4. /\ Range(queue[d] \o s) = Range(queue[d]) \cup (S \ avail[d])
        /\ NoRepeat(queue[d] \o s)
    BY <1>00, <2>3, ShuffleFacts
  <2>5. \A e \in Downloaders : NoRepeat(queue'[e]) /\ Range(queue'[e]) \subseteq avail'[e]
    BY <2>2, <2>3, <2>4 DEF OnePlace
  <2>6. \A r \in Procs : hand'[r] \in Chunks =>
            hand'[r] \in avail'[Home(r)] \ Range(queue'[Home(r)])
    BY <1>0, <2>2, <2>4 DEF OnePlace
  <2> QED
    BY <2>2, <2>5, <2>6 DEF OnePlace
<1>6. ASSUME NEW p \in Procs, PushBack(p) PROVE OnePlace'
  <2> DEFINE d == Home(p)
  <2>1. hand[p] \in avail[d] \ Range(queue[d]) /\ NoRepeat(queue[d])
    BY <1>0, <1>6, PushBackFacts DEF OnePlace
  <2>2. /\ queue'[d] = Append(queue[d], hand[p])
        /\ \A e \in Downloaders : e # d => queue'[e] = queue[e]
    BY <1>0, <1>00, <1>6, PushBackFacts
  <2>3. /\ Range(queue'[d]) = Range(queue[d]) \cup {hand[p]}
        /\ NoRepeat(queue'[d])
    BY <1>6, <2>1, <2>2, PushBackFacts, AppendFacts
  <2>4. \A e \in Downloaders : NoRepeat(queue'[e]) /\ Range(queue'[e]) \subseteq avail'[e]
    BY <1>6, <2>1, <2>2, <2>3, PushBackFacts DEF OnePlace
  <2>5. ASSUME NEW r \in Procs, hand'[r] \in Chunks
        PROVE  hand'[r] \in avail'[Home(r)] \ Range(queue'[Home(r)])
    <3>1. r # p /\ hand'[r] = hand[r]
      BY <1>6, <2>5, PushBackFacts
    <3>2. hand[r] \in avail[Home(r)] \ Range(queue[Home(r)])
      BY <2>5, <3>1 DEF OnePlace
    <3>3. Home(r) = d => hand[r] # hand[p]
      BY <1>6, <2>5, <3>1, PushBackFacts DEF OnePlace
    <3> QED
      BY <1>0, <1>6, <2>2, <2>3, <3>1, <3>2, <3>3, PushBackFacts
  <2>6. \A r, q \in Procs :
            Home(r) = Home(q) /\ hand'[r] \in Chunks /\ hand'[r] = hand'[q] => r = q
    BY <1>6, PushBackFacts DEF OnePlace
  <2> QED
    BY <2>4, <2>5, <2>6 DEF OnePlace
<1>7. ASSUME NEW p \in Procs, AddOne(p) PROVE OnePlace'
  BY <1>7, AddOneFacts DEF OnePlace
<1>8. ASSUME NEW w \in Workers, Succeed(w) \/ Fail(w) PROVE OnePlace'
  BY <1>8, OutcomeFacts DEF OnePlace
<1> QED
  BY <1>1, <1>2, <1>3, <1>4, <1>5, <1>6, <1>7, <1>8, StepKinds

(***************************************************************************)
(* A transferred chunk stays transferred.                                  *)
(***************************************************************************)
LEMMA DoneStep ==
    ASSUME TypeInv, ExclusiveClaim, [Next]_vars
    PROVE  \A c \in Chunks : /\ status[c] = "Done" => status'[c] = "Done"
                             /\ status[c] = "Pending" => status'[c] # "Done"
<1>1. CASE Quiet
  BY <1>1 DEF Quiet
<1>2. ASSUME NEW d \in Downloaders, Claim(d)
      PROVE  \A c \in Chunks : /\ status[c] = "Done" => status'[c] = "Done"
                               /\ status[c] = "Pending" => status'[c] # "Done"
  BY <1>2, ClaimFacts
<1>3. ASSUME NEW w \in Workers, Succeed(w) \/ Fail(w)
      PROVE  \A c \in Chunks : /\ status[c] = "Done" => status'[c] = "Done"
                               /\ status[c] = "Pending" => status'[c] # "Done"
  <2>1. status[hand[w]] = "Downloading"
    BY <1>3, OutcomeFacts DEF ExclusiveClaim, Claims
  <2> QED
    BY <1>3, <2>1, OutcomeFacts
<1>4. ASSUME NEW d \in Downloaders,
             Pop(d) \/ (\E w \in Workers : Send(d, w)) \/ (\E S \in SUBSET Chunks : UpdateAvailable(d, S))
      PROVE  status' = status
  BY <1>4 DEF Pop, Send, UpdateAvailable, table
<1>5. ASSUME NEW p \in Procs, PushBack(p) \/ AddOne(p) PROVE status' = status
  BY <1>5 DEF PushBack, AddOne
<1> QED
  BY <1>1, <1>2, <1>3, <1>4, <1>5, StepKinds

(***************************************************************************)
(* numCompleted.                                                           *)
(***************************************************************************)

\* Membership in Counted, with the hands spelled out.
LEMMA CountedFacts ==
    \A d \in Downloaders : \A c :
        /\ c \in Counted(d) <=>
              /\ c \in avail[d] /\ c \notin Range(queue[d])
              /\ \A p \in Procs : Home(p) = d => hand[p] # c
        /\ c \in Counted(d)' <=>
              /\ c \in avail'[d] /\ c \notin Range(queue'[d])
              /\ \A p \in Procs : Home(p) = d => hand'[p] # c
BY DEF Counted, InHand

\* The counted chunks are finitely many.
LEMMA CountedFinite ==
    ASSUME TypeInv, NEW d \in Downloaders
    PROVE  Counted(d) \subseteq Chunks /\ IsFiniteSet(Counted(d)) /\ Cardinality(Counted(d)) \in Nat
<1>1. Counted(d) \subseteq Chunks
  BY DEF Counted, TypeInv, TypeOK
<1> QED
  BY <1>1, ChunksAssumption, FS_Subset, FS_CardinalityType

\* Every step but AddOne leaves the counted chunks as they are.
LEMMA CountedSame ==
    ASSUME TypeInv, OnePlace, [Next]_vars, \A p \in Procs : ~AddOne(p), NEW d \in Downloaders
    PROVE  Counted(d)' = Counted(d) /\ num'[d] = num[d]
<1>0. \A p \in Procs : Home(p) \in Downloaders
  BY HomeFacts
<1>00. /\ queue \in [Downloaders -> Seq(Chunks)] /\ avail \in [Downloaders -> SUBSET Chunks]
  BY DEF TypeInv, TypeOK
<1>1. CASE Quiet
  BY <1>1 DEF Quiet, Counted, InHand
<1>2. ASSUME NEW e \in Downloaders, Pop(e) PROVE Counted(d)' = Counted(d) /\ num' = num
  <2>1. Range(queue[e]) = Range(Tail(queue[e])) \cup {Head(queue[e])}
    BY <1>2, PopFacts, TailFacts
  <2>2. /\ queue'[e] = Tail(queue[e])
        /\ \A f \in Downloaders : f # e => queue'[f] = queue[f]
    BY <1>00, <1>2, PopFacts
  <2>3. ASSUME NEW c \in Chunks PROVE c \in Counted(d)' <=> c \in Counted(d)
    BY <1>2, <2>1, <2>2, PopFacts, CountedFacts
  <2>4. Counted(d)' \subseteq Chunks /\ Counted(d) \subseteq Chunks
    BY <1>00, <1>2, CountedFacts, PopFacts
  <2> QED
    BY <1>2, <2>3, <2>4, PopFacts
<1>3. ASSUME NEW e \in Downloaders, Claim(e) PROVE Counted(d)' = Counted(d) /\ num' = num
  BY <1>3, ClaimFacts DEF Counted, InHand
<1>4. ASSUME NEW e \in Downloaders, NEW w \in Workers, Send(e, w)
      PROVE  Counted(d)' = Counted(d) /\ num' = num
  <2>1. ASSUME NEW c \in Chunks PROVE c \in Counted(d)' <=> c \in Counted(d)
    BY <1>4, SendFacts, CountedFacts
  <2>2. Counted(d)' \subseteq Chunks /\ Counted(d) \subseteq Chunks
    BY <1>00, <1>4, CountedFacts, SendFacts
  <2> QED
    BY <1>4, <2>1, <2>2, SendFacts
<1>5. ASSUME NEW e \in Downloaders, NEW S \in SUBSET Chunks, UpdateAvailable(e, S)
      PROVE  Counted(d)' = Counted(d) /\ num' = num
  <2>1. PICK s \in Shuffles(S \ avail[e]) : queue' = [queue EXCEPT ![e] = @ \o s]
    BY <1>5 DEF UpdateAvailable
  <2>2. /\ queue'[e] = queue[e] \o s
        /\ \A f \in Downloaders : f # e => queue'[f] = queue[f] /\ avail'[f] = avail[f]
        /\ avail'[e] = avail[e] \cup S
        /\ hand' = hand /\ num' = num
    BY <1>00, <1>5, <2>1 DEF UpdateAvailable
  <2>3. Range(queue'[e]) = Range(queue[e]) \cup (S \ avail[e])
    BY <1>00, <2>2, ShuffleFacts
  <2>4. ASSUME NEW c PROVE c \in Counted(d)' <=> c \in Counted(d)
    BY <2>2, <2>3, CountedFacts
  <2> QED
    BY <2>2, <2>4
<1>6. ASSUME NEW p \in Procs, PushBack(p) PROVE Counted(d)' = Counted(d) /\ num' = num
  <2>1. /\ queue'[Home(p)] = Append(queue[Home(p)], hand[p])
        /\ \A f \in Downloaders : f # Home(p) => queue'[f] = queue[f]
    BY <1>0, <1>00, <1>6, PushBackFacts
  <2>2. Range(queue'[Home(p)]) = Range(queue[Home(p)]) \cup {hand[p]}
    BY <1>6, <2>1, PushBackFacts, AppendFacts
  <2>3. ASSUME NEW c \in Chunks PROVE c \in Counted(d)' <=> c \in Counted(d)
    <3>1. CASE d = Home(p)
      <4>1. c \in Range(queue'[d]) <=> c \in Range(queue[d]) \/ c = hand[p]
        BY <2>2, <3>1
      <4>2. \A r \in Procs : r # p => hand'[r] = hand[r]
        BY <1>6, PushBackFacts
      <4>3. hand'[p] # c /\ avail' = avail
        BY <1>6, PushBackFacts
      <4> QED
        BY <3>1, <4>1, <4>2, <4>3, CountedFacts
    <3>2. CASE d # Home(p)
      BY <1>6, <2>1, <3>2, PushBackFacts, CountedFacts
    <3> QED
      BY <3>1, <3>2
  <2>4. Counted(d)' \subseteq Chunks /\ Counted(d) \subseteq Chunks
    BY <1>00, <1>6, CountedFacts, PushBackFacts
  <2> QED
    BY <1>6, <2>3, <2>4, PushBackFacts
<1>7. ASSUME NEW w \in Workers, Succeed(w) \/ Fail(w) PROVE Counted(d)' = Counted(d) /\ num' = num
  BY <1>7, OutcomeFacts DEF Counted, InHand
<1>8. Quiet => num' = num
  BY DEF Quiet
<1> QED
  BY <1>1, <1>2, <1>3, <1>4, <1>5, <1>6, <1>7, <1>8, StepKinds

\* numCompleted stays the number of the counted chunks.
LEMMA CountStep ==
    ASSUME IInv, [Next]_vars PROVE CountSound'
<1>0. TypeInv /\ ExclusiveClaim /\ OnePlace /\ CountSound
  BY DEF IInv, TypeInv
<1>1. CASE \A p \in Procs : ~AddOne(p)
  BY <1>0, <1>1, CountedSame, CountedFinite, DoneStep DEF CountSound
<1>2. ASSUME NEW p \in Procs, AddOne(p) PROVE CountSound'
  <2> DEFINE d == Home(p)
  <2>1. d \in Downloaders /\ hand[p] \in Chunks
    BY <1>0, <1>2, AddOneFacts
  <2>2. hand[p] \in avail[d] \ Range(queue[d]) /\ hand[p] \notin Counted(d)
    BY <1>2, <1>0, <2>1, CountedFacts DEF OnePlace
  <2>3. \A c \in Chunks : c \in Counted(d)' <=> c \in Counted(d) \cup {hand[p]}
    <3>1. \A r \in Procs : Home(r) = d /\ hand[r] = hand[p] => r = p
      BY <1>0, <2>1 DEF OnePlace
    <3> QED
      BY <1>0, <1>2, <2>1, <2>2, <3>1, AddOneFacts, CountedFacts
  <2>4. Counted(d)' \subseteq Chunks
    BY <1>0, <1>2, <2>1, CountedFacts, AddOneFacts DEF TypeInv, TypeOK
  <2>5. Counted(d)' = Counted(d) \cup {hand[p]}
    BY <1>0, <2>1, <2>3, <2>4, CountedFinite
  <2>6. Cardinality(Counted(d)') = Cardinality(Counted(d)) + 1
    BY <1>0, <2>1, <2>2, <2>5, CountedFinite, FS_AddElement
  <2>7. ASSUME NEW e \in Downloaders, e # d
        PROVE  Counted(e)' = Counted(e) /\ num'[e] = num[e]
    <3>1. \A r \in Procs : Home(r) = e => hand'[r] = hand[r]
      BY <1>0, <1>2, <2>7, AddOneFacts
    <3>2. avail' = avail /\ queue' = queue
      BY <1>0, <1>2, AddOneFacts
    <3>3. \A c : c \in Counted(e)' <=> c \in Counted(e)
      BY <3>1, <3>2, CountedFacts
    <3>4. Counted(e)' = Counted(e)
      BY <3>3
    <3>5. num'[e] = num[e]
      BY <1>0, <1>2, <2>1, <2>7, AddOneFacts DEF TypeInv, TypeOK
    <3> QED
      BY <3>4, <3>5
  <2>8. num'[d] = num[d] + 1
    BY <1>0, <1>2, <2>1, AddOneFacts DEF TypeInv, TypeOK
  <2>9. status' = status /\ status[hand[p]] = "Done"
    BY <1>0, <1>2, AddOneFacts DEF IInv, CompleteOneOK
  <2> QED
    BY <1>0, <2>1, <2>5, <2>6, <2>7, <2>8, <2>9 DEF CountSound
<1> QED
  BY <1>1, <1>2

(***************************************************************************)
(* Completion.                                                             *)
(***************************************************************************)

\* A downloader that has counted as many chunks as there are has counted
\* them all.
LEMMA FullCount ==
    ASSUME TypeInv, CountSound, NEW d \in Downloaders, num[d] = Cardinality(Chunks)
    PROVE  AllDone
<1>1. Counted(d) \subseteq Chunks /\ Cardinality(Counted(d)) = Cardinality(Chunks)
  BY CountedFinite DEF CountSound
<1>2. Counted(d) = Chunks
  BY <1>1, ChunksAssumption, FS_Subset
<1> QED
  BY <1>2 DEF CountSound, AllDone

\* When all chunks are transferred, they stay so.
LEMMA AllDoneStep ==
    ASSUME TypeInv, ExclusiveClaim, [Next]_vars, AllDone PROVE AllDone'
BY DoneStep DEF AllDone

\* Only StoreCompleted sets Completed, and only a downloader's own count or
\* an empty manifest leads to it.
LEMMA CompletionSteps ==
    ASSUME TypeInv, [Next]_vars
    PROVE  /\ completed' => completed \/ \E p \in Procs : pc[p] = "complete"
           /\ \A p \in Procs : pc'[p] \in {"cancel", "complete"} =>
                 \/ pc[p] \in {"cancel", "complete"}
                 \/ num[Home(p)] = Cardinality(Chunks)
                 \/ Chunks = {}
<1> USE DEF table, stats, peers, timer, flags, tail
<1> DEFINE Goal == /\ completed' => completed \/ \E p \in Procs : pc[p] = "complete"
                   /\ \A p \in Procs : pc'[p] \in {"cancel", "complete"} =>
                         \/ pc[p] \in {"cancel", "complete"}
                         \/ num[Home(p)] = Cardinality(Chunks)
                         \/ Chunks = {}
<1>0. pc \in [Procs -> DispatcherPC \cup WorkerPC]
  BY DEF TypeInv, TypeOK
<1>1. ASSUME NEW p \in Procs, CompleteOne(p) PROVE Goal
  BY <1>0, <1>1 DEF CompleteOne, AddOne, LoadNum, DownloadCancel, StoreCompleted, After
<1>2. ASSUME NEW p \in Procs, PushBack(p) PROVE Goal
  BY <1>0, <1>2, PushBackFacts
<1>3. ASSUME NEW d \in Downloaders, Dispatcher(d) PROVE Goal
  <2>0. d \in Procs
    BY HomeFacts
  <2>1. CASE Start(d)
    BY <1>0, <2>0, <2>1 DEF Start
  <2>2. CASE CheckLoop(d) \/ CheckReady(d) \/ PopEmpty(d) \/ ClaimLost(d) \/ Leave(d)
    <3>1. \E v \in {"loop", "stats", "ready", "pop", "push", "closed"} : pc' = [pc EXCEPT ![d] = v]
      BY <2>2 DEF CheckLoop, CheckReady, PopEmpty, ClaimLost, Leave
    <3>2. completed' = completed
      BY <2>2 DEF CheckLoop, CheckReady, PopEmpty, ClaimLost, Leave
    <3> QED
      BY <1>0, <2>0, <3>1, <3>2
  <2>3. CASE Pop(d)
    BY <2>3, PopFacts
  <2>4. CASE Claim(d)
    BY <2>4, ClaimFacts
  <2>5. ASSUME NEW w \in Workers, Send(d, w) PROVE Goal
    BY <2>5, SendFacts
  <2> QED
    BY <1>1, <1>2, <1>3, <2>0, <2>1, <2>2, <2>3, <2>4, <2>5 DEF Dispatcher
<1>4. ASSUME NEW w \in Workers, Worker(w) PROVE Goal
  <2>0. w \in Procs
    BY HomeFacts
  <2>1. CASE Begin(w) \/ Tally(w) \/ Exit(w)
    <3>1. \E v \in {"work", "recv", "exit"} : pc' = [pc EXCEPT ![w] = v]
      BY <2>1 DEF Begin, Tally, Exit
    <3>2. completed' = completed
      BY <2>1 DEF Begin, Tally, Exit
    <3> QED
      BY <1>0, <2>0, <3>1, <3>2
  <2>2. CASE Succeed(w) \/ Fail(w)
    BY <2>2, OutcomeFacts
  <2> QED
    BY <1>1, <1>2, <1>4, <2>0, <2>1, <2>2 DEF Worker
<1>5. ASSUME NEW want \in SUBSET Peers, Reconcile(want) PROVE Goal
  BY <1>0, <1>5 DEF Reconcile
<1>6. CASE Controller
  <2>1. CASE \/ \E want \in SUBSET Peers : Poll(want)
             \/ StopAll
    <3>1. {} \in SUBSET Peers
      OBVIOUS
    <3> QED
      BY <1>5, <2>1, <3>1 DEF Poll, StopAll
  <2>2. CASE CtlEnd \/ \E d \in Peers : FinDone(d)
    BY <2>2 DEF CtlEnd, FinDone
  <2> QED
    BY <1>6, <2>1, <2>2 DEF Controller
<1>7. ASSUME NEW d \in Peers, Updater(d) PROVE Goal
  <2>1. completed' = completed /\ pc' = pc
    BY <1>7 DEF Updater, IsOther, IsSelf, SameManifest, OtherManifest, UpdateAvailable, UpdateEnd
  <2> QED
    BY <2>1
<1>8. CASE Watchdog \/ Main \/ Interrupt \/ Terminated \/ UNCHANGED vars
  <2>1. completed' = completed /\ pc' = pc
    BY <1>8 DEF Watchdog, TimePasses, IdleTimeout, IdleEnd, Main, CompleteTransfer,
       CompleteTransferFails, RunOnComplete, VerifyTransfer, Interrupt, Terminated, vars
  <2> QED
    BY <2>1
<1> QED
  BY <1>3, <1>4, <1>6, <1>7, <1>8 DEF Next

\* CompleteOne declares completion only when all chunks are transferred.
LEMMA CompleteStep ==
    ASSUME IInv, [Next]_vars PROVE CompleteOneOK' /\ CompletedSound'
<1>0. TypeInv /\ ExclusiveClaim /\ CountSound /\ CompleteOneOK /\ CompletedSound
  BY DEF IInv, TypeInv
<1>1. ASSUME NEW p \in Procs, pc'[p] = "add" PROVE status'[hand'[p]] = "Done"
  <2> USE <1>1
  <2>1. CASE Quiet
    BY <1>0, <2>1 DEF Quiet, CompleteOneOK
  <2>2. ASSUME NEW d \in Downloaders, Pop(d) PROVE status'[hand'[p]] = "Done"
    BY <1>0, <2>2, PopFacts DEF CompleteOneOK
  <2>3. ASSUME NEW d \in Downloaders, Claim(d) PROVE status'[hand'[p]] = "Done"
    BY <1>0, <2>3, ClaimFacts DEF CompleteOneOK, TypeInv, HandOK, Holding
  <2>4. ASSUME NEW d \in Downloaders, NEW w \in Workers, Send(d, w)
        PROVE  status'[hand'[p]] = "Done"
    BY <1>0, <2>4, SendFacts DEF CompleteOneOK
  <2>5. ASSUME NEW d \in Downloaders, NEW S \in SUBSET Chunks, UpdateAvailable(d, S)
        PROVE  status'[hand'[p]] = "Done"
    BY <1>0, <2>5 DEF UpdateAvailable, CompleteOneOK
  <2>6. ASSUME NEW r \in Procs, PushBack(r) PROVE status'[hand'[p]] = "Done"
    BY <1>0, <2>6, PushBackFacts DEF CompleteOneOK
  <2>7. ASSUME NEW r \in Procs, AddOne(r) PROVE status'[hand'[p]] = "Done"
    BY <1>0, <2>7, AddOneFacts DEF CompleteOneOK
  <2>8. ASSUME NEW w \in Workers, Succeed(w) \/ Fail(w) PROVE status'[hand'[p]] = "Done"
    <3>1. CASE p = w
      BY <1>0, <2>8, <3>1, OutcomeFacts
    <3>2. CASE p # w
      <4>1. pc[p] = "add" /\ hand'[p] = hand[p]
        BY <1>0, <2>8, <3>2, OutcomeFacts
      <4>2. hand[p] \in Chunks /\ status[hand[p]] = "Done"
        BY <1>0, <4>1 DEF CompleteOneOK, TypeInv, HandOK, Holding
      <4> QED
        BY <1>0, <4>1, <4>2, DoneStep
    <3> QED
      BY <3>1, <3>2
  <2> QED
    BY <1>0, <2>1, <2>2, <2>3, <2>4, <2>5, <2>6, <2>7, <2>8, StepKinds
<1>2. ASSUME NEW p \in Procs, pc'[p] \in {"cancel", "complete"} PROVE AllDone'
  <2>1. Home(p) \in Downloaders
    BY HomeFacts
  <2>2. AllDone
    <3>1. CASE pc[p] \in {"cancel", "complete"}
      BY <1>0, <3>1 DEF CompleteOneOK
    <3>2. CASE num[Home(p)] = Cardinality(Chunks)
      BY <1>0, <2>1, <3>2, FullCount
    <3>3. CASE Chunks = {}
      BY <3>3 DEF AllDone
    <3> QED
      BY <1>0, <1>2, <3>1, <3>2, <3>3, CompletionSteps
  <2> QED
    BY <1>0, <2>2, AllDoneStep
<1>3. ASSUME completed' PROVE AllDone'
  <2>1. AllDone
    BY <1>0, <1>3, CompletionSteps DEF CompleteOneOK, CompletedSound
  <2> QED
    BY <1>0, <2>1, AllDoneStep
<1>4. CompleteOneOK'
  BY <1>1, <1>2 DEF CompleteOneOK
<1>5. CompletedSound'
  BY <1>3 DEF CompletedSound
<1> QED
  BY <1>4, <1>5

(***************************************************************************)
(* The theorems.                                                           *)
(***************************************************************************)
LEMMA InductiveInit == Init => IInv
<1> SUFFICES ASSUME Init PROVE IInv
  OBVIOUS
<1>1. TypeInv
  BY TypeInit
<1>2. /\ status = [c \in Chunks |-> "Pending"]
      /\ hand = [p \in Procs |-> NoChunk]
      /\ num = [d \in Downloaders |-> 0]
      /\ avail = [d \in Downloaders |-> IF d \in Local THEN Chunks ELSE {}]
      /\ \A p \in Procs : pc[p] \in {"start", "recv", "new"}
      /\ completed = FALSE
  BY DEF Init
<1>3. \A d \in Downloaders : NoRepeat(queue[d]) /\ Range(queue[d]) = avail[d]
  <2> SUFFICES ASSUME NEW d \in Downloaders
               PROVE  NoRepeat(queue[d]) /\ Range(queue[d]) = avail[d]
    OBVIOUS
  <2>1. CASE d \in Local
    <3>1. queue[d] \in Shuffles(Chunks)
      BY <2>1 DEF Init
    <3>2. << >> \in Seq(Chunks) /\ Chunks \in SUBSET Chunks
      OBVIOUS
    <3>3. NoRepeat(<< >>) /\ Range(<< >>) = {}
      BY DEF NoRepeat, Range
    <3>4. << >> \o queue[d] = queue[d]
      BY <1>1 DEF TypeInv, TypeOK
    <3>5. /\ Range(<< >> \o queue[d]) = Range(<< >>) \cup Chunks
          /\ NoRepeat(<< >>) /\ Range(<< >>) \cap Chunks = {} => NoRepeat(<< >> \o queue[d])
      BY <3>1, <3>2, ShuffleFacts, Zenon
    <3>6. Range(queue[d]) = Chunks /\ NoRepeat(queue[d])
      BY <3>3, <3>4, <3>5, Zenon
    <3> QED
      BY <1>2, <2>1, <3>6
  <2>2. CASE d \notin Local
    <3>1. queue[d] = << >>
      BY <2>2 DEF Init
    <3> QED
      BY <1>2, <2>2, <3>1 DEF NoRepeat, Range
  <2> QED
    BY <2>1, <2>2
<1>4. ExclusiveClaim
  BY <1>2, ChunksAssumption DEF ExclusiveClaim, Claims
<1>5. OnePlace
  BY <1>2, <1>3, ChunksAssumption DEF OnePlace
<1>6. CountSound
  <2>1. \A d \in Downloaders : Counted(d) = {}
    BY <1>3 DEF Counted
  <2> QED
    BY <1>2, <2>1, FS_EmptySet DEF CountSound
<1>7. CompleteOneOK /\ CompletedSound
  BY <1>2 DEF CompleteOneOK, CompletedSound
<1> QED
  BY <1>1, <1>4, <1>5, <1>6, <1>7 DEF IInv, TypeInv

\* Every step keeps the invariant.
LEMMA InductiveStep == IInv /\ [Next]_vars => IInv'
<1> SUFFICES ASSUME IInv, [Next]_vars PROVE IInv'
  OBVIOUS
<1>1. TypeInv
  BY DEF IInv, TypeInv
<1>2. TypeInv'
  BY <1>1, TypeStep
<1>3. ExclusiveClaim' /\ OnePlace'
  BY <1>1, ClaimStep, PlaceStep DEF IInv
<1>4. CountSound' /\ CompleteOneOK' /\ CompletedSound'
  BY CountStep, CompleteStep
<1> QED
  BY <1>2, <1>3, <1>4 DEF IInv, TypeInv

\* The invariant holds.
LEMMA Inductive == Spec => []IInv
<1>1. Init => IInv
  BY InductiveInit
<1>2. IInv /\ [Next]_vars => IInv'
  BY InductiveStep
<1> QED
  BY <1>1, <1>2, PTL DEF Spec

\* However many downloaders and workers race for the chunks, a chunk is being
\* transferred by exactly one worker or dispatcher while it is Downloading.
THEOREM ClaimsAreExclusive == Spec => []ExclusiveClaim
<1>1. IInv => ExclusiveClaim
  BY DEF IInv
<1> QED
  BY <1>1, Inductive, PTL

\* numCompleted of every downloader counts transferred chunks, each once.
THEOREM CountsAreSound == Spec => []CountSound
<1>1. IInv => CountSound
  BY DEF IInv
<1> QED
  BY <1>1, Inductive, PTL

\* MainContext.Completed is set only when every chunk is transferred, although
\* each downloader decides by its own counter.
THEOREM CompletionIsSound == Spec => []CompletedSound
<1>1. IInv => CompletedSound
  BY DEF IInv
<1> QED
  BY <1>1, Inductive, PTL

\* A transferred chunk is never taken back, and no chunk is marked transferred
\* that was not claimed.
THEOREM StatusOnlyAdvances == Spec => StatusSteps
<1>1. IInv /\ [Next]_vars =>
        [\A c \in Chunks :
            /\ status[c] = "Done" => status'[c] = "Done"
            /\ status[c] = "Pending" => status'[c] # "Done"]_status
  BY DoneStep DEF IInv, TypeInv
<1> QED
  BY <1>1, Inductive, PTL DEF Spec, StatusSteps

(***************************************************************************)
(* The table implements ChunkBoard.                                        *)
(***************************************************************************)
LEMMA BoardInit == Init => Board!Init
BY DEF Init, Board!Init

\* Nothing resets Completed.
LEMMA CompletedStays == ASSUME [Next]_vars, completed = TRUE PROVE completed' = TRUE
<1> USE DEF table, stats, peers, timer, flags, tail
<1>1. CASE \E d \in Downloaders : Dispatcher(d)
  BY <1>1 DEF Dispatcher, Start, CheckLoop, CheckReady, PopEmpty, Pop, Claim, ClaimLost, Send, Leave,
     PushBack, CompleteOne, AddOne, LoadNum, DownloadCancel, StoreCompleted
<1>2. CASE \E w \in Workers : Worker(w)
  BY <1>2 DEF Worker, Begin, Succeed, Fail, Tally, Exit,
     PushBack, CompleteOne, AddOne, LoadNum, DownloadCancel, StoreCompleted
<1>3. CASE \E d \in Peers : Updater(d)
  BY <1>3 DEF Updater, IsOther, IsSelf, SameManifest, OtherManifest, UpdateAvailable, UpdateEnd
<1>4. CASE Controller
  BY <1>4 DEF Controller, Poll, StopAll, Reconcile, CtlEnd, FinDone
<1>5. CASE Watchdog \/ Main \/ Interrupt \/ Terminated \/ UNCHANGED vars
  BY <1>5 DEF Watchdog, TimePasses, IdleTimeout, IdleEnd, Main, CompleteTransfer,
     CompleteTransferFails, RunOnComplete, VerifyTransfer, Interrupt, Terminated, vars
<1> QED
  BY <1>1, <1>2, <1>3, <1>4, <1>5 DEF Next

\* A step that changes neither the status of a chunk nor Completed.
LEMMA BoardStutter ==
    ASSUME status' = status, completed' = completed PROVE [Board!Next]_(Board!vars)
BY DEF Board!vars

\* Every step is a step of ChunkBoard or changes nothing it sees.
LEMMA BoardStep == IInv /\ IInv' /\ [Next]_vars => [Board!Next]_(Board!vars)
<1> SUFFICES ASSUME IInv, IInv', [Next]_vars PROVE [Board!Next]_(Board!vars)
  OBVIOUS
<1> DEFINE Down == {c \in Chunks : status[c] = "Downloading"}
           Done == {c \in Chunks : status[c] = "Done"}
<1>0. TypeInv /\ ExclusiveClaim
  BY DEF IInv, TypeInv
<1>1. ASSUME NEW d \in Downloaders, Claim(d) PROVE Board!Next
  <2>1. /\ hand[d] \in Chunks /\ hand[d] \notin Down \cup Done
        /\ Down' = Down \cup {hand[d]} /\ Done' = Done
        /\ completed' = completed
    BY <1>0, <1>1, ClaimFacts
  <2>2. \E c \in Chunks : Board!Claim(c)
    BY <2>1 DEF Board!Claim
  <2> QED
    BY <2>2, Zenon DEF Board!Next
<1>2. ASSUME NEW w \in Workers, Succeed(w) \/ Fail(w) PROVE Board!Next
  <2>1. /\ hand[w] \in Chunks /\ hand[w] \in Down
        /\ Down' = Down \ {hand[w]}
        /\ Done' = Done \cup {hand[w]} \/ Done' = Done
        /\ completed' = completed
    <3>1. status[hand[w]] = "Downloading" /\ hand[w] \in Chunks
      BY <1>0, <1>2, OutcomeFacts DEF ExclusiveClaim, Claims
    <3> QED
      BY <1>0, <1>2, <3>1, OutcomeFacts
  <2>2. \E c \in Chunks : Board!Finish(c) \/ Board!Release(c)
    BY <2>1 DEF Board!Finish, Board!Release
  <2> QED
    BY <2>2, Zenon DEF Board!Next
<1>3. CASE status' = status /\ completed' # completed
  <2>1. completed \in BOOLEAN /\ completed' \in BOOLEAN
    BY DEF IInv, TypeOK
  <2>2. completed' = TRUE
    BY <1>3, <2>1, CompletedStays
  <2>3. AllDone'
    BY <2>2 DEF IInv, CompletedSound
  <2>4. Done = Chunks
    BY <1>3, <2>3 DEF AllDone
  <2>5. Board!Complete
    BY <1>3, <2>2, <2>4 DEF Board!Complete
  <2> QED
    BY <2>5 DEF Board!Next
<1>4. CASE status' = status /\ completed' = completed
  BY <1>4, BoardStutter
<1>5. CASE status' # status
  <2>1. \/ \E d \in Downloaders : Claim(d)
        \/ \E w \in Workers : Succeed(w) \/ Fail(w)
    BY <1>0, <1>5, StepKinds DEF Quiet, Pop, Send, UpdateAvailable, PushBack, AddOne, table
  <2> QED
    BY <1>1, <1>2, <2>1
<1> QED
  BY <1>3, <1>4, <1>5

\* The chunk table, shared by all the downloaders, behaves like one board: a
\* chunk is claimed once at a time, never unfinished, and Completed is set
\* only when everything is done.
THEOREM ImplementsBoard == Spec => BoardSpec
<1>1. Init => Board!Init
  BY BoardInit
<1>2. IInv /\ IInv' /\ [Next]_vars => [Board!Next]_(Board!vars)
  BY BoardStep
<1> QED
  BY <1>1, <1>2, Inductive, PTL DEF Spec, BoardSpec, Board!Spec

(***************************************************************************)
(* The join of DownloadFiles.  NothingOutlivesJoin is about the places of  *)
(* the goroutines; its invariant follows the controller from Add over Fin  *)
(* to the end of the process.                                              *)
(***************************************************************************)

\* A downloader that was not added has no updater, no Fin and no busy worker.
NewIsIdle ==
    \A d \in Downloaders : pc[d] = "new" =>
        upd[d] = "end" /\ fin[d] = "no" /\ \A w \in WorkersOf(d) : pc[w] = "recv"

\* Fin has waited for the updater; the local downloader has neither.
UpdaterEnds ==
    /\ \A d \in Downloaders : fin[d] = "done" => upd[d] = "end"
    /\ \A d \in Local : upd[d] = "end" /\ fin[d] = "no"

\* stopAll calls Fin for every peer that was added, none is added later, and
\* the controller ends when all are joined.
StopReachesAll ==
    /\ ctl # "run" => \A d \in Peers : fin[d] = "no" => pc[d] = "new"
    /\ ctl = "end" => \A d \in Peers : fin[d] # "wait" /\ Joined(d)

MainIsLast == main # "wait" => ctl = "end" /\ \A d \in Local : Joined(d)

JoinInv == NewIsIdle /\ UpdaterEnds /\ StopReachesAll /\ MainIsLast

\* The step moves only goroutines that run, and adds no downloader.
Running(r) == pc[r] \notin {"new", "closed", "exit"} /\ (r \in Workers => pc[Owner[r]] # "new")
MovesRunning == \A r \in Procs : pc'[r] = pc[r] \/ (Running(r) /\ pc'[r] # "new")

\* What has been joined stays joined.
LEMMA JoinedStays ==
    ASSUME MovesRunning, NEW d \in Downloaders, Joined(d)
    PROVE  Joined(d)'
<1>1. d \in Procs /\ WorkersOf(d) \subseteq Procs
  BY HomeFacts DEF WorkersOf
<1>2. pc'[d] = pc[d]
  BY <1>1 DEF MovesRunning, Running, Joined
<1>3. CASE pc[d] = "new"
  BY <1>2, <1>3 DEF Joined
<1>4. CASE pc[d] = "closed" /\ \A w \in WorkersOf(d) : pc[w] = "exit"
  <2>1. \A w \in WorkersOf(d) : pc'[w] = "exit"
    BY <1>1, <1>4 DEF MovesRunning, Running
  <2> QED
    BY <1>2, <1>4, <2>1 DEF Joined, WorkersOf
<1> QED
  BY <1>3, <1>4 DEF Joined

\* Steps of running processes.
LEMMA MoveJoin ==
    ASSUME JoinInv, MovesRunning, UNCHANGED <<upd, fin, ctl, main>>
    PROVE  JoinInv'
<1>1. NewIsIdle'
  <2> SUFFICES ASSUME NEW d \in Downloaders, pc'[d] = "new"
               PROVE  upd[d] = "end" /\ fin[d] = "no" /\ \A w \in WorkersOf(d) : pc'[w] = "recv"
    BY DEF NewIsIdle, WorkersOf
  <2>1. d \in Procs /\ \A w \in WorkersOf(d) : w \in Procs /\ w \in Workers /\ Owner[w] = d
    BY HomeFacts DEF WorkersOf
  <2>2. pc[d] = "new"
    BY <2>1 DEF MovesRunning
  <2>3. \A w \in WorkersOf(d) : pc'[w] = pc[w]
    BY <2>1, <2>2 DEF MovesRunning, Running
  <2> QED
    BY <2>2, <2>3 DEF JoinInv, NewIsIdle
<1>2. UpdaterEnds'
  BY DEF JoinInv, UpdaterEnds
<1>3. \A d \in Downloaders : pc[d] = "new" => pc'[d] = "new"
  BY HomeFacts DEF MovesRunning, Running
<1>4. Local \subseteq Downloaders /\ Peers \subseteq Downloaders
  BY ProcsAssumption DEF Peers
<1>5. StopReachesAll'
  BY <1>3, <1>4, JoinedStays DEF JoinInv, StopReachesAll
<1>6. MainIsLast'
  BY <1>4, JoinedStays DEF JoinInv, MainIsLast
<1> QED
  BY <1>1, <1>2, <1>5, <1>6 DEF JoinInv

\* Dispatchers and workers run.
LEMMA GoroutinesJoin ==
    ASSUME TypeInv, JoinInv,
           (\E d \in Downloaders : Dispatcher(d)) \/ (\E w \in Workers : Worker(w))
    PROVE  JoinInv'
<1> USE DEF table, stats, peers, timer, flags, tail
<1>0. TypeOK
  BY DEF TypeInv
<1>1. ASSUME NEW w \in Workers, pc[w] # "recv" \/ pc[Owner[w]] = "closed" PROVE pc[Owner[w]] # "new"
  BY <1>1, ProcsAssumption DEF JoinInv, NewIsIdle, WorkersOf
<1>2. ASSUME NEW p \in Procs, NEW v, pc' = [pc EXCEPT ![p] = v], v # "new", Running(p)
      PROVE  MovesRunning
  BY <1>0, <1>2 DEF MovesRunning, TypeOK
<1>3. ASSUME NEW p \in Procs, PushBack(p) \/ CompleteOne(p) PROVE JoinInv'
  <2>1. UNCHANGED <<upd, fin, ctl, main>>
    BY <1>3 DEF PushBack, CompleteOne, AddOne, LoadNum, DownloadCancel, StoreCompleted
  <2>2. /\ pc[p] \in {"push", "add", "load", "cancel", "complete"}
        /\ \E v \in {"recv", "loop", "load", "cancel", "tally", "complete"} : pc' = [pc EXCEPT ![p] = v]
    BY <1>3 DEF PushBack, CompleteOne, AddOne, LoadNum, DownloadCancel, StoreCompleted, After
  <2>3. Running(p)
    BY <1>1, <2>2 DEF Running
  <2>4. MovesRunning
    BY <1>2, <2>2, <2>3
  <2> QED
    BY <2>1, <2>4, MoveJoin
<1>4. ASSUME NEW d \in Downloaders,
             \/ Start(d) \/ CheckLoop(d) \/ CheckReady(d) \/ PopEmpty(d) \/ Pop(d)
             \/ Claim(d) \/ ClaimLost(d) \/ Leave(d)
      PROVE  JoinInv'
  <2>1. UNCHANGED <<upd, fin, ctl, main>>
    BY <1>4 DEF Start, CheckLoop, CheckReady, PopEmpty, Pop, Claim, ClaimLost, Leave
  <2>2. pc[d] \in {"start", "loop", "ready", "pop", "cas", "stats"} /\ d \in Procs /\ d \notin Workers
    BY <1>4, HomeFacts DEF Start, CheckLoop, CheckReady, PopEmpty, Pop, Claim, ClaimLost, Leave
  <2>3. \E v \in {"cancel", "loop", "ready", "stats", "pop", "cas", "push", "add", "send", "closed"} :
           pc' = [pc EXCEPT ![d] = v]
    <3>1. CASE Pop(d)
      <4>1. Head(queue[d]) \in Chunks
        BY <1>0, <3>1 DEF Pop, TypeOK
      <4>2. status[Head(queue[d])] \in {"Pending", "Downloading", "Done"}
        BY <1>0, <4>1 DEF TypeOK
      <4> QED
        BY <3>1, <4>2 DEF Pop
    <3>2. CASE ~Pop(d)
      BY <1>4, <3>2 DEF Start, CheckLoop, CheckReady, PopEmpty, Claim, ClaimLost, Leave
    <3> QED
      BY <3>1, <3>2
  <2>4. MovesRunning
    BY <1>2, <2>2, <2>3 DEF Running
  <2> QED
    BY <2>1, <2>4, MoveJoin
<1>5. ASSUME NEW d \in Downloaders, NEW w \in Workers, Send(d, w) PROVE JoinInv'
  <2>1. UNCHANGED <<upd, fin, ctl, main>>
    BY <1>5 DEF Send
  <2>2. d \in Procs /\ w \in Procs /\ d \notin Workers /\ pc[d] = "send" /\ pc[w] = "recv" /\ Owner[w] = d
    BY <1>5, HomeFacts DEF Send
  <2>3. MovesRunning
    BY <1>0, <1>5, <2>2 DEF Send, MovesRunning, Running, TypeOK
  <2> QED
    BY <2>1, <2>3, MoveJoin
<1>6. ASSUME NEW w \in Workers, Begin(w) \/ Succeed(w) \/ Fail(w) \/ Tally(w) \/ Exit(w) PROVE JoinInv'
  <2>1. UNCHANGED <<upd, fin, ctl, main>>
    BY <1>6 DEF Begin, Succeed, Fail, Tally, Exit
  <2>2. /\ pc[w] \in {"got", "work", "tally", "recv"} /\ w \in Procs
        /\ pc[w] = "recv" => pc[Owner[w]] = "closed"
        /\ \E v \in {"work", "add", "push", "recv", "exit"} : pc' = [pc EXCEPT ![w] = v]
    BY <1>6, HomeFacts DEF Begin, Succeed, Fail, Tally, Exit
  <2>3. Running(w)
    BY <1>1, <2>2 DEF Running
  <2>4. MovesRunning
    BY <1>2, <2>2, <2>3
  <2> QED
    BY <2>1, <2>4, MoveJoin
<1>7. Downloaders \subseteq Procs /\ Workers \subseteq Procs
  BY HomeFacts
<1> QED
  BY <1>3, <1>4, <1>5, <1>6, <1>7 DEF Dispatcher, Worker

\* An updater runs only where it was started.
LEMMA UpdaterJoin ==
    ASSUME TypeInv, JoinInv, NEW d \in Peers, Updater(d)
    PROVE  JoinInv'
<1> USE DEF table, stats, peers, timer, flags, tail
<1>1. /\ UNCHANGED <<pc, fin, ctl, main>>
      /\ \A r \in Downloaders : upd[r] = "end" => upd'[r] = "end"
  <2>1. upd \in [Downloaders -> {"self", "verify", "sync", "end"}] /\ d \in Downloaders
    BY HomeFacts DEF TypeInv, TypeOK
  <2>2. CASE IsOther(d) \/ SameManifest(d) \/ UpdateEnd(d)
    BY <2>1, <2>2 DEF IsOther, SameManifest, UpdateEnd
  <2>3. CASE IsSelf(d) \/ OtherManifest(d) \/ \E S \in SUBSET Chunks : UpdateAvailable(d, S)
    BY <2>3 DEF IsSelf, OtherManifest, UpdateAvailable
  <2> QED
    BY <2>2, <2>3 DEF Updater
<1>2. NewIsIdle' /\ UpdaterEnds'
  BY <1>1, ProcsAssumption DEF JoinInv, NewIsIdle, UpdaterEnds, WorkersOf
<1>3. StopReachesAll' /\ MainIsLast'
  BY <1>1 DEF JoinInv, StopReachesAll, MainIsLast, Joined, WorkersOf
<1> QED
  BY <1>2, <1>3 DEF JoinInv

\* reconcile adds new downloaders and begins the Fin of others, and this only
\* while the controller runs.
LEMMA ReconcileJoin ==
    ASSUME TypeInv, JoinInv, NEW want \in SUBSET Peers, Reconcile(want), ctl = "run",
           ctl' = "run" \/ (ctl' = "stopping" /\ want = {})
    PROVE  JoinInv'
<1>1. main = "wait" /\ main' = "wait"
  BY DEF JoinInv, MainIsLast, Reconcile, tail
<1>2. \A d \in want \ Known : d \in Downloaders /\ d \notin Local /\ pc[d] = "new" /\ fin[d] = "no"
  BY HomeFacts DEF Reconcile, Known, TypeInv, TypeOK, Peers
<1>3. \A d \in Known \ want : d \in Downloaders /\ d \notin Local /\ pc[d] # "new" /\ fin[d] = "no"
  BY HomeFacts DEF Known, Peers
<1>4. /\ \A d \in Downloaders : pc'[d] = IF d \in want \ Known THEN "start" ELSE pc[d]
      /\ \A w \in Workers : pc'[w] = pc[w]
  BY <1>2, HomeFacts DEF Reconcile
<1>5. \A d \in Downloaders : /\ upd'[d] = IF d \in want \ Known THEN "self" ELSE upd[d]
                             /\ fin'[d] = IF d \in Known \ want THEN "wait" ELSE fin[d]
  BY DEF Reconcile
<1>6. NewIsIdle'
  <2> SUFFICES ASSUME NEW d \in Downloaders, pc'[d] = "new"
               PROVE  upd'[d] = "end" /\ fin'[d] = "no" /\ \A w \in WorkersOf(d) : pc'[w] = "recv"
    BY DEF NewIsIdle, WorkersOf
  <2>1. d \notin want \ Known /\ pc[d] = "new" /\ d \notin Known \ want
    BY <1>3, <1>4
  <2>2. WorkersOf(d) \subseteq Workers
    BY DEF WorkersOf
  <2> QED
    BY <1>4, <1>5, <2>1, <2>2 DEF JoinInv, NewIsIdle
<1>7. UpdaterEnds'
  <2>1. Local \subseteq Downloaders
    BY ProcsAssumption
  <2> QED
    BY <1>2, <1>3, <1>5, <2>1 DEF JoinInv, UpdaterEnds
<1>8. StopReachesAll'
  <2>1. CASE ctl' = "run"
    BY <2>1 DEF StopReachesAll
  <2>2. CASE ctl' = "stopping" /\ want = {}
    <3> SUFFICES ASSUME NEW d \in Peers, fin'[d] = "no" PROVE pc'[d] = "new"
      BY <2>2 DEF StopReachesAll
    <3>1. d \in Downloaders /\ d \notin Known /\ fin[d] = "no"
      BY <1>5, <2>2, HomeFacts
    <3>2. pc[d] = "new"
      BY <3>1 DEF Known
    <3> QED
      BY <1>4, <2>2, <3>1, <3>2
  <2> QED
    BY <2>1, <2>2
<1>9. MainIsLast'
  BY <1>1 DEF MainIsLast
<1> QED
  BY <1>6, <1>7, <1>8, <1>9 DEF JoinInv

\* The controller ends only after every peer downloader.
LEMMA ControllerJoin ==
    ASSUME TypeInv, JoinInv, Controller
    PROVE  JoinInv'
<1> USE DEF table, stats, peers, timer, flags, tail
<1>1. ASSUME NEW want \in SUBSET Peers, Poll(want) PROVE JoinInv'
  BY <1>1, ReconcileJoin DEF Poll
<1>2. CASE StopAll
  <2>1. {} \in SUBSET Peers
    OBVIOUS
  <2> QED
    BY <1>2, <2>1, ReconcileJoin DEF StopAll
<1>3. CASE CtlEnd
  <2>1. ctl = "stopping" /\ ctl' = "end" /\ UNCHANGED <<pc, upd, fin, main>>
    BY <1>3 DEF CtlEnd
  <2>2. NewIsIdle' /\ UpdaterEnds' /\ MainIsLast'
    BY <2>1 DEF JoinInv, NewIsIdle, UpdaterEnds, MainIsLast, WorkersOf
  <2>3. StopReachesAll'
    BY <1>3, <2>1 DEF CtlEnd, JoinInv, StopReachesAll, Joined, WorkersOf
  <2> QED
    BY <2>2, <2>3 DEF JoinInv
<1>4. ASSUME NEW d \in Peers, FinDone(d) PROVE JoinInv'
  <2>1. /\ fin[d] = "wait" /\ upd[d] = "end" /\ d \in Downloaders /\ d \notin Local
        /\ UNCHANGED <<pc, upd, ctl, main>>
        /\ fin'[d] = "done" /\ \A r \in Downloaders : r # d => fin'[r] = fin[r]
    BY <1>4, HomeFacts DEF FinDone, TypeInv, TypeOK, Peers
  <2>2. NewIsIdle'
    BY <2>1 DEF JoinInv, NewIsIdle, WorkersOf
  <2>3. UpdaterEnds'
    BY <2>1, ProcsAssumption DEF JoinInv, UpdaterEnds
  <2>4. StopReachesAll'
    BY <2>1, HomeFacts DEF JoinInv, StopReachesAll, Joined, WorkersOf
  <2>5. MainIsLast'
    BY <2>1 DEF JoinInv, MainIsLast, Joined, WorkersOf
  <2> QED
    BY <2>2, <2>3, <2>4, <2>5 DEF JoinInv
<1> QED
  BY <1>1, <1>2, <1>3, <1>4 DEF Controller

\* The watchdog, main and the outside world.
LEMMA OutsideJoin ==
    ASSUME JoinInv, Watchdog \/ Main \/ Interrupt \/ Terminated \/ UNCHANGED vars
    PROVE  JoinInv'
<1> USE DEF table, stats, peers, timer, flags, tail
<1>1. UNCHANGED <<pc, upd, fin, ctl>>
  BY DEF Watchdog, TimePasses, IdleTimeout, IdleEnd, Main, CompleteTransfer, CompleteTransferFails,
         RunOnComplete, VerifyTransfer, Interrupt, Terminated, vars
<1>2. main' = main \/ main # "wait" \/ AllJoined
  BY DEF Watchdog, TimePasses, IdleTimeout, IdleEnd, Main, CompleteTransfer, CompleteTransferFails,
         RunOnComplete, VerifyTransfer, Interrupt, Terminated, vars
<1>3. NewIsIdle' /\ UpdaterEnds' /\ StopReachesAll'
  BY <1>1 DEF JoinInv, NewIsIdle, UpdaterEnds, StopReachesAll, Joined, WorkersOf
<1>4. MainIsLast'
  BY <1>1, <1>2 DEF JoinInv, MainIsLast, AllJoined, Joined, WorkersOf
<1> QED
  BY <1>3, <1>4 DEF JoinInv

\* The initial states.
LEMMA JoinInit == Init => JoinInv
<1> SUFFICES ASSUME Init PROVE JoinInv
  OBVIOUS
<1>1. NewIsIdle /\ UpdaterEnds
  BY ProcsAssumption, HomeFacts DEF Init, NewIsIdle, UpdaterEnds, WorkersOf
<1>2. StopReachesAll /\ MainIsLast
  BY DEF Init, StopReachesAll, MainIsLast
<1> QED
  BY <1>1, <1>2 DEF JoinInv

\* Every step keeps JoinInv.
LEMMA JoinStep == TypeInv /\ JoinInv /\ [Next]_vars => JoinInv'
<1> SUFFICES ASSUME TypeInv, JoinInv, [Next]_vars PROVE JoinInv'
  OBVIOUS
<1> QED
  BY GoroutinesJoin, UpdaterJoin, ControllerJoin, OutsideJoin DEF Next

\* When wg.Wait of DownloadFiles has returned, every goroutine it started is
\* gone, also those of peers that were removed: nobody writes while the
\* destination is committed and verified.
THEOREM JoinIsComplete == Spec => []NothingOutlivesJoin
<1>1. IInv /\ JoinInv => NothingOutlivesJoin
  <2> SUFFICES ASSUME IInv, JoinInv, main # "wait"
               PROVE  /\ \A p \in Procs : pc[p] \in {"new", "closed", "exit", "recv"}
                      /\ \A d \in Downloaders : upd[d] = "end" /\ fin[d] # "wait"
                      /\ \A c \in Chunks : status[c] # "Downloading"
    BY DEF NothingOutlivesJoin
  <2>1. \A d \in Downloaders : Joined(d)
    BY DEF JoinInv, MainIsLast, StopReachesAll, Peers
  <2>2. \A d \in Downloaders : pc[d] \in {"new", "closed"}
    BY <2>1 DEF Joined
  <2>3. \A w \in Workers : pc[w] \in {"exit", "recv"}
    <3> SUFFICES ASSUME NEW w \in Workers PROVE pc[w] \in {"exit", "recv"}
      OBVIOUS
    <3>1. Owner[w] \in Downloaders /\ w \in WorkersOf(Owner[w])
      BY ProcsAssumption DEF WorkersOf
    <3> QED
      BY <2>1, <3>1 DEF Joined, JoinInv, NewIsIdle
  <2>4. \A p \in Procs : pc[p] \in {"new", "closed", "exit", "recv"}
    BY <2>2, <2>3 DEF Procs
  <2>5. \A d \in Downloaders : upd[d] = "end" /\ fin[d] # "wait"
    <3> SUFFICES ASSUME NEW d \in Downloaders PROVE upd[d] = "end" /\ fin[d] # "wait"
      OBVIOUS
    <3>1. CASE d \in Local
      BY <3>1 DEF JoinInv, UpdaterEnds
    <3>2. CASE d \in Peers
      <4>1. fin[d] \in {"no", "done"} /\ (fin[d] = "no" => pc[d] = "new")
        BY <3>2 DEF JoinInv, MainIsLast, StopReachesAll, IInv, TypeOK
      <4> QED
        BY <4>1 DEF JoinInv, NewIsIdle, UpdaterEnds
    <3> QED
      BY <3>1, <3>2 DEF Peers
  <2>6. \A c \in Chunks : status[c] # "Downloading"
    BY <2>4 DEF IInv, ExclusiveClaim, Claims
  <2> QED
    BY <2>4, <2>5, <2>6
<1>2. IInv => TypeInv
  BY DEF IInv, TypeInv
<1> QED
  BY <1>1, <1>2, Inductive, JoinInit, JoinStep, PTL DEF Spec

(***************************************************************************)
(* A chunk is transferred once.                                            *)
(***************************************************************************)

\* The sets that TransferredOnce counts are finite, of however many workers
\* and downloaders there are.
Balanced == IsFiniteSet(Tallied) /\ IsFiniteSet(Counting) /\ TransferredOnce

\* A step that neither ends a transfer nor adds one to the statistics.
Uncounted ==
    /\ received' = received
    /\ \A w \in Workers : pc'[w] \in CountingPC <=> pc[w] \in CountingPC
    /\ \A c \in Chunks : status'[c] = "Done" <=> status[c] = "Done"

\* Such a step keeps the balance.
LEMMA UncountedBalanced ==
    ASSUME Balanced, Uncounted
    PROVE  Balanced'
<1>1. Tallied' = Tallied
  BY DEF Uncounted, Tallied
<1>2. Counting' = Counting
  BY DEF Uncounted, Counting
<1>3. Transferred' = Transferred
  BY DEF Uncounted, Transferred
<1> QED
  BY <1>1, <1>2, <1>3 DEF Balanced, TransferredOnce

\* One process moves, and not into or out of the counting places.
LEMMA UncountedMove ==
    ASSUME TypeOK, NEW p \in Procs, NEW v, pc' = [pc EXCEPT ![p] = v],
           UNCHANGED <<received, status>>,
           p \in Workers => (pc[p] \in CountingPC <=> v \in CountingPC)
    PROVE  Uncounted
BY HomeFacts DEF Uncounted, TypeOK

\* SetChunkStatusDone: w is about to count the chunk.
LEMMA SucceedBalanced ==
    ASSUME IInv, Balanced, NEW w \in Workers, Succeed(w)
    PROVE  Balanced'
<1> DEFINE C == Counting
           T == Transferred
           c == hand[w]
<1>1. /\ w \in Procs /\ c \in Chunks /\ pc[w] = "work" /\ pc'[w] = "add"
      /\ status'[c] = "Done" /\ received' = received
      /\ \A e \in Chunks : e # c => status'[e] = status[e]
      /\ \A r \in Workers : r # w => pc'[r] = pc[r]
  BY HomeFacts DEF Succeed, IInv, TypeOK, HandOK, Holding, stats
<1>2. status[c] = "Downloading"
  BY <1>1 DEF IInv, ExclusiveClaim, Claims
<1>3. Tallied' = Tallied
  BY <1>1 DEF Tallied
<1>4. Counting' = C \cup {w} /\ w \notin C
  BY <1>1 DEF Counting, CountingPC
<1>5. Transferred' = T \cup {c} /\ c \notin T
  BY <1>1, <1>2 DEF Transferred
<1>6. IsFiniteSet(C) /\ IsFiniteSet(T) /\ IsFiniteSet(Tallied)
  <2>1. T \subseteq Chunks
    BY DEF Transferred
  <2> QED
    BY <2>1, ChunksAssumption, FS_Subset DEF Balanced
<1>7. Cardinality(Tallied) + Cardinality(C) = Cardinality(T)
  BY DEF Balanced, TransferredOnce
<1> HIDE DEF C, T, c
<1>8. IsFiniteSet(C \cup {w}) /\ Cardinality(C \cup {w}) = Cardinality(C) + 1
  BY <1>4, <1>6, FS_AddElement
<1>9. Cardinality(T \cup {c}) = Cardinality(T) + 1
  BY <1>5, <1>6, FS_AddElement
<1>10. Cardinality(Tallied) \in Nat /\ Cardinality(C) \in Nat /\ Cardinality(T) \in Nat
  BY <1>6, FS_CardinalityType
<1> QED
  BY <1>3, <1>4, <1>5, <1>6, <1>7, <1>8, <1>9, <1>10 DEF Balanced, TransferredOnce

\* The chunk moves from the worker to the statistics.
LEMMA TallyBalanced ==
    ASSUME IInv, Balanced, NEW w \in Workers, Tally(w)
    PROVE  Balanced'
<1> DEFINE C == Counting
           L == Tallied
           d == Owner[w]
           x == <<d, received[d] + 1>>
<1>1. /\ d \in Downloaders /\ received \in [Downloaders -> Nat]
      /\ pc[w] = "tally" /\ pc'[w] = "recv" /\ status' = status
      /\ received' = [received EXCEPT ![d] = @ + 1]
      /\ \A r \in Workers : r # w => pc'[r] = pc[r]
  BY HomeFacts, ProcsAssumption DEF Tally, IInv, TypeOK, table
<1>2. Transferred' = Transferred
  BY <1>1 DEF Transferred
<1>3. Counting' = C \ {w} /\ w \in C
  BY <1>1 DEF Counting, CountingPC
<1>4. Tallied' = L \cup {x} /\ x \notin L
  <2>1. ASSUME NEW f
        PROVE  \A y : y \in UNION {{e} \X (1 .. f[e]) : e \in Downloaders}
                         <=> \E e \in Downloaders : \E n \in 1 .. f[e] : y = <<e, n>>
    OBVIOUS
  <2>2. \A y : y \in Tallied <=> \E e \in Downloaders : \E n \in 1 .. received[e] : y = <<e, n>>
    BY <2>1 DEF Tallied
  <2>3. \A y : y \in Tallied' <=> \E e \in Downloaders : \E n \in 1 .. received'[e] : y = <<e, n>>
    BY <2>1 DEF Tallied
  <2>4. ASSUME NEW e \in Downloaders, NEW n
        PROVE  n \in 1 .. received'[e] <=> n \in 1 .. received[e] \/ (e = d /\ n = received[d] + 1)
    <3>1. CASE e = d
      <4>1. received'[e] = received[d] + 1 /\ received[d] \in Nat
        BY <1>1, <3>1
      <4> QED
        BY <3>1, <4>1
    <3>2. CASE e # d
      BY <1>1, <3>2
    <3> QED
      BY <3>1, <3>2
  <2>5. Tallied' = L \cup {x}
    <3>1. ASSUME NEW y PROVE y \in Tallied' <=> y \in L \/ y = x
      BY <1>1, <2>2, <2>3, <2>4
    <3> QED
      BY <3>1
  <2>6. x \notin L
    <3> SUFFICES ASSUME x \in L PROVE FALSE
      OBVIOUS
    <3>1. PICK e \in Downloaders : \E n \in 1 .. received[e] : x = <<e, n>>
      BY <2>2
    <3>2. e = d /\ received[d] + 1 \in 1 .. received[e]
      BY <3>1
    <3> QED
      BY <3>2, <1>1
  <2> QED
    BY <2>5, <2>6
<1>5. IsFiniteSet(C) /\ IsFiniteSet(L)
  BY DEF Balanced
<1>6. Cardinality(L) + Cardinality(C) = Cardinality(Transferred)
  BY DEF Balanced, TransferredOnce
<1> HIDE DEF C, L, x
<1>7. IsFiniteSet(L \cup {x}) /\ Cardinality(L \cup {x}) = Cardinality(L) + 1
  BY <1>4, <1>5, FS_AddElement
<1>8. IsFiniteSet(C \ {w}) /\ Cardinality(C \ {w}) = Cardinality(C) - 1
  BY <1>3, <1>5, FS_RemoveElement
<1>9. Cardinality(L) \in Nat /\ Cardinality(C) \in Nat
  BY <1>5, FS_CardinalityType
<1>10. Cardinality(L) + 1 + (Cardinality(C) - 1) = Cardinality(Transferred)
  BY <1>6, <1>9
<1> QED
  BY <1>2, <1>3, <1>4, <1>7, <1>8, <1>10 DEF Balanced, TransferredOnce

\* Every other step leaves the balance alone.
LEMMA UncountedSteps ==
    ASSUME IInv, [Next]_vars
    PROVE  Uncounted \/ \E w \in Workers : Succeed(w) \/ Tally(w)
<1> USE DEF table, stats, peers, timer, flags, tail
<1>0. /\ TypeOK /\ TypeInv /\ Downloaders \subseteq Procs /\ Workers \subseteq Procs
      /\ Peers \subseteq Downloaders
  BY HomeFacts DEF IInv, TypeInv
<1>1. ASSUME NEW p \in Procs, CompleteOne(p) \/ PushBack(p)
      PROVE  Uncounted
  <2>1. CASE AddOne(p)
    BY <2>1, <1>0, UncountedMove DEF AddOne, CountingPC
  <2>2. CASE LoadNum(p)
    <3>1. \E v : /\ pc' = [pc EXCEPT ![p] = v]
                 /\ p \in Workers => v \in {"cancel", "tally"}
      BY <2>2 DEF LoadNum, After
    <3>2. pc[p] = "load" /\ UNCHANGED <<received, status>>
      BY <2>2 DEF LoadNum
    <3> QED
      BY <3>1, <3>2, <1>0, UncountedMove DEF CountingPC
  <2>3. CASE DownloadCancel(p)
    BY <2>3, <1>0, UncountedMove DEF DownloadCancel, CountingPC
  <2>4. CASE StoreCompleted(p)
    <3>1. \E v : /\ pc' = [pc EXCEPT ![p] = v]
                 /\ p \in Workers => v = "tally"
      BY <2>4 DEF StoreCompleted, After
    <3>2. pc[p] = "complete" /\ UNCHANGED <<received, status>>
      BY <2>4 DEF StoreCompleted
    <3> QED
      BY <3>1, <3>2, <1>0, UncountedMove DEF CountingPC
  <2>5. CASE PushBack(p)
    <3>1. \E v : /\ pc' = [pc EXCEPT ![p] = v]
                 /\ p \in Workers => v = "recv"
      BY <2>5 DEF PushBack
    <3>2. pc[p] = "push" /\ UNCHANGED <<received, status>>
      BY <2>5 DEF PushBack
    <3> QED
      BY <3>1, <3>2, <1>0, UncountedMove DEF CountingPC
  <2> QED
    BY <1>1, <2>1, <2>2, <2>3, <2>4, <2>5 DEF CompleteOne
<1>2. ASSUME NEW d \in Downloaders,
             Start(d) \/ CheckLoop(d) \/ CheckReady(d) \/ PopEmpty(d) \/ Pop(d) \/ ClaimLost(d) \/ Leave(d)
      PROVE  Uncounted
  <2>1. /\ d \in Procs /\ d \notin Workers
        /\ \E v : pc' = [pc EXCEPT ![d] = v]
        /\ UNCHANGED <<received, status>>
    BY <1>2, HomeFacts DEF Start, CheckLoop, CheckReady, PopEmpty, Pop, ClaimLost, Leave
  <2> QED
    BY <2>1, <1>0, UncountedMove
<1>3. ASSUME NEW d \in Downloaders, Claim(d)
      PROVE  Uncounted
  <2>1. /\ status[hand[d]] = "Pending" /\ status'[hand[d]] = "Downloading"
        /\ \A c \in Chunks : c # hand[d] => status'[c] = status[c]
        /\ \A r \in Procs : r # d => pc'[r] = pc[r]
    BY <1>0, <1>3, ClaimFacts
  <2>2. received' = received
    BY <1>3 DEF Claim
  <2>3. \A w \in Workers : pc'[w] = pc[w]
    BY <2>1, HomeFacts
  <2>4. \A c \in Chunks : status'[c] = "Done" <=> status[c] = "Done"
    BY <2>1
  <2> QED
    BY <2>2, <2>3, <2>4 DEF Uncounted
<1>4. ASSUME NEW d \in Downloaders, NEW w \in Workers, Send(d, w)
      PROVE  Uncounted
  <2>1. /\ pc[w] = "recv" /\ pc'[w] = "got" /\ status' = status
        /\ \A r \in Procs \ {d, w} : pc'[r] = pc[r]
    BY <1>0, <1>4, SendFacts
  <2>2. received' = received
    BY <1>4 DEF Send
  <2>3. \A v \in Workers : pc'[v] = pc[v] \/ v = w
    BY <2>1, HomeFacts
  <2> QED
    BY <2>1, <2>2, <2>3 DEF Uncounted, CountingPC
<1>5. ASSUME NEW w \in Workers, Begin(w) \/ Fail(w) \/ Exit(w)
      PROVE  Uncounted
  <2>1. w \in Procs
    BY <1>0
  <2>2. CASE Begin(w)
    BY <2>1, <2>2, <1>0, UncountedMove DEF Begin, CountingPC
  <2>3. CASE Exit(w)
    BY <2>1, <2>3, <1>0, UncountedMove DEF Exit, CountingPC
  <2>4. CASE Fail(w)
    <3>1. /\ hand[w] \in Chunks /\ pc[w] = "work" /\ pc'[w] = "push"
          /\ status'[hand[w]] = "Pending" /\ received' = received
          /\ \A c \in Chunks : c # hand[w] => status'[c] = status[c]
          /\ \A r \in Workers : r # w => pc'[r] = pc[r]
      BY <2>1, <2>4, HomeFacts DEF Fail, IInv, TypeOK, HandOK, Holding
    <3>2. status[hand[w]] = "Downloading"
      BY <2>1, <3>1 DEF IInv, ExclusiveClaim, Claims
    <3>3. \A c \in Chunks : status'[c] = "Done" <=> status[c] = "Done"
      BY <3>1, <3>2
    <3> QED
      BY <3>1, <3>3 DEF Uncounted, CountingPC
  <2> QED
    BY <1>5, <2>2, <2>3, <2>4
<1>6. ASSUME NEW want \in SUBSET Peers, Reconcile(want)
      PROVE  Uncounted
  <2>1. \A w \in Workers : pc'[w] = pc[w]
    BY <1>6, HomeFacts DEF Reconcile
  <2> QED
    BY <1>6, <2>1 DEF Reconcile, Uncounted
<1>7. ASSUME UNCHANGED <<status, received, pc>>
      PROVE  Uncounted
  BY <1>7 DEF Uncounted
<1>8. ASSUME NEW d \in Peers, Updater(d) \/ FinDone(d)
      PROVE  Uncounted
  BY <1>7, <1>8 DEF Updater, IsOther, IsSelf, SameManifest, OtherManifest, UpdateAvailable,
                   UpdateEnd, FinDone
<1>9. ASSUME Watchdog \/ Main \/ Interrupt \/ Terminated \/ CtlEnd \/ UNCHANGED vars
      PROVE  Uncounted
  BY <1>7, <1>9 DEF Watchdog, TimePasses, IdleTimeout, IdleEnd, Main, CompleteTransfer,
     CompleteTransferFails, RunOnComplete, VerifyTransfer, Interrupt, Terminated, CtlEnd, vars
<1>10. ASSUME (\E want \in SUBSET Peers : Poll(want)) \/ StopAll
       PROVE  Uncounted
  <2>1. {} \in SUBSET Peers
    OBVIOUS
  <2> QED
    BY <1>6, <1>10, <2>1 DEF Poll, StopAll
<1> QED
  BY <1>0, <1>1, <1>2, <1>3, <1>4, <1>5, <1>8, <1>9, <1>10
     DEF Next, Dispatcher, Worker, Controller

\* Every chunk that is marked Done was transferred by exactly one worker, which
\* adds it to the statistics once: no chunk is transferred twice, by however many
\* downloaders, also when transfers fail and peers leave.
THEOREM NothingTransferredTwice == Spec => []TransferredOnce
<1>1. Init => Balanced
  <2> SUFFICES ASSUME Init PROVE Balanced
    OBVIOUS
  <2>1. Tallied = {}
    <3>1. \A d \in Downloaders : 1 .. received[d] = {}
      BY DEF Init
    <3> QED
      BY <3>1 DEF Tallied
  <2>2. Counting = {}
    BY HomeFacts, ProcsAssumption DEF Init, Counting, CountingPC
  <2>3. Transferred = {}
    BY DEF Init, Transferred
  <2> QED
    BY <2>1, <2>2, <2>3, FS_EmptySet DEF Balanced, TransferredOnce
<1>2. IInv /\ Balanced /\ [Next]_vars => Balanced'
  BY UncountedSteps, UncountedBalanced, SucceedBalanced, TallyBalanced
<1>3. Balanced => TransferredOnce
  BY DEF Balanced
<1> QED
  BY <1>1, <1>2, <1>3, Inductive, PTL DEF Spec
================================================================================
