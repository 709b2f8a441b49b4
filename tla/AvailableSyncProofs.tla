-------------------------- MODULE AvailableSyncProofs --------------------------
(* The safety of AvailableSync, for any number of chunks.                  *)
EXTENDS AvailableSync, TLAPS

\* The initial states.
LEMMA SyncInit == Init => IInv
<1> SUFFICES ASSUME Init PROVE IInv
  OBVIOUS
<1>1. TypeOK
  <2>1. next \in 1..(N + 1)
    BY NAssumption DEF Init
  <2>2. rank \in [Chunks -> 0..2]
    BY DEF Init
  <2>3. stage \in [Chunks -> {"pending", "timed", "done", "stamped"}]
    BY DEF Init
  <2> QED
    BY <2>1, <2>2, <2>3 DEF Init, TypeOK
<1> QED
  BY <1>1 DEF Init, IInv, AvailSound

\* Every step keeps the invariant.
LEMMA SyncStep == IInv /\ [Next]_vars => IInv'
<1> SUFFICES ASSUME IInv, [Next]_vars PROVE IInv'
  OBVIOUS
<1> USE NAssumption DEF IInv, TypeOK, AvailSound, Chunks, worker, answer
<1>1. ASSUME NEW c \in Chunks, ReadClock(c) PROVE IInv'
  BY <1>1 DEF ReadClock
<1>2. ASSUME NEW c \in Chunks, SetStatus(c) PROVE IInv'
  BY <1>2 DEF SetStatus
<1>3. ASSUME NEW c \in Chunks, SetUpdatedAt(c) PROVE IInv'
  BY <1>3 DEF SetUpdatedAt
<1>4. CASE Complete
  BY <1>4 DEF Complete
<1>5. CASE Stamp
  BY <1>5 DEF Stamp
<1>6. CASE CheckCompleted
  BY <1>6 DEF CheckCompleted
<1>7. CASE Scan
  BY <1>7 DEF Scan
<1>8. CASE Answer
  BY <1>8 DEF Answer
<1>9. CASE Receive
  BY <1>9 DEF Receive, Lower
<1>10. CASE Lose
  BY <1>10 DEF Lose, Forget
<1>11. CASE Terminated \/ UNCHANGED vars
  <2>1. /\ stage' = stage /\ rank' = rank /\ completed' = completed /\ req' = req
        /\ next' = next /\ list' = list /\ avail' = avail /\ raced' = raced
    BY <1>11 DEF Terminated, vars
  <2> QED
    BY <2>1
<1> QED
  BY <1>1, <1>2, <1>3, <1>4, <1>5, <1>6, <1>7, <1>8, <1>9, <1>10, <1>11 DEF Next

\* The invariant holds.
LEMMA SyncInductive == Spec => []IInv
<1>1. Init => IInv
  BY SyncInit
<1>2. IInv /\ [Next]_vars => IInv'
  BY SyncStep
<1> QED
  BY <1>1, <1>2, PTL DEF Spec

\* The table of a peer and what a caller remembers of it keep their types.
THEOREM SyncTyped == Spec => []TypeOK
<1>1. IInv => TypeOK
  BY DEF IInv
<1> QED
  BY <1>1, SyncInductive, PTL

\* Whatever answers are lost and whenever the handler runs, the caller only
\* queues chunks that the peer has.
THEOREM AvailIsSound == Spec => []AvailSound
<1>1. IInv => AvailSound
  BY DEF IInv
<1> QED
  BY <1>1, SyncInductive, PTL

\* The window between time.Now() and SetUpdatedAt is the only way for a chunk
\* to escape every poll of an incomplete peer.
THEOREM OnlyTheRaceMisses == Spec => []MissedOnlyInRace
<1>1. IInv => MissedOnlyInRace
  BY DEF IInv, MissedOnlyInRace, Missed
<1> QED
  BY <1>1, SyncInductive, PTL
================================================================================
