-------------------------- MODULE DdsMdDeltaProofs --------------------------
(***************************************************************************)
(* Theorems about DdsMdDelta, for any number of readers and of samples: the *)
(* publisher does not sleep through a match, and the gaps that the reader   *)
(* logs are those of failed writes.                                         *)
(***************************************************************************)
EXTENDS DdsMdDelta, SequenceTheorems, TLAPS

\* The publisher's thread, listener and signal handler.
Publisher ==
  /\ pc \in {"loop", "lock", "predicate", "blocking", "blocked", "matched", "write",
            "period", "done"}
  /\ mutex_ <=> pc \in {"predicate", "blocking", "matched", "write"}
  /\ mutex_ \in BOOLEAN /\ notified \in BOOLEAN /\ listener \in BOOLEAN
  /\ stop_ \in BOOLEAN /\ stopping \in BOOLEAN
  /\ matched_ \in 0..MaxReaders
  /\ pc = "blocking" => matched_ = 0
  /\ NoLostMatch

\* The subscriber's run().
Waiter ==
  /\ sub_pc \in {"lock", "predicate", "blocking", "blocked", "done"}
  /\ sub_notified \in BOOLEAN /\ sub_stop_ \in BOOLEAN /\ sub_stopping \in BOOLEAN

Increasing(s) == \A i, j \in 1..Len(s) : i < j => s[i] < s[j]

\* What was written has increasing indices, none beyond the writer's.
Written ==
  /\ session_index_ \in 0..MaxRecorded
  /\ history \in Seq(1..session_index_)
  /\ Increasing(history)

\* The log follows the writer's history without leaving anything out, up to
\* where the reader is; it has marked exactly the jumps of the index.
Followed ==
  /\ taken \in 0..Len(history)
  /\ log \in Seq([idx : 1..MaxRecorded, gap : BOOLEAN])
  /\ Len(log) <= taken
  /\ \A k \in 1..Len(log) : log[k].idx = history[taken - Len(log) + k]
  /\ sub_session_index_ = IF log = <<>> THEN 0 ELSE history[taken]
  /\ \A k \in 2..Len(log) : log[k].gap <=> log[k].idx # log[k-1].idx + 1

DInv == Publisher /\ Waiter /\ Written /\ Followed

LEMMA DInvTypeOK == DInv => TypeOK /\ NoLostMatch
<1> SUFFICES ASSUME DInv PROVE TypeOK /\ NoLostMatch
  OBVIOUS
<1>1. sub_session_index_ \in 0..session_index_
  <2>1. CASE log = <<>>
    BY <2>1 DEF DInv, Written, Followed
  <2>2. CASE log # <<>>
    <3>1. taken \in 1..Len(history)
      BY <2>2, EmptySeq DEF DInv, Followed
    <3> QED
      BY <2>2, <3>1 DEF DInv, Written, Followed
  <2> QED
    BY <2>1, <2>2
<1>2. /\ {mutex_, notified, listener, stop_, stopping} \subseteq BOOLEAN
      /\ {sub_notified, sub_stop_, sub_stopping} \subseteq BOOLEAN
  BY DEF DInv, Publisher, Waiter
<1> QED
  BY <1>1, <1>2 DEF DInv, Publisher, Waiter, Written, Followed, TypeOK

\* Between two samples that follow each other in an increasing history no index
\* was written.
LEMMA DInvGapsExact == DInv => GapsExact
<1> SUFFICES ASSUME DInv, NEW k \in 2..Len(log)
             PROVE  log[k].gap <=> \E i \in (log[k-1].idx + 1)..(log[k].idx - 1) :
                                     \A j \in 1..Len(history) : history[j] # i
  BY DEF GapsExact
<1> DEFINE p == taken - Len(log) + (k - 1)
<1>0. /\ Len(log) \in Nat /\ Len(history) \in Nat /\ taken \in 0..Len(history)
      /\ Len(log) <= taken /\ k \in 2..Len(log)
  BY LenProperties DEF DInv, Followed, Written
<1>1. /\ p \in Nat /\ p \in 1..Len(history) /\ p + 1 \in 1..Len(history)
      /\ k - 1 \in 1..Len(log) /\ k \in 1..Len(log)
      /\ taken - Len(log) + k = p + 1
  BY <1>0
<1>2. log[k-1].idx = history[p] /\ log[k].idx = history[p + 1]
  <2>1. \A n \in 1..Len(log) : log[n].idx = history[taken - Len(log) + n]
    BY DEF DInv, Followed
  <2> QED
    BY <1>1, <2>1
<1>3. \A i \in 1..Len(history) : history[i] \in Nat
  <2>1. history \in Seq(1..session_index_) /\ 1..session_index_ \subseteq Nat
    BY DEF DInv, Written
  <2> QED
    BY <2>1, ElementOfSeq
<1>4. \A i, j \in 1..Len(history) : i < j => history[i] < history[j]
  BY DEF DInv, Written, Increasing
<1>5. log[k].gap <=> history[p + 1] # history[p] + 1
  BY <1>2 DEF DInv, Followed
<1> HIDE DEF p
<1>6. history[p] < history[p + 1] /\ history[p] \in Nat /\ history[p + 1] \in Nat
  BY <1>1, <1>3, <1>4
<1>7. CASE history[p + 1] = history[p] + 1
  BY <1>2, <1>5, <1>6, <1>7
<1>8. CASE history[p + 1] # history[p] + 1
  <2>1. history[p] + 1 \in (history[p] + 1)..(history[p + 1] - 1)
    BY <1>6, <1>8
  <2>2. ASSUME NEW j \in 1..Len(history)
        PROVE  history[j] # history[p] + 1
    <3>1. j < p \/ j = p \/ j = p + 1 \/ p + 1 < j
      BY <1>0, <1>1
    <3>2. j < p => history[j] < history[p]
      BY <1>1, <1>4
    <3>3. p + 1 < j => history[p + 1] < history[j]
      BY <1>1, <1>4
    <3>4. history[j] \in Nat
      BY <1>3
    <3> QED
      BY <1>6, <1>8, <3>1, <3>2, <3>3, <3>4
  <2> QED
    BY <1>2, <1>5, <1>8, <2>1, <2>2
<1> QED
  BY <1>7, <1>8

LEMMA InitDInv == Init => DInv
<1> SUFFICES ASSUME Init PROVE DInv
  OBVIOUS
<1>1. Publisher
  <2>1. (mutex_ <=> pc \in {"predicate", "blocking", "matched", "write"}) /\ mutex_ \in BOOLEAN
    BY DEF Init
  <2>2. matched_ \in 0..MaxReaders
    BY DdsAssumption DEF Init
  <2> QED
    BY <2>1, <2>2 DEF Init, Publisher, NoLostMatch
<1>3. Waiter
  BY DEF Init, Waiter
<1>2. Written /\ Followed
  BY DdsAssumption DEF Init, Written, Followed, Increasing
<1> QED
  BY <1>1, <1>2, <1>3 DEF DInv

-----------------------------------------------------------------------------
(* The four parts, step by step. *)

LEMMA PublisherKeeps ==
  ASSUME Publisher, PublisherStep \/ SpuriousWakeup
  PROVE  Publisher'
<1> USE DEF Publisher, NoLostMatch, env
<1>1. CASE Loop
  BY <1>1 DEF Loop
<1>2. CASE Lock
  BY <1>2 DEF Lock
<1>3. CASE Predicate
  <2>1. matched_ > 0 \/ matched_ = 0
    BY DdsAssumption
  <2>2. /\ pc = "predicate" /\ pc' \in {"matched", "blocking"}
        /\ UNCHANGED <<mutex_, notified, matched_, listener, stop_, stopping>>
        /\ pc' = "blocking" => ~(matched_ > 0)
    BY <1>3 DEF Predicate
  <2> QED
    BY <2>1, <2>2
<1>4. CASE Block
  <2>1. /\ pc = "blocking" /\ pc' = "blocked" /\ mutex_' = FALSE
        /\ UNCHANGED <<notified, matched_, listener, stop_, stopping>>
    BY <1>4 DEF Block
  <2>2. matched_ = 0 /\ matched_' = 0 /\ ~(0 > 0)
    BY <2>1
  <2>3. NoLostMatch'
    BY <2>2
  <2>4. ~mutex_' /\ mutex_' \in BOOLEAN
    BY <2>1
  <2> QED
    BY <2>1, <2>2, <2>3, <2>4
<1>5. CASE AfterWait
  BY <1>5 DEF AfterWait
<1>6. CASE Period
  BY <1>6 DEF Period
<1>7. CASE \E ok \in BOOLEAN : Write(ok)
  BY <1>7 DEF Write
<1>8. CASE SpuriousWakeup
  BY <1>8 DEF SpuriousWakeup
<1> QED
  BY <1>1, <1>2, <1>3, <1>4, <1>5, <1>6, <1>7, <1>8 DEF PublisherStep

\* matched_ changes only while run() does not hold the lock.
LEMMA ListenerKeeps ==
  ASSUME Publisher,
         \/ NotifyMatched \/ Stop \/ NotifyStop
         \/ \E change \in {1, -1} : OnPublicationMatched(change)
  PROVE  Publisher'
<1> USE DEF Publisher, NoLostMatch, pub
<1>1. CASE Stop
  BY <1>1 DEF Stop
<1>2. CASE NotifyMatched \/ NotifyStop
  <2>1. notified' \in BOOLEAN /\ (notified' <=> notified \/ pc = "blocked")
    BY <1>2, Zenon DEF NotifyMatched, NotifyStop
  <2>2. /\ UNCHANGED <<matched_, stop_, pc, mutex_>>
        /\ listener' \in {listener, FALSE} /\ stopping' \in {stopping, FALSE}
    BY <1>2 DEF NotifyMatched, NotifyStop
  <2>3. NoLostMatch'
    BY <2>1, <2>2
  <2> QED
    BY <2>1, <2>2, <2>3
<1>3. ASSUME NEW change \in {1, -1}, OnPublicationMatched(change)
      PROVE  Publisher'
  <2>1. listener' \in BOOLEAN /\ (listener' <=> change = 1)
    BY <1>3, Zenon DEF OnPublicationMatched
  <2>2. /\ ~listener /\ ~mutex_ /\ matched_' \in 0..MaxReaders
        /\ matched_' = matched_ + change
        /\ UNCHANGED <<pc, mutex_, notified, stop_, stopping>>
    BY <1>3 DEF OnPublicationMatched
  <2>3. pc # "blocking"
    BY <2>2
  <2>4. matched_' > 0 => matched_ > 0 \/ change = 1
    BY <2>2, DdsAssumption
  <2>5. NoLostMatch'
    BY <2>1, <2>2, <2>4
  <2> QED
    BY <2>1, <2>2, <2>3, <2>5
<1> QED
  BY <1>1, <1>2, <1>3

LEMMA WaiterKeeps ==
  ASSUME Waiter, SubRun \/ SubStop \/ SubNotifyStop
  PROVE  Waiter'
<1> USE DEF Waiter, sub_env, sub
<1>1. CASE SubRun
  BY <1>1 DEF SubRun
<1>2. CASE SubStop
  BY <1>2 DEF SubStop
<1>3. CASE SubNotifyStop
  <2>1. sub_notified' \in BOOLEAN
    BY <1>3, Zenon DEF SubNotifyStop
  <2> QED
    BY <1>3, <2>1 DEF SubNotifyStop
<1> QED
  BY <1>1, <1>2, <1>3

\* A write appends an index above all those before; the reader's position and
\* its log are of a prefix of the history.
LEMMA WriteKeeps ==
  ASSUME Written, Followed, NEW ok \in BOOLEAN, Write(ok)
  PROVE  Written' /\ Followed'
<1> USE DEF Written, Followed
<1>0. UNCHANGED <<taken, sub_session_index_, log>>
  BY DEF Write, reader
<1>1. CASE UNCHANGED data
  BY <1>0, <1>1 DEF data
<1>2. CASE ~(UNCHANGED data)
  <2>1. /\ session_index_ < MaxRecorded /\ session_index_' = session_index_ + 1
        /\ history' = IF ok THEN Append(history, session_index_ + 1) ELSE history
    BY <1>2 DEF Write
  <2>2. session_index_ \in Nat /\ session_index_' \in 0..MaxRecorded
    BY <2>1, DdsAssumption
  <2>3. history \in Seq(1..session_index_')
    <3>1. 1..session_index_ \subseteq 1..session_index_'
      BY <2>1, <2>2
    <3> QED
      BY <3>1, SeqMonotonic
  <2>4. CASE ~ok
    BY <1>0, <2>1, <2>2, <2>3, <2>4
  <2>5. CASE ok
    <3>1. history' = Append(history, session_index_ + 1)
      BY <2>1, <2>5
    <3>0. session_index_ + 1 \in 1..session_index_'
      BY <2>1, <2>2
    <3>2. /\ history' \in Seq(1..session_index_')
          /\ Len(history) \in Nat /\ Len(history') = Len(history) + 1
          /\ \A i \in 1..Len(history) : history'[i] = history[i]
          /\ history'[Len(history) + 1] = session_index_ + 1
      BY <2>3, <3>0, <3>1, AppendProperties
    <3>3. \A i \in 1..Len(history) : history[i] \in Nat /\ history[i] < session_index_ + 1
      BY <2>2, ElementOfSeq
    <3>4. Increasing(history')
      <4> SUFFICES ASSUME NEW i \in 1..Len(history'), NEW j \in 1..Len(history'), i < j
                   PROVE  history'[i] < history'[j]
        BY DEF Increasing
      <4>1. i \in 1..Len(history)
        BY <3>2
      <4>2. CASE j = Len(history) + 1
        BY <3>2, <3>3, <4>1, <4>2
      <4>3. CASE j \in 1..Len(history)
        BY <3>2, <4>1, <4>3 DEF Increasing
      <4> QED
        BY <3>2, <4>2, <4>3
    <3>5. Len(log) \in Nat /\ taken \in Nat /\ taken <= Len(history)
      BY <3>2, LenProperties
    <3>6. \A k \in 1..Len(log) : log[k].idx = history'[taken - Len(log) + k]
      <4> SUFFICES ASSUME NEW k \in 1..Len(log)
                   PROVE  log[k].idx = history'[taken - Len(log) + k]
        OBVIOUS
      <4>1. taken - Len(log) + k \in 1..Len(history)
        BY <3>5
      <4> QED
        BY <3>2, <4>1
    <3>7. log # <<>> => history'[taken] = history[taken]
      <4>1. log # <<>> => taken \in 1..Len(history)
        BY <3>5, EmptySeq
      <4> QED
        BY <3>2, <4>1
    <3> QED
      BY <1>0, <2>2, <3>2, <3>4, <3>5, <3>6, <3>7
  <2> QED
    BY <2>4, <2>5
<1> QED
  BY <1>1, <1>2

LEMMA TakeKeeps ==
  ASSUME Written, Followed, OnDataAvailable
  PROVE  Written' /\ Followed'
<1> USE DEF Written, Followed
<1>1. PICK p \in (taken + 1)..Len(history) :
        /\ log # <<>> => p = taken + 1
        /\ taken' = p
        /\ sub_session_index_' = history[p]
        /\ log' = Append(log, [idx |-> history[p], gap |-> GapLogged(history[p])])
  BY DEF OnDataAvailable
<1>2. UNCHANGED <<session_index_, history>>
  BY DEF OnDataAvailable, data
<1>3. /\ Len(log) \in Nat /\ Len(history) \in Nat /\ taken \in Nat /\ p \in 1..Len(history)
      /\ (log = <<>> <=> Len(log) = 0)
  BY <1>1, LenProperties, EmptySeq
<1>4. history[p] \in 1..MaxRecorded /\ history[p] \in Nat
  BY <1>3, ElementOfSeq, DdsAssumption
<1> DEFINE e == [idx |-> history[p], gap |-> GapLogged(history[p])]
<1>5. e \in [idx : 1..MaxRecorded, gap : BOOLEAN]
  <2>1. GapLogged(history[p]) \in BOOLEAN
    BY Zenon DEF GapLogged
  <2> QED
    BY <1>4, <2>1
<1>6. /\ log' \in Seq([idx : 1..MaxRecorded, gap : BOOLEAN])
      /\ Len(log') = Len(log) + 1
      /\ \A k \in 1..Len(log) : log'[k] = log[k]
      /\ log'[Len(log) + 1] = e
  <2> HIDE DEF e
  <2> QED
    BY <1>1, <1>5, AppendProperties DEF e
<1>7. Len(log') <= taken' /\ taken' \in 0..Len(history')
  BY <1>1, <1>2, <1>3, <1>6
<1>8. \A k \in 1..Len(log') : log'[k].idx = history'[taken' - Len(log') + k]
  <2> SUFFICES ASSUME NEW k \in 1..Len(log')
               PROVE  log'[k].idx = history[p - (Len(log) + 1) + k]
    BY <1>1, <1>2, <1>6
  <2>1. CASE k = Len(log) + 1
    BY <1>3, <1>6, <2>1
  <2>2. CASE k \in 1..Len(log)
    <3>1. p = taken + 1
      BY <1>1, <1>3, <2>2
    <3>2. p - (Len(log) + 1) + k = taken - Len(log) + k
      BY <1>3, <2>2, <3>1
    <3> QED
      BY <1>6, <2>2, <3>2
  <2> QED
    BY <1>3, <1>6, <2>1, <2>2
<1>9. sub_session_index_' = IF log' = <<>> THEN 0 ELSE history'[taken']
  <2>1. log' # <<>>
    BY <1>3, <1>6
  <2> QED
    BY <1>1, <1>2, <2>1
<1>10. \A k \in 2..Len(log') : log'[k].gap <=> log'[k].idx # log'[k-1].idx + 1
  <2> SUFFICES ASSUME NEW k \in 2..Len(log')
               PROVE  log'[k].gap <=> log'[k].idx # log'[k-1].idx + 1
    OBVIOUS
  <2>0. k \in 2..(Len(log) + 1) /\ \A n \in 2..Len(log) : log[n].gap <=> log[n].idx # log[n-1].idx + 1
    BY <1>6
  <2> HIDE DEF Written, Followed
  <2>1. CASE k \in 2..Len(log)
    <3>1. k \in 1..Len(log) /\ k - 1 \in 1..Len(log)
      BY <1>3, <2>1
    <3>2. log'[k] = log[k] /\ log'[k-1] = log[k-1]
      BY <1>6, <3>1
    <3> QED
      BY <2>0, <2>1, <3>2
  <2>2. CASE k = Len(log) + 1
    <3>1. Len(log) \in 1..Len(log) /\ k - 1 = Len(log) /\ taken \in 1..Len(history)
      BY <1>3, <2>0, <2>2 DEF Followed
    <3>2. log'[k-1].idx = history[taken] /\ sub_session_index_ = history[taken]
      <4>1. log[Len(log)].idx = history[taken - Len(log) + Len(log)]
        BY <3>1 DEF Followed
      <4>2. taken - Len(log) + Len(log) = taken
        BY <1>3
      <4>3. log # <<>>
        BY <1>3, <3>1
      <4> QED
        BY <1>6, <3>1, <4>1, <4>2, <4>3 DEF Followed
    <3>3. history[taken] \in Nat /\ history[taken] # 0
      <4>1. history[taken] \in 1..session_index_
        BY <3>1, ElementOfSeq DEF Written
      <4> QED
        BY <4>1
    <3>4. log'[k].idx = history[p] /\ (log'[k].gap <=> GapLogged(history[p]))
      BY <1>6, <2>2
    <3>5. GapLogged(history[p]) <=> history[p] # history[taken] + 1
      BY <1>4, <3>2, <3>3 DEF GapLogged
    <3> QED
      BY <3>2, <3>4, <3>5
  <2> QED
    BY <1>3, <1>6, <2>1, <2>2
<1> QED
  BY <1>2, <1>6, <1>7, <1>8, <1>9, <1>10

LEMMA DInvStep == DInv /\ [Next]_vars => DInv'
<1> SUFFICES ASSUME DInv, [Next]_vars PROVE DInv'
  OBVIOUS
<1>1. UNCHANGED <<pub, env>> => Publisher'
  BY DEF DInv, Publisher, NoLostMatch, pub, env
<1>2. UNCHANGED <<sub, sub_env>> => Waiter'
  BY DEF DInv, Waiter, sub, sub_env
<1>3. UNCHANGED <<data, reader>> => Written' /\ Followed'
  BY DEF DInv, Written, Followed, data, reader
<1>4. CASE PublisherStep \/ SpuriousWakeup
  <2>1. UNCHANGED <<sub, sub_env>>
    BY <1>4 DEF PublisherStep, Loop, Lock, Predicate, Block, AfterWait, Period, Write, SpuriousWakeup
  <2>2. (\E ok \in BOOLEAN : Write(ok)) \/ UNCHANGED <<data, reader>>
    BY <1>4 DEF PublisherStep, Loop, Lock, Predicate, Block, AfterWait, Period, SpuriousWakeup
  <2> QED
    BY <1>2, <1>3, <1>4, <2>1, <2>2, PublisherKeeps, WriteKeeps DEF DInv
<1>5. CASE \/ NotifyMatched \/ Stop \/ NotifyStop
           \/ \E change \in {1, -1} : OnPublicationMatched(change)
  <2>1. UNCHANGED <<sub, sub_env>> /\ UNCHANGED <<data, reader>>
    BY <1>5 DEF NotifyMatched, Stop, NotifyStop, OnPublicationMatched
  <2> QED
    BY <1>2, <1>3, <1>5, <2>1, ListenerKeeps DEF DInv
<1>6. CASE SubRun \/ SubStop \/ SubNotifyStop
  <2>1. UNCHANGED <<pub, env>> /\ UNCHANGED <<data, reader>>
    BY <1>6 DEF SubRun, SubStop, SubNotifyStop
  <2> QED
    BY <1>1, <1>3, <1>6, <2>1, WaiterKeeps DEF DInv
<1>7. CASE OnDataAvailable
  <2>1. UNCHANGED <<pub, env>> /\ UNCHANGED <<sub, sub_env>>
    BY <1>7 DEF OnDataAvailable
  <2> QED
    BY <1>1, <1>2, <1>7, <2>1, TakeKeeps DEF DInv
<1>8. CASE UNCHANGED vars
  BY <1>1, <1>2, <1>3, <1>8 DEF vars, DInv
<1> QED
  BY <1>4, <1>5, <1>6, <1>7, <1>8 DEF Next

LEMMA DdsInvariant == Spec => []DInv
  BY InitDInv, DInvStep, PTL DEF Spec

\* For any number of readers every variable keeps its type.
THEOREM DdsTyped == Spec => []TypeOK
<1>1. DInv => TypeOK
  BY DInvTypeOK
<1> QED
  BY <1>1, DdsInvariant, PTL

\* The publisher's run() does not sleep through a match, although matched_ is
\* announced after the lock is released.
THEOREM MatchNotSleptThrough == Spec => []NoLostMatch
<1>1. DInv => NoLostMatch
  BY DInvTypeOK
<1> QED
  BY <1>1, DdsInvariant, PTL

\* The subscriber logs a gap before a sample exactly when the writes just before
\* it had failed.
THEOREM DdsGapsExact == Spec => []GapsExact
<1>1. DInv => GapsExact
  BY DInvGapsExact
<1> QED
  BY <1>1, DdsInvariant, PTL
=============================================================================
