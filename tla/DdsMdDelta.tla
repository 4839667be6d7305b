----------------------------- MODULE DdsMdDelta -----------------------------
(***************************************************************************)
(* The Fast DDS applications: mddeltaPublisherApp, whose run() thread      *)
(* waits on cv_ for a matched reader and then writes samples, and          *)
(* mddeltaSubscriberApp, whose run() thread waits on terminate_cv_ while   *)
(* the DDS listener thread takes samples.  Both are stopped from a signal  *)
(* handler, which stores stop_ and notifies without taking the mutex.      *)
(*                                                                         *)
(* Fast DDS is external: a write may fail; what was written is taken by    *)
(* the reader in order and without loss (RELIABLE, KEEP_ALL), from some    *)
(* sample on for a reader that joined late.                                *)
(***************************************************************************)
EXTENDS Integers, Sequences

CONSTANTS
  MaxReaders,   \* bound: readers matched at a time
  MaxRecorded   \* bound: samples followed from writer to reader; later ones
                \* are written, but not recorded

ASSUME DdsAssumption == MaxReaders \in Nat \ {0} /\ MaxRecorded \in Nat

VARIABLES
  pc,                   \* where the publisher's run() is
  mutex_,               \* TRUE while run() holds it between two of its steps
  notified,             \* a notify_one has reached run() in cv_.wait
  matched_,
  listener,             \* on_publication_matched has still to notify
  stop_,
  stopping,             \* stop() has stored stop_ and has still to notify
  session_index_,
  history,              \* session indices of the samples written successfully
  taken,                \* number of them the reader is past
  sub_pc,               \* where the subscriber's run() is
  sub_notified,
  sub_stop_,
  sub_stopping,
  sub_session_index_,
  log                   \* history: samples taken, and whether a gap was logged

pub == <<pc, mutex_, notified>>
env == <<matched_, listener, stop_, stopping>>
data == <<session_index_, history>>
sub == <<sub_pc, sub_notified>>
sub_env == <<sub_stop_, sub_stopping>>
reader == <<taken, sub_session_index_, log>>
vars == <<pub, env, data, sub, sub_env, reader>>

Init ==
  /\ pc = "loop" /\ mutex_ = FALSE /\ notified = FALSE
  /\ matched_ = 0 /\ listener = FALSE
  /\ stop_ = FALSE /\ stopping = FALSE
  /\ session_index_ = 0 /\ history = <<>>
  /\ sub_pc = "lock" /\ sub_notified = FALSE
  /\ sub_stop_ = FALSE /\ sub_stopping = FALSE
  /\ taken = 0 /\ sub_session_index_ = 0 /\ log = <<>>

-----------------------------------------------------------------------------
(* mddeltaPublisherApp: the run() thread. *)

\* run(): while (!is_stopped())
Loop ==
  /\ pc = "loop"
  /\ pc' = IF stop_ THEN "done" ELSE "lock"
  /\ UNCHANGED <<mutex_, notified, env, data, sub, sub_env, reader>>

\* publish() takes mutex_ to test the predicate; cv_.wait takes it again when
\* it is woken up, by a notification or spuriously.
Lock ==
  /\ pc \in {"lock", "blocked"}
  /\ pc = "blocked" => notified
  /\ pc' = "predicate"
  /\ mutex_' = TRUE
  /\ notified' = FALSE
  /\ UNCHANGED <<env, data, sub, sub_env, reader>>

SpuriousWakeup ==
  /\ pc = "blocked"
  /\ pc' = "predicate"
  /\ mutex_' = TRUE
  /\ UNCHANGED <<notified, env, data, sub, sub_env, reader>>

Predicate ==
  /\ pc = "predicate"
  /\ pc' = IF matched_ > 0 \/ stop_ THEN "matched" ELSE "blocking"
  /\ UNCHANGED <<mutex_, notified, env, data, sub, sub_env, reader>>

Block ==
  /\ pc = "blocking"
  /\ pc' = "blocked"
  /\ mutex_' = FALSE
  /\ UNCHANGED <<notified, env, data, sub, sub_env, reader>>

\* publish(): if (!is_stopped())
AfterWait ==
  /\ pc = "matched"
  /\ pc' = IF stop_ THEN "period" ELSE "write"
  /\ mutex_' = ~stop_
  /\ UNCHANGED <<notified, env, data, sub, sub_env, reader>>

\* Mutant: the index is incremented after its use.
MutWrite(ok) ==
  /\ pc = "write"
  /\ pc' = "period"
  /\ mutex_' = FALSE
  /\ IF session_index_ < MaxRecorded
       THEN /\ session_index_' = session_index_ + 1
            /\ history' = IF ok THEN Append(history, session_index_) ELSE history
       ELSE UNCHANGED data
  /\ UNCHANGED <<notified, env, sub, sub_env, reader>>

\* The session index is used up before write() is called, which may fail.
Write(ok) ==
  /\ pc = "write"
  /\ pc' = "period"
  /\ mutex_' = FALSE
  /\ IF session_index_ < MaxRecorded
       THEN /\ session_index_' = session_index_ + 1
            /\ history' = IF ok THEN Append(history, session_index_ + 1) ELSE history
       ELSE UNCHANGED data
  /\ UNCHANGED <<notified, env, sub, sub_env, reader>>

\* The wait for publisher_spin_sleep_ns_, if configured, ends by itself.
Period ==
  /\ pc = "period"
  /\ pc' = "loop"
  /\ UNCHANGED <<mutex_, notified, env, data, sub, sub_env, reader>>

-----------------------------------------------------------------------------
(* mddeltaPublisherApp: the DDS listener thread and the signal handler. *)

\* Mutant: matched_ is stored without the lock.
MutOnPublicationMatched(change) ==
  /\ ~listener
  /\ matched_ + change \in 0..MaxReaders
  /\ matched_' = matched_ + change
  /\ listener' = (change = 1)
  /\ UNCHANGED <<stop_, stopping, pub, data, sub, sub_env, reader>>

\* on_publication_matched: matched_ is set under the lock, ...
OnPublicationMatched(change) ==
  /\ ~listener
  /\ ~mutex_
  /\ matched_ + change \in 0..MaxReaders
  /\ matched_' = matched_ + change
  /\ listener' = (change = 1)
  /\ UNCHANGED <<stop_, stopping, pub, data, sub, sub_env, reader>>

\* Mutant: a new match is printed, but not notified.
MutNotifyMatched ==
  /\ listener
  /\ listener' = FALSE
  /\ UNCHANGED <<matched_, stop_, stopping, pub, data, sub, sub_env, reader>>

\* ... and a new match is notified after it.
NotifyMatched ==
  /\ listener
  /\ listener' = FALSE
  /\ notified' = (notified \/ pc = "blocked")
  /\ UNCHANGED <<matched_, stop_, stopping, pc, mutex_, data, sub, sub_env, reader>>

\* stop(): two steps, neither under the lock.
Stop ==
  /\ ~stopping
  /\ stop_' = TRUE
  /\ stopping' = TRUE
  /\ UNCHANGED <<matched_, listener, pub, data, sub, sub_env, reader>>

NotifyStop ==
  /\ stopping
  /\ stopping' = FALSE
  /\ notified' = (notified \/ pc = "blocked")
  /\ UNCHANGED <<matched_, listener, stop_, pc, mutex_, data, sub, sub_env, reader>>

-----------------------------------------------------------------------------
(* mddeltaSubscriberApp. *)

\* run(): terminate_cv_.wait.  Nobody else takes terminate_cv_mtx_.
SubRun ==
  /\ \/ /\ sub_pc = "lock" \/ (sub_pc = "blocked" /\ sub_notified)
        /\ sub_pc' = "predicate"
        /\ sub_notified' = FALSE
     \/ /\ sub_pc = "predicate"
        /\ sub_pc' = IF sub_stop_ THEN "done" ELSE "blocking"
        /\ UNCHANGED sub_notified
     \/ /\ sub_pc = "blocking"
        /\ sub_pc' = "blocked"
        /\ UNCHANGED sub_notified
  /\ UNCHANGED <<pub, env, data, sub_env, reader>>

SubStop ==
  /\ ~sub_stopping
  /\ sub_stop_' = TRUE
  /\ sub_stopping' = TRUE
  /\ UNCHANGED <<pub, env, data, sub, reader>>

SubNotifyStop ==
  /\ sub_stopping
  /\ sub_stopping' = FALSE
  /\ sub_notified' = (sub_notified \/ sub_pc = "blocked")
  /\ UNCHANGED <<pub, env, data, sub_pc, sub_stop_, reader>>

\* Mutant: the reader's index is compared with the sample's own.
MutGapLogged(i) == sub_session_index_ # 0 /\ sub_session_index_ # i

\* on_data_available: no check while nothing has been taken.
GapLogged(i) == sub_session_index_ # 0 /\ sub_session_index_ # i - 1

\* One turn of on_data_available's loop.
OnDataAvailable ==
  /\ ~sub_stop_
  /\ \E p \in (taken + 1)..Len(history) :
       /\ log # <<>> => p = taken + 1
       /\ taken' = p
       /\ sub_session_index_' = history[p]
       /\ log' = Append(log, [idx |-> history[p], gap |-> GapLogged(history[p])])
  /\ UNCHANGED <<pub, env, data, sub, sub_env>>

-----------------------------------------------------------------------------
PublisherStep ==
  \/ Loop \/ Lock \/ Predicate \/ Block \/ AfterWait \/ Period
  \/ \E ok \in BOOLEAN : Write(ok)

Next ==
  \/ PublisherStep \/ SpuriousWakeup
  \/ \E change \in {1, -1} : OnPublicationMatched(change)
  \/ NotifyMatched \/ Stop \/ NotifyStop
  \/ SubRun \/ SubStop \/ SubNotifyStop \/ OnDataAvailable

\* The two run() threads run on, and who has set a variable goes on to notify.
\* Nothing obliges readers to come or go, or the user to stop a program.
Fairness ==
  /\ WF_vars(PublisherStep)
  /\ WF_vars(NotifyMatched)
  /\ WF_vars(NotifyStop)
  /\ WF_vars(SubRun)
  /\ WF_vars(SubNotifyStop)

Spec == Init /\ [][Next]_vars /\ Fairness

-----------------------------------------------------------------------------
(* Properties. *)

\* Types; run() holds mutex_ exactly between the lock and the end of publish()
\* or of cv_.wait.
TypeOK ==
  /\ pc \in {"loop", "lock", "predicate", "blocking", "blocked", "matched", "write",
            "period", "done"}
  /\ mutex_ <=> pc \in {"predicate", "blocking", "matched", "write"}
  /\ matched_ \in 0..MaxReaders
  /\ {mutex_, notified, listener, stop_, stopping} \subseteq BOOLEAN
  /\ session_index_ \in 0..MaxRecorded
  /\ history \in Seq(1..session_index_)
  /\ sub_pc \in {"lock", "predicate", "blocking", "blocked", "done"}
  /\ {sub_notified, sub_stop_, sub_stopping} \subseteq BOOLEAN
  /\ taken \in 0..Len(history)
  /\ sub_session_index_ \in 0..session_index_
  /\ log \in Seq([idx : 1..MaxRecorded, gap : BOOLEAN])

\* run() is not blocked with a reader matched and no notification on its way,
\* although the listener notifies after it has released mutex_.
NoLostMatch == pc = "blocked" /\ matched_ > 0 => notified \/ listener

\* The reader logs a gap before a sample exactly when write() failed for the
\* samples just before it, except before the first sample it takes: its check
\* reports each failed write and no other.  That there are such gaps at all is
\* not what README.md:110 says, "DDS also keeps packets in line without any gaps":
\* publish() uses up an index before write(), and never writes a sample again.
GapsExact ==
  \A k \in 2..Len(log) :
    log[k].gap <=> \E i \in (log[k-1].idx + 1)..(log[k].idx - 1) :
                     \A j \in 1..Len(history) : history[j] # i

\* With a reader matched and the publisher not stopped, run() keeps writing.
KeepsWriting == <>[](matched_ > 0 /\ ~stop_) => []<>(pc = "write")

\* mddeltamain: "Please press Ctrl+C to stop the publisher at any time" (and
\* likewise the subscriber): a stop ends run().
StopsWhenAsked ==
  /\ stop_ ~> pc = "done"
  /\ sub_stop_ ~> sub_pc = "done"
=============================================================================
