---------------------------- MODULE KafkaConsumer ----------------------------
(***************************************************************************)
(* The Kafka consumer of pkg/broker/kafka/consumer.go: one consume loop    *)
(* per subscription (Subscribe, consumeLoop, processMessage), Stop running *)
(* in another goroutine, the cancellation of the context given to          *)
(* Subscribe, and crashes of the process.  A subscription reads one topic  *)
(* partition that no other subscription reads; the reader and the offsets  *)
(* committed at the broker are external (kafka-go and Kafka).              *)
(*                                                                         *)
(* Data abstractions.  A message is its offset.  Topics, keys, headers,    *)
(* spans and log lines are left out; a handler call is its result.         *)
(***************************************************************************)
EXTENDS Integers

CONSTANTS
    Subs,           \* subscriptions
    LogLen,         \* messages in each topic
    MaxRetries,     \* WithRetry(maxRetries, ...), which does not check it: with
                    \* a negative one no handler would be called
    FetchErrors,    \* FetchMessage may fail although nothing was shut down
    MaxCrashes      \* bound on the crashes of the process

ASSUME ConsumerAssumption ==
    /\ LogLen \in Nat
    /\ MaxRetries \in Nat
    /\ FetchErrors \in BOOLEAN
    /\ MaxCrashes \in Nat

VARIABLES
    hasDLQ,     \* WithDLQ was given to NewConsumer
    sub,        \* how far Subscribe has got: "none", "registered", "running"
    cancelled,  \* the loop's context is done
    closed,     \* the reader is closed
    wg,         \* Consumer.wg
    loop,       \* where the loop's goroutine is
    cur,        \* offset of the message being processed
    attempt,    \* failed handler calls for that message
    stopPc,     \* where Stop is
    stopSnap,   \* the subscriptions in Stop's copies of readers and cancels
    todo,       \* those its current loop has not reached yet
    crashes

\* Kafka and the reader.
VARIABLES
    pos,        \* next offset the reader delivers
    committed   \* committed offset of the consumer group

\* History.
VARIABLES
    settled,    \* offsets handled, dead-lettered, or given up without a DLQ
    abandoned,  \* offsets processMessage returned from without settling
    dealt,      \* dealt[s][o]: how often either happened to offset o
    looping     \* subscriptions whose loop existed when Stop took its copies

loopVars == <<sub, cancelled, closed, wg, loop, cur, attempt>>
stopVars == <<stopPc, stopSnap, todo, looping>>
logVars  == <<pos, committed, settled, abandoned, dealt>>
envVars  == <<hasDLQ, crashes>>
vars     == <<loopVars, stopVars, logVars, envVars>>

Attempts == 1 + MaxRetries

Offsets == 0..(LogLen - 1)

Processing == {"handle", "retry", "dlq", "commit"}
LoopStates == {"none", "fetch", "exited"} \cup Processing

Init ==
    /\ hasDLQ \in BOOLEAN
    /\ sub = [s \in Subs |-> "none"]
    /\ cancelled = [s \in Subs |-> FALSE]
    /\ closed = [s \in Subs |-> FALSE]
    /\ wg = 0
    /\ loop = [s \in Subs |-> "none"]
    /\ cur = [s \in Subs |-> 0]
    /\ attempt = [s \in Subs |-> 0]
    /\ stopPc = "idle" /\ stopSnap = {} /\ todo = {}
    /\ looping = {}
    /\ pos = [s \in Subs |-> 0]
    /\ committed = [s \in Subs |-> 0]
    /\ settled = [s \in Subs |-> {}]
    /\ abandoned = [s \in Subs |-> {}]
    /\ dealt = [s \in Subs |-> [o \in Offsets |-> 0]]
    /\ crashes = 0

-----------------------------------------------------------------------------
(* Subscribe.                                                              *)

\* Mutation: the reader is created at the start of the topic.
SubscribeAtStart(s) ==
    /\ sub[s] = "none"
    /\ sub' = [sub EXCEPT ![s] = "registered"]
    /\ pos' = [pos EXCEPT ![s] = 0]
    /\ UNCHANGED <<cancelled, closed, wg, loop, cur, attempt, stopVars,
                   committed, settled, abandoned, dealt, envVars>>

\* The reader is created at the committed offset of the group and recorded
\* together with the cancel function of the loop's context.
Subscribe(s) ==
    /\ sub[s] = "none"
    /\ sub' = [sub EXCEPT ![s] = "registered"]
    /\ pos' = [pos EXCEPT ![s] = committed[s]]
    /\ UNCHANGED <<cancelled, closed, wg, loop, cur, attempt, stopVars,
                   committed, settled, abandoned, dealt, envVars>>

\* wg.Add(1) and the goroutine, after the lock is released.
StartLoop(s) ==
    /\ sub[s] = "registered"
    /\ sub' = [sub EXCEPT ![s] = "running"]
    /\ wg' = wg + 1
    /\ loop' = [loop EXCEPT ![s] = "fetch"]
    /\ UNCHANGED <<cancelled, closed, cur, attempt, stopVars, logVars, envVars>>

\* The context given to Subscribe is cancelled by its owner.
ParentCancel(s) ==
    /\ sub[s] # "none"
    /\ ~cancelled[s]
    /\ cancelled' = [cancelled EXCEPT ![s] = TRUE]
    /\ UNCHANGED <<sub, closed, wg, loop, cur, attempt, stopVars, logVars, envVars>>

-----------------------------------------------------------------------------
(* consumeLoop.  FetchMessage selects between the context and the buffered *)
(* messages, so a cancelled context does not keep it from delivering one.  *)

FetchMessage(s) ==
    /\ loop[s] = "fetch"
    /\ ~closed[s]
    /\ pos[s] < LogLen
    /\ cur' = [cur EXCEPT ![s] = pos[s]]
    /\ pos' = [pos EXCEPT ![s] = @ + 1]
    /\ attempt' = [attempt EXCEPT ![s] = 0]
    /\ loop' = [loop EXCEPT ![s] = "handle"]
    /\ UNCHANGED <<sub, cancelled, closed, wg, stopVars, committed, settled,
                   abandoned, dealt, envVars>>

\* The error return of FetchMessage ends the loop and its goroutine.
ExitLoop(s) ==
    /\ loop' = [loop EXCEPT ![s] = "exited"]
    /\ wg' = wg - 1
    /\ UNCHANGED <<sub, cancelled, closed, cur, attempt, stopVars, logVars, envVars>>

\* Mutation: the loop tries again although the reader is closed.
FetchEndsOnCancelOnly(s) ==
    /\ loop[s] = "fetch"
    /\ cancelled[s] /\ ~closed[s]
    /\ ExitLoop(s)

\* FetchMessage fails because the context is done or the reader closed.
FetchEnds(s) ==
    /\ loop[s] = "fetch"
    /\ cancelled[s] \/ closed[s]
    /\ ExitLoop(s)

\* FetchMessage fails for another reason, which ends the loop just the same.
FetchBreaks(s) ==
    /\ loop[s] = "fetch"
    /\ FetchErrors
    /\ ~cancelled[s] /\ ~closed[s]
    /\ ExitLoop(s)

-----------------------------------------------------------------------------
(* processMessage.                                                         *)

\* The end of the message's processing: back to FetchMessage.
Leave(s) == loop' = [loop EXCEPT ![s] = "fetch"]

Deal(s)    == dealt' = [dealt EXCEPT ![s][cur[s]] = @ + 1]
Settle(s)  == settled' = [settled EXCEPT ![s] = @ \cup {cur[s]}] /\ Deal(s)
Abandon(s) == abandoned' = [abandoned EXCEPT ![s] = @ \cup {cur[s]}] /\ Deal(s)

HandlerSucceeds(s) ==
    /\ loop[s] = "handle"
    /\ Settle(s)
    /\ loop' = [loop EXCEPT ![s] = "commit"]
    /\ UNCHANGED <<sub, cancelled, closed, wg, cur, attempt, stopVars, pos,
                   committed, abandoned, envVars>>

\* Mutation: the retry loop has no counter.
HandlerFailsForever(s) ==
    /\ loop[s] = "handle"
    /\ loop' = [loop EXCEPT ![s] = "retry"]
    /\ UNCHANGED <<sub, cancelled, closed, wg, cur, attempt, stopVars, logVars, envVars>>

\* After the last attempt the message goes to the DLQ if there is one, and is
\* given up otherwise.
HandlerFails(s) ==
    /\ loop[s] = "handle"
    /\ attempt' = [attempt EXCEPT ![s] = @ + 1]
    /\ \/ /\ attempt[s] < MaxRetries
          /\ loop' = [loop EXCEPT ![s] = "retry"]
          /\ UNCHANGED <<settled, dealt>>
       \/ /\ attempt[s] = MaxRetries
          /\ hasDLQ
          /\ loop' = [loop EXCEPT ![s] = "dlq"]
          /\ UNCHANGED <<settled, dealt>>
       \/ /\ attempt[s] = MaxRetries
          /\ ~hasDLQ
          /\ loop' = [loop EXCEPT ![s] = "commit"]
          /\ Settle(s)
    /\ UNCHANGED <<sub, cancelled, closed, wg, cur, stopVars, pos, committed,
                   abandoned, envVars>>

BackoffElapses(s) ==
    /\ loop[s] = "retry"
    /\ loop' = [loop EXCEPT ![s] = "handle"]
    /\ UNCHANGED <<sub, cancelled, closed, wg, cur, attempt, stopVars, logVars, envVars>>

\* Mutation: the cancelled backoff leaves the retry loop instead of returning.
BackoffCancelledCommits(s) ==
    /\ loop[s] = "retry"
    /\ cancelled[s]
    /\ loop' = [loop EXCEPT ![s] = "commit"]
    /\ UNCHANGED <<sub, cancelled, closed, wg, cur, attempt, stopVars, logVars, envVars>>

\* The context is done during the backoff: return without a commit.
BackoffCancelled(s) ==
    /\ loop[s] = "retry"
    /\ cancelled[s]
    /\ Abandon(s)
    /\ Leave(s)
    /\ UNCHANGED <<sub, cancelled, closed, wg, cur, attempt, stopVars, pos,
                   committed, settled, envVars>>

DlqPublished(s) ==
    /\ loop[s] = "dlq"
    /\ Settle(s)
    /\ loop' = [loop EXCEPT ![s] = "commit"]
    /\ UNCHANGED <<sub, cancelled, closed, wg, cur, attempt, stopVars, pos,
                   committed, abandoned, envVars>>

\* Mutation: the return after a failed DLQ publish is missing.
DlqFailsThenCommits(s) ==
    /\ loop[s] = "dlq"
    /\ loop' = [loop EXCEPT ![s] = "commit"]
    /\ UNCHANGED <<sub, cancelled, closed, wg, cur, attempt, stopVars, logVars, envVars>>

\* The DLQ publish fails: return without a commit.
DlqFails(s) ==
    /\ loop[s] = "dlq"
    /\ Abandon(s)
    /\ Leave(s)
    /\ UNCHANGED <<sub, cancelled, closed, wg, cur, attempt, stopVars, pos,
                   committed, settled, envVars>>

\* CommitMessages moves the group's offset past the message.
CommitMessage(s) ==
    /\ loop[s] = "commit"
    /\ ~closed[s]
    /\ committed' = [committed EXCEPT ![s] = cur[s] + 1]
    /\ Leave(s)
    /\ UNCHANGED <<sub, cancelled, closed, wg, cur, attempt, stopVars, pos,
                   settled, abandoned, dealt, envVars>>

\* A commit error is only logged.
CommitFails(s) ==
    /\ loop[s] = "commit"
    /\ Leave(s)
    /\ UNCHANGED <<sub, cancelled, closed, wg, cur, attempt, stopVars, logVars, envVars>>

-----------------------------------------------------------------------------
(* Stop.                                                                   *)

StopSnapshot ==
    /\ stopPc = "idle"
    /\ stopSnap' = {s \in Subs : sub[s] # "none"}
    /\ todo' = stopSnap'
    /\ looping' = {s \in Subs : sub[s] = "running"}
    /\ stopPc' = "cancel"
    /\ UNCHANGED <<loopVars, logVars, envVars>>

StopCancel(s) ==
    /\ stopPc = "cancel"
    /\ s \in todo
    /\ cancelled' = [cancelled EXCEPT ![s] = TRUE]
    /\ todo' = todo \ {s}
    /\ UNCHANGED <<sub, closed, wg, loop, cur, attempt, stopPc, stopSnap,
                   looping, logVars, envVars>>

StopCancelled ==
    /\ stopPc = "cancel"
    /\ todo = {}
    /\ todo' = stopSnap
    /\ stopPc' = "close"
    /\ UNCHANGED <<stopSnap, looping, loopVars, logVars, envVars>>

StopClose(s) ==
    /\ stopPc = "close"
    /\ s \in todo
    /\ closed' = [closed EXCEPT ![s] = TRUE]
    /\ todo' = todo \ {s}
    /\ UNCHANGED <<sub, cancelled, wg, loop, cur, attempt, stopPc, stopSnap,
                   looping, logVars, envVars>>

StopClosed ==
    /\ stopPc = "close"
    /\ todo = {}
    /\ stopPc' = "wait"
    /\ UNCHANGED <<stopSnap, todo, looping, loopVars, logVars, envVars>>

\* Mutation: Stop does not wait for the loops.
StopReturnsAtOnce ==
    /\ stopPc = "wait"
    /\ stopPc' = "returned"
    /\ UNCHANGED <<stopSnap, todo, looping, loopVars, logVars, envVars>>

\* wg.Wait(); the context passed to Stop is not looked at.
StopReturns ==
    /\ stopPc = "wait"
    /\ wg = 0
    /\ stopPc' = "returned"
    /\ UNCHANGED <<stopSnap, todo, looping, loopVars, logVars, envVars>>

\* The process dies; only the committed offsets survive.
Crash ==
    /\ crashes < MaxCrashes
    /\ crashes' = crashes + 1
    /\ sub' = [s \in Subs |-> "none"]
    /\ cancelled' = [s \in Subs |-> FALSE]
    /\ closed' = [s \in Subs |-> FALSE]
    /\ wg' = 0
    /\ loop' = [s \in Subs |-> "none"]
    /\ cur' = [s \in Subs |-> 0]
    /\ attempt' = [s \in Subs |-> 0]
    /\ stopPc' = "idle" /\ stopSnap' = {} /\ todo' = {}
    /\ looping' = {}
    /\ UNCHANGED <<hasDLQ, logVars>>

-----------------------------------------------------------------------------
HandlerReturns(s) == HandlerSucceeds(s) \/ HandlerFails(s)

\* The steps of a loop other than the return of the user's handler.
LoopStep(s) ==
    \/ StartLoop(s)
    \/ FetchMessage(s) \/ FetchEnds(s)
    \/ BackoffElapses(s) \/ BackoffCancelled(s)
    \/ DlqPublished(s) \/ DlqFails(s)
    \/ CommitMessage(s) \/ CommitFails(s)

StopStep ==
    \/ \E s \in Subs : StopCancel(s) \/ StopClose(s)
    \/ StopCancelled \/ StopClosed \/ StopReturns

Next ==
    \/ \E s \in Subs : Subscribe(s) \/ ParentCancel(s)
    \/ \E s \in Subs : FetchBreaks(s) \/ HandlerReturns(s) \/ LoopStep(s)
    \/ StopSnapshot \/ StopStep
    \/ Crash

Safety == Init /\ [][Next]_vars

\* Goroutines are scheduled, timers fire, and calls into the client return.
SystemFairness ==
    /\ \A s \in Subs : WF_vars(LoopStep(s))
    /\ WF_vars(StopStep)

\* The user's handler always returns.
HandlerFairness == \A s \in Subs : WF_vars(HandlerReturns(s))

Spec == Safety /\ SystemFairness /\ HandlerFairness

-----------------------------------------------------------------------------
(* Properties.                                                             *)

LoopTypes ==
    /\ sub \in [Subs -> {"none", "registered", "running"}]
    /\ cancelled \in [Subs -> BOOLEAN]
    /\ closed \in [Subs -> BOOLEAN]
    /\ wg \in Int
    /\ loop \in [Subs -> LoopStates]
    /\ cur \in [Subs -> Nat]
    /\ attempt \in [Subs -> 0..Attempts]

StopTypes ==
    /\ stopPc \in {"idle", "cancel", "close", "wait", "returned"}
    /\ stopSnap \subseteq Subs
    /\ todo \subseteq Subs
    /\ looping \subseteq Subs
    /\ crashes \in 0..MaxCrashes
    /\ hasDLQ \in BOOLEAN

LogTypes ==
    /\ pos \in [Subs -> 0..LogLen]
    /\ committed \in [Subs -> 0..LogLen]
    /\ settled \in [Subs -> SUBSET Offsets]
    /\ abandoned \in [Subs -> SUBSET Offsets]

\* The values of the consumer and of the log; a handler is called at most
\* 1 + maxRetries times for a message.
TypeOK == LoopTypes /\ StopTypes /\ LogTypes /\ dealt \in [Subs -> [Offsets -> Nat]]

\* Through retries, DLQ routing, shutdown and crashes, an offset is committed
\* only for messages that were settled, or that processMessage left behind on
\* purpose: it never passes over a message nobody looked at.
CommitAccountsForAll ==
    \A s \in Subs : \A o \in Offsets :
        o < committed[s] => o \in settled[s] \cup abandoned[s]

\* A message reaches the DLQ only when its handler has failed 1 + maxRetries
\* times, whatever cancellations happen in between, and the offset about to be
\* committed is that of a settled message.
RetryBudget ==
    \A s \in Subs :
        /\ loop[s] = "dlq" => hasDLQ /\ attempt[s] = Attempts
        /\ loop[s] = "retry" => attempt[s] \in 1..MaxRetries
        /\ loop[s] = "commit" => cur[s] \in settled[s]

\* When Stop returns, every loop that existed when Stop was called has ended:
\* its handlers have completed and none will run again.
StopQuiesces ==
    stopPc = "returned" => \A s \in looping : loop[s] = "exited"

SubscribedTooLate == \E s \in Subs \ stopSnap : sub[s] # "none"

\* When handlers return, Stop returns, or the process crashes first, or some
\* Subscribe ran past Stop's copy of the readers: wg.Wait then waits for a loop
\* that nobody cancels.
StopTerminates ==
    (stopPc = "cancel") ~> (stopPc \in {"returned", "idle"} \/ SubscribedTooLate)

\* A running loop gets through the topic: every message is settled or left
\* behind, unless the loop ends or the process crashes.
LoopProgress ==
    \A s \in Subs :
        (loop[s] = "fetch") ~>
            \/ \A o \in Offsets : o \in settled[s] \cup abandoned[s]
            \/ loop[s] \in {"exited", "none"}

Contract == INSTANCE DeliveryContract WITH
    Topics <- Subs, Length <- LogLen, offset <- committed, done <- settled, left <- abandoned

\* The consumer implements DeliveryContract: it deals with the messages of a
\* topic in order; through failed commits, shutdowns and crashes, after which
\* messages come again, the group's offset never goes back and moves only to just
\* past a settled message (over those left behind before it, see NoMessageLost);
\* and no message below the offset is settled or left once more.
ImplementsDelivery == Contract!Spec

\* With a DLQ, an offset is committed only past messages that were handled or
\* dead-lettered.
NoMessageLost ==
    hasDLQ => \A s \in Subs : \A o \in Offsets :
                  o < committed[s] => o \in settled[s]

=============================================================================
