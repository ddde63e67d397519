----------------------------- MODULE Publication -----------------------------
(***************************************************************************)
(* One daemon and the callers of Inbox::publish_capability: the bounded     *)
(* command channel, the put_record queries of a card, one per LSH table,   *)
(* the acknowledgement wired to the last of them, the lossy channel of     *)
(* KitedEvents, shutdown, and the errors that end the event loop.          *)
(*                                                                         *)
(* A call is one invocation with its card, or with a query that cannot be  *)
(* hashed; the query ids kademlia draws are named <<call, table>>.         *)
(* Results of queries come back in any order.                              *)
(***************************************************************************)
EXTENDS Naturals, Sequences, FiniteSets

CONSTANTS
    Call,       \* invocations of publish_capability
    Invalid,    \* the calls whose card verify or build_records rejects
    Misfit,     \* calls of submit_intent instead, with a query vector of
                \* another length than the hash planes
    L,          \* LSH tables, hence directory records per card
    QueueSize,  \* capacity of the command channel
    EventSize,  \* capacity of the event channel
    SHUTDOWN    \* Command::Shutdown

ASSUME CallAssumption == Invalid \cup Misfit \subseteq Call /\ SHUTDOWN \notin Call
ASSUME SizeAssumption ==
    L \in Nat \ {0} /\ QueueSize \in Nat \ {0} /\ EventSize \in Nat \ {0}

VARIABLES
    caller,                \* caller[q]: how far the invocation q got
    stopper,               \* the one caller of Inbox::shutdown
    cmds,                  \* the command channel
    loop,                  \* the event loop: running or how it ended
    puts,                  \* put_record queries under way
    pending_publish_acks,  \* query ids with a PublishAck
    stored,                \* history: queries that ended with Ok
    events                 \* CapabilityPublished events not yet read

vars == <<caller, stopper, cmds, loop, puts, pending_publish_acks, stored,
          events>>
-----------------------------------------------------------------------------
Tables == 1..L
Query == Call \X Tables
Command == Call \cup {SHUTDOWN}
Event == [call : Call, record_count : Nat]

\* "sending" waits for room in the channel, "awaiting" for the oneshot; "ok"
\* and "err" are what was sent through it, "closed" is a channel error.
CallerState == {"idle", "sending", "awaiting", "ok", "err", "closed"}

TypeOK ==
    /\ caller \in [Call -> CallerState]
    /\ stopper \in {"idle", "sending", "done"}
    /\ cmds \in Seq(Command) /\ Len(cmds) <= QueueSize
    /\ loop \in {"running", "ended", "failed", "panicked"}
    /\ puts \subseteq Query
    /\ pending_publish_acks \subseteq Query
    /\ stored \subseteq Query
    /\ events \in Seq(Event) /\ Len(events) <= EventSize

\* A variant of Remaining: the sender is kept "on the *first* qid only".
RemainingFirst(t) == IF t = 1 THEN L ELSE 0

\* The field `remaining' of the PublishAck of a query: the ack of the last one
\* has the caller's sender, the others a throwaway.
Remaining(t) == IF t = L THEN L ELSE 0

\* The callers whose oneshot sender dies with the event loop: it is in the
\* channel or in pending_publish_acks.
Owed == {q \in Call : \/ \E i \in 1..Len(cmds) : cmds[i] = q
                      \/ <<q, L>> \in pending_publish_acks}
-----------------------------------------------------------------------------
Init ==
    /\ caller = [q \in Call |-> "idle"]
    /\ stopper = "idle"
    /\ cmds = <<>>
    /\ loop = "running"
    /\ puts = {}
    /\ pending_publish_acks = {}
    /\ stored = {}
    /\ events = <<>>

\* Inbox::publish_capability and Inbox::shutdown are called.
Invoke(q) ==
    /\ caller[q] = "idle"
    /\ caller' = [caller EXCEPT ![q] = "sending"]
    /\ UNCHANGED <<stopper, cmds, loop, puts, pending_publish_acks, stored,
                   events>>

InvokeShutdown ==
    /\ stopper = "idle"
    /\ stopper' = "sending"
    /\ UNCHANGED <<caller, cmds, loop, puts, pending_publish_acks, stored,
                   events>>

\* A variant of Send: an unbounded channel.
SendUnbounded(q) ==
    /\ caller[q] = "sending"
    /\ loop = "running"
    /\ cmds' = Append(cmds, q)
    /\ caller' = [caller EXCEPT ![q] = "awaiting"]
    /\ UNCHANGED <<stopper, loop, puts, pending_publish_acks, stored, events>>

\* mpsc::Sender::send: waits for room, fails when the receiver is gone.
Send(q) ==
    /\ caller[q] = "sending"
    /\ \/ /\ loop = "running"
          /\ Len(cmds) < QueueSize
          /\ cmds' = Append(cmds, q)
          /\ caller' = [caller EXCEPT ![q] = "awaiting"]
       \/ /\ loop # "running"
          /\ caller' = [caller EXCEPT ![q] = "closed"]
          /\ UNCHANGED cmds
    /\ UNCHANGED <<stopper, loop, puts, pending_publish_acks, stored, events>>

\* A variant of SendShutdown: try_send.
TrySendShutdown ==
    /\ stopper = "sending"
    /\ cmds' = IF loop = "running" /\ Len(cmds) < QueueSize
                   THEN Append(cmds, SHUTDOWN) ELSE cmds
    /\ stopper' = "done"
    /\ UNCHANGED <<caller, loop, puts, pending_publish_acks, stored, events>>

\* Inbox::shutdown ignores a send error.
SendShutdown ==
    /\ stopper = "sending"
    /\ \/ loop = "running" /\ Len(cmds) < QueueSize
          /\ cmds' = Append(cmds, SHUTDOWN)
       \/ loop # "running" /\ UNCHANGED cmds
    /\ stopper' = "done"
    /\ UNCHANGED <<caller, loop, puts, pending_publish_acks, stored, events>>

\* A variant of End: commands still in the channel are not drained.
EndUndrained(how, dropped) ==
    /\ loop' = how
    /\ caller' = [q \in Call |->
                    IF <<q, L>> \in pending_publish_acks \/ q \in dropped
                        THEN "closed" ELSE caller[q]]
    /\ cmds' = <<>>
    /\ puts' = {}
    /\ pending_publish_acks' = {}
    /\ UNCHANGED <<stopper, stored, events>>

\* State::run returns: the state is dropped, with the channel, the swarm and
\* every oneshot sender, those in dropped included.
End(how, dropped) ==
    /\ loop' = how
    /\ caller' = [q \in Call |->
                    IF q \in Owed \cup dropped THEN "closed" ELSE caller[q]]
    /\ cmds' = <<>>
    /\ puts' = {}
    /\ pending_publish_acks' = {}
    /\ UNCHANGED <<stopper, stored, events>>

\* publish: one put_record per table, one PublishAck per query.
Publish(q) ==
    /\ q \notin Invalid
    /\ cmds' = Tail(cmds)
    /\ puts' = puts \cup ({q} \X Tables)
    /\ pending_publish_acks' = pending_publish_acks \cup ({q} \X Tables)
    /\ UNCHANGED <<caller, stopper, loop, stored, events>>

\* publish returns an error, and so does the loop: the card is rejected, or
\* put_record finds the local record store full or the record too large.
PublishFails(q) == End("failed", {q})

\* submit_intent hashes its query vector before anything else, and the
\* assertion on its length panics the task of the loop.
SubmitPanics(q) == End("panicked", {q})

\* recv returns None only when every Inbox is gone, and a call borrows its own
\* until it returns: that arm ends a loop that nobody waits for.
HandleCommand ==
    /\ loop = "running"
    /\ cmds # <<>>
    /\ LET cmd == Head(cmds) IN
          \/ cmd \in Call \ Misfit /\ (Publish(cmd) \/ PublishFails(cmd))
          \/ cmd \in Misfit /\ SubmitPanics(cmd)
          \/ cmd = SHUTDOWN /\ End("ended", {})

\* A handler of a swarm event returns an error, such as that of a receipt insert
\* that failed, with any command in the channel and any query under way.
HandleSwarmEventFails == loop = "running" /\ End("failed", {})

\* The PublishAck of a finished query is removed and, when it is the one with
\* the sender, answered.
Acknowledge(q, t, how) ==
    /\ pending_publish_acks' = pending_publish_acks \ {<<q, t>>}
    /\ caller' = IF Remaining(t) > 0 /\ <<q, t>> \in pending_publish_acks
                     THEN [caller EXCEPT ![q] = how] ELSE caller

\* handle_kad, PutRecord(Ok): emit is a try_send, an event that finds the
\* channel full is dropped.
PutOk(q, t) ==
    /\ loop = "running"
    /\ <<q, t>> \in puts
    /\ puts' = puts \ {<<q, t>>}
    /\ stored' = stored \cup {<<q, t>>}
    /\ Acknowledge(q, t, "ok")
    /\ events' = IF Remaining(t) > 0 /\ Len(events) < EventSize
                     THEN Append(events,
                              [call |-> q, record_count |-> Remaining(t)])
                     ELSE events
    /\ UNCHANGED <<stopper, cmds, loop>>

\* A variant of PutErr: the error is logged and the PublishAck stays in the map.
PutErrLogged(q, t) ==
    /\ loop = "running"
    /\ <<q, t>> \in puts
    /\ puts' = puts \ {<<q, t>>}
    /\ UNCHANGED <<caller, stopper, cmds, loop, pending_publish_acks, stored,
                   events>>

\* handle_kad, PutRecord(Err): no quorum, or the query timed out.
PutErr(q, t) ==
    /\ loop = "running"
    /\ <<q, t>> \in puts
    /\ puts' = puts \ {<<q, t>>}
    /\ Acknowledge(q, t, "err")
    /\ UNCHANGED <<stopper, cmds, loop, stored, events>>

\* The holder of the KitedHandle reads an event, when it cares to.
ReadEvent ==
    /\ events # <<>>
    /\ events' = Tail(events)
    /\ UNCHANGED <<caller, stopper, cmds, loop, puts, pending_publish_acks,
                   stored>>
-----------------------------------------------------------------------------
PutDone == \E q \in Call, t \in Tables : PutOk(q, t) \/ PutErr(q, t)

Next ==
    \/ \E q \in Call : Invoke(q) \/ Send(q)
    \/ InvokeShutdown \/ SendShutdown
    \/ HandleCommand \/ HandleSwarmEventFails
    \/ PutDone
    \/ ReadEvent

Spec == Init /\ [][Next]_vars

\* tokio::select! polls its branches in random order, so neither commands nor
\* query results starve; a query ends at the latest by its timeout; senders
\* that wait for room in the channel get it in the order they came.  Nobody
\* promises to call, or to read the events.
FairSpec ==
    /\ Spec
    /\ WF_vars(HandleCommand)
    /\ WF_vars(PutDone)
    /\ WF_vars(SendShutdown)
    /\ \A q \in Call : WF_vars(Send(q))
-----------------------------------------------------------------------------
\* A caller awaits an answer exactly as long as something that will end is on its
\* way to it: its command is in the channel, or the query of its last table is
\* under way and has its PublishAck.  No acknowledgement outlives its query and
\* none is taken out unanswered, through errors, shutdown and any order of ends.
AwaitedIsUnderWay ==
    {q \in Call : caller[q] = "awaiting"} =
        {q \in Call : \/ \E i \in 1..Len(cmds) : cmds[i] = q
                      \/ <<q, L>> \in puts \cap pending_publish_acks}

\* What an answer is worth: "ok", "err" and the event CapabilityPublished tell
\* how the query of the last table ended, and only that.
AnswerIsLastQuery ==
    \A q \in Call :
        /\ caller[q] = "ok" => <<q, L>> \in stored
        /\ caller[q] = "err" => <<q, L>> \notin puts \cup stored
        /\ (\E i \in 1..Len(events) : events[i].call = q) => <<q, L>> \in stored

\* Every invocation returns, also when the daemon ends first.
EveryCallReturns ==
    \A q \in Call : caller[q] = "sending" ~> caller[q] \in {"ok", "err", "closed"}

\* Inbox::shutdown ends the event loop, however full the channel is.
ShutdownEndsLoop == stopper = "sending" ~> loop # "running"
=============================================================================
