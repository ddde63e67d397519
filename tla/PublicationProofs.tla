-------------------------- MODULE PublicationProofs --------------------------
(***************************************************************************)
(* Proofs about Publication: who is owed an answer, and what the answer     *)
(* says, for any number of callers, tables and channel sizes.              *)
(***************************************************************************)
EXTENDS Publication, TLAPS

Queued(q) == \E i \in 1..Len(cmds) : cmds[i] = q

\* A call is sent once, and its card is published once, after it was sent.
SentOnce ==
    /\ \A i, j \in 1..Len(cmds) : cmds[i] = cmds[j] /\ cmds[i] \in Call => i = j
    /\ \A q \in Call : Queued(q) \/ caller[q] \in {"idle", "sending"} =>
           \A t \in Tables : <<q, t>> \notin puts \cup stored

\* The two maps of queries agree; a query that ended is no longer under way;
\* an event loop that ended holds neither commands nor queries.
Queries ==
    /\ puts = pending_publish_acks
    /\ puts \cap stored = {}
    /\ loop # "running" => cmds = <<>> /\ puts = {}

\* The callers that wait are those whose sender the daemon holds, in the channel
\* or in an acknowledgement.
AwaitingIsOwed == {q \in Call : caller[q] = "awaiting"} = Owed

\* The inductive invariant.
PInv == TypeOK /\ SentOnce /\ Queries /\ AwaitingIsOwed /\ AnswerIsLastQuery

-----------------------------------------------------------------------------
\* What the channels hold after a send and after a receive.
LEMMA AppendEntries ==
    ASSUME NEW S, NEW s \in Seq(S), NEW x \in S
    PROVE  /\ Append(s, x) \in Seq(S)
           /\ Len(Append(s, x)) = Len(s) + 1
           /\ \A i \in 1..Len(s) : Append(s, x)[i] = s[i]
           /\ Append(s, x)[Len(s) + 1] = x
OBVIOUS

LEMMA TailEntries ==
    ASSUME NEW S, NEW s \in Seq(S), s # <<>>
    PROVE  /\ Tail(s) \in Seq(S)
           /\ Len(s) > 0 /\ Len(Tail(s)) = Len(s) - 1
           /\ Head(s) = s[1] /\ Head(s) \in S
           /\ \A i \in 1..Len(Tail(s)) : i + 1 \in 1..Len(s) /\ Tail(s)[i] = s[i + 1]
OBVIOUS

\* The last table is the one whose acknowledgement has the sender.
LEMMA LastTable ==
    /\ L \in Tables
    /\ \A t \in Tables : Remaining(t) \in Nat /\ (Remaining(t) > 0 <=> t = L)
BY SizeAssumption DEF Tables, Remaining

LEMMA PInvInit == Init => PInv
<1>. SUFFICES ASSUME Init PROVE PInv
  OBVIOUS
<1>1. TypeOK
  BY SizeAssumption DEF Init, TypeOK, CallerState
<1>2. SentOnce /\ Queries
  BY DEF Init, SentOnce, Queries, Queued
<1>3. AwaitingIsOwed /\ AnswerIsLastQuery
  BY DEF Init, AwaitingIsOwed, AnswerIsLastQuery, Owed
<1>. QED
  BY <1>1, <1>2, <1>3 DEF PInv
-----------------------------------------------------------------------------
\* The callers of one call take a step.
LEMMA SendKeeps ==
    ASSUME PInv, NEW q \in Call, Send(q) PROVE PInv'
<1>1. CASE /\ loop = "running" /\ Len(cmds) < QueueSize
           /\ cmds' = Append(cmds, q)
           /\ caller' = [caller EXCEPT ![q] = "awaiting"]
  <2>1. /\ cmds' \in Seq(Command) /\ Len(cmds') = Len(cmds) + 1
        /\ \A i \in 1..Len(cmds) : cmds'[i] = cmds[i]
        /\ cmds'[Len(cmds) + 1] = q /\ Len(cmds) \in Nat
    BY <1>1, AppendEntries DEF PInv, TypeOK, Command
  <2>2. UNCHANGED <<stopper, loop, puts, pending_publish_acks, stored, events>>
    BY DEF Send
  <2>3. caller[q] = "sending"
    BY DEF Send
  <2>4. ~Queued(q)
    BY <2>3 DEF PInv, AwaitingIsOwed, Owed, Queued
  <2>5. \A p \in Call : Queued(p)' <=> Queued(p) \/ p = q
    BY <2>1 DEF Queued
  <2>6. TypeOK'
    BY <1>1, <2>1, <2>2, SizeAssumption DEF PInv, TypeOK, CallerState
  <2>7. SentOnce'
    <3>1. \A i, j \in 1..Len(cmds') :
             cmds'[i] = cmds'[j] /\ cmds'[i] \in Call => i = j
      BY <2>1, <2>4 DEF PInv, SentOnce, Queued
    <3>2. \A p \in Call : Queued(p)' \/ caller'[p] \in {"idle", "sending"} =>
             \A t \in Tables : <<p, t>> \notin puts \cup stored
      BY <1>1, <2>3, <2>5 DEF PInv, TypeOK, SentOnce
    <3>. QED
      BY <2>2, <3>1, <3>2 DEF SentOnce
  <2>8. Queries'
    BY <1>1, <2>2 DEF PInv, Queries
  <2>9. AwaitingIsOwed'
    BY <1>1, <2>2, <2>5 DEF PInv, TypeOK, AwaitingIsOwed, Owed, Queued
  <2>10. AnswerIsLastQuery'
    BY <1>1, <2>2 DEF PInv, TypeOK, AnswerIsLastQuery
  <2>. QED
    BY <2>6, <2>7, <2>8, <2>9, <2>10 DEF PInv
<1>2. CASE /\ loop # "running"
           /\ caller' = [caller EXCEPT ![q] = "closed"]
           /\ UNCHANGED cmds
  <2>1. UNCHANGED <<stopper, loop, puts, pending_publish_acks, stored, events>>
        /\ caller[q] = "sending"
    BY DEF Send
  <2>2. TypeOK' /\ Queries'
    BY <1>2, <2>1 DEF PInv, TypeOK, CallerState, Queries
  <2>3. SentOnce'
    BY <1>2, <2>1 DEF PInv, TypeOK, SentOnce, Queued
  <2>4. AwaitingIsOwed' /\ AnswerIsLastQuery'
    BY <1>2, <2>1 DEF PInv, TypeOK, AwaitingIsOwed, Owed, AnswerIsLastQuery
  <2>. QED
    BY <2>2, <2>3, <2>4 DEF PInv
<1>. QED
  BY <1>1, <1>2 DEF Send

LEMMA InvokeKeeps ==
    ASSUME PInv, NEW q \in Call, Invoke(q) PROVE PInv'
<1>1. TypeOK' /\ Queries'
  BY DEF Invoke, PInv, TypeOK, CallerState, Queries
<1>2. SentOnce'
  BY DEF Invoke, PInv, TypeOK, SentOnce, Queued
<1>3. AwaitingIsOwed' /\ AnswerIsLastQuery'
  BY DEF Invoke, PInv, TypeOK, AwaitingIsOwed, Owed, AnswerIsLastQuery
<1>. QED
  BY <1>1, <1>2, <1>3 DEF PInv

LEMMA StopperKeeps ==
    ASSUME PInv, InvokeShutdown \/ SendShutdown PROVE PInv'
<1>1. CASE UNCHANGED cmds
  <2>1. /\ UNCHANGED <<caller, loop, puts, pending_publish_acks, stored, events>>
        /\ stopper' \in {"sending", "done"}
    BY DEF InvokeShutdown, SendShutdown
  <2>. QED
    BY <1>1, <2>1
       DEF PInv, TypeOK, SentOnce, Queued, Queries, AwaitingIsOwed, Owed,
           AnswerIsLastQuery
<1>2. CASE /\ loop = "running" /\ Len(cmds) < QueueSize
           /\ cmds' = Append(cmds, SHUTDOWN)
  <2>1. /\ cmds' \in Seq(Command) /\ Len(cmds') = Len(cmds) + 1
        /\ \A i \in 1..Len(cmds) : cmds'[i] = cmds[i]
        /\ cmds'[Len(cmds) + 1] = SHUTDOWN /\ Len(cmds) \in Nat
    BY <1>2, AppendEntries DEF PInv, TypeOK, Command
  <2>2. /\ UNCHANGED <<caller, loop, puts, pending_publish_acks, stored, events>>
        /\ stopper' \in {"sending", "done"}
    BY DEF InvokeShutdown, SendShutdown
  <2>3. \A p \in Call : Queued(p)' <=> Queued(p)
    BY <2>1, CallAssumption DEF Queued
  <2>4. TypeOK' /\ Queries'
    BY <1>2, <2>1, <2>2, SizeAssumption DEF PInv, TypeOK, Queries
  <2>5. SentOnce'
    <3>1. \A i, j \in 1..Len(cmds') :
             cmds'[i] = cmds'[j] /\ cmds'[i] \in Call => i = j
      BY <2>1, CallAssumption DEF PInv, SentOnce
    <3>. QED
      BY <2>2, <2>3, <3>1 DEF PInv, SentOnce
  <2>6. AwaitingIsOwed' /\ AnswerIsLastQuery'
    BY <2>2, <2>3 DEF PInv, AwaitingIsOwed, Owed, Queued, AnswerIsLastQuery
  <2>. QED
    BY <2>4, <2>5, <2>6 DEF PInv
<1>. QED
  BY <1>1, <1>2 DEF InvokeShutdown, SendShutdown
-----------------------------------------------------------------------------
\* The event loop ends: whoever is owed an answer hears that the channel closed.
LEMMA EndKeeps ==
    ASSUME PInv, NEW how \in {"ended", "failed", "panicked"},
           NEW dropped \in SUBSET Call, \A q \in dropped : Queued(q),
           End(how, dropped)
    PROVE  PInv'
<1>1. \A q \in Call :
        caller'[q] = IF q \in Owed THEN "closed" ELSE caller[q]
  BY DEF End, Owed, Queued
<1>2. /\ cmds' = <<>> /\ puts' = {} /\ pending_publish_acks' = {} /\ loop' = how
      /\ UNCHANGED <<stopper, stored, events>>
  BY DEF End
<1>3. TypeOK'
  <2>1. caller' \in [Call -> CallerState]
    BY DEF End, PInv, TypeOK, CallerState
  <2>. QED
    BY <1>2, <2>1, SizeAssumption DEF PInv, TypeOK
<1>4. Queries'
  BY <1>2 DEF Queries
<1>5. SentOnce'
  <2>1. \A q \in Call : caller'[q] \in {"idle", "sending"} =>
                           caller[q] \in {"idle", "sending"}
    BY <1>1
  <2>. QED
    BY <1>2, <2>1 DEF PInv, SentOnce, Queued
<1>6. AwaitingIsOwed'
  <2>1. \A q \in Call : caller[q] = "awaiting" => q \in Owed
    BY DEF PInv, AwaitingIsOwed
  <2>2. \A q \in Call : caller'[q] # "awaiting"
    BY <1>1, <2>1
  <2>3. Owed' = {}
    BY <1>2 DEF Owed
  <2>. QED
    BY <2>2, <2>3 DEF AwaitingIsOwed
<1>7. AnswerIsLastQuery'
  BY <1>1, <1>2 DEF PInv, AnswerIsLastQuery
<1>. QED
  BY <1>3, <1>4, <1>5, <1>6, <1>7 DEF PInv

\* A card is published: its caller's sender moves from the channel to the
\* acknowledgement of the last query.
LEMMA PublishKeeps ==
    ASSUME PInv, loop = "running", cmds # <<>>, NEW q \in Call, q = Head(cmds),
           Publish(q)
    PROVE  PInv'
<1>1. /\ cmds' \in Seq(Command) /\ Len(cmds) > 0 /\ Len(cmds') = Len(cmds) - 1
      /\ q = cmds[1]
      /\ \A i \in 1..Len(cmds') : i + 1 \in 1..Len(cmds) /\ cmds'[i] = cmds[i + 1]
  BY TailEntries DEF PInv, TypeOK, Publish
<1>2. /\ puts' = puts \cup ({q} \X Tables)
      /\ pending_publish_acks' = pending_publish_acks \cup ({q} \X Tables)
      /\ UNCHANGED <<caller, stopper, loop, stored, events>>
  BY DEF Publish
<1>3. Len(cmds) \in Nat
  BY DEF PInv, TypeOK
<1>4. Queued(q) /\ ~Queued(q)'
  <2>1. q \in Call /\ 1 \in 1..Len(cmds)
    BY <1>1, <1>3
  <2>2. \A i \in 1..Len(cmds) : cmds[i] = q => i = 1
    BY <1>1, <2>1 DEF PInv, SentOnce
  <2>3. \A i \in 1..Len(cmds') : cmds'[i] # q
    BY <1>1, <1>3, <2>2
  <2>. QED
    BY <1>1, <2>1, <2>3 DEF Queued
<1>5. \A p \in Call \ {q} : Queued(p)' <=> Queued(p)
  <2>. SUFFICES ASSUME NEW p \in Call \ {q} PROVE Queued(p)' <=> Queued(p)
    OBVIOUS
  <2>1. ASSUME Queued(p) PROVE Queued(p)'
    <3>1. PICK i \in 1..Len(cmds) : cmds[i] = p
      BY <2>1 DEF Queued
    <3>2. i - 1 \in 1..Len(cmds') /\ cmds'[i - 1] = cmds[i]
      BY <1>1, <1>3, <3>1
    <3>. QED
      BY <3>1, <3>2 DEF Queued
  <2>. QED
    BY <1>1, <2>1 DEF Queued
<1>6. caller[q] = "awaiting"
  BY <1>4 DEF PInv, AwaitingIsOwed, Owed, Queued
<1>7. TypeOK'
  <2>1. {q} \X Tables \subseteq Query
    BY DEF Query
  <2>2. Len(cmds') <= QueueSize
    BY <1>1, <1>3, SizeAssumption DEF PInv, TypeOK
  <2>. QED
    BY <1>1, <1>2, <2>1, <2>2 DEF PInv, TypeOK
<1>8. SentOnce'
  <2>1. \A i, j \in 1..Len(cmds') :
           cmds'[i] = cmds'[j] /\ cmds'[i] \in Call => i = j
    BY <1>1, <1>3 DEF PInv, SentOnce
  <2>2. \A p \in Call : Queued(p)' \/ caller'[p] \in {"idle", "sending"} =>
            \A t \in Tables : <<p, t>> \notin puts' \cup stored'
    <3>1. \A p \in Call : Queued(p)' \/ caller'[p] \in {"idle", "sending"} =>
             p # q /\ (Queued(p) \/ caller[p] \in {"idle", "sending"})
      BY <1>2, <1>4, <1>5, <1>6
    <3>2. \A p \in Call, t \in Tables :
             p # q /\ <<p, t>> \in puts' => <<p, t>> \in puts
      BY <1>2
    <3>. QED
      BY <1>2, <3>1, <3>2 DEF PInv, SentOnce
  <2>. QED
    BY <2>1, <2>2 DEF SentOnce
<1>9. Queries'
  BY <1>2, <1>4 DEF PInv, SentOnce, Queries
<1>10. AwaitingIsOwed'
  <2>1. \A p \in Call : <<p, L>> \in pending_publish_acks' <=>
                            <<p, L>> \in pending_publish_acks \/ p = q
    BY <1>2, LastTable
  <2>. QED
    BY <1>2, <1>4, <1>5, <2>1 DEF PInv, AwaitingIsOwed, Owed, Queued
<1>11. AnswerIsLastQuery'
  BY <1>2, <1>6 DEF PInv, AnswerIsLastQuery
<1>. QED
  BY <1>7, <1>8, <1>9, <1>10, <1>11 DEF PInv

LEMMA HandleCommandKeeps ==
    ASSUME PInv, HandleCommand PROVE PInv'
<1>1. Head(cmds) = cmds[1] /\ 1 \in 1..Len(cmds)
  BY TailEntries DEF HandleCommand, PInv, TypeOK
<1>2. Head(cmds) \in Call => Queued(Head(cmds))
  BY <1>1 DEF Queued
<1>3. CASE Head(cmds) \in Call /\ Publish(Head(cmds))
  BY <1>3, PublishKeeps DEF HandleCommand
<1>4. CASE /\ Head(cmds) \in Call
           /\ PublishFails(Head(cmds)) \/ SubmitPanics(Head(cmds))
  BY <1>2, <1>4, EndKeeps DEF PublishFails, SubmitPanics
<1>5. CASE End("ended", {})
  BY <1>5, EndKeeps
<1>. QED
  BY <1>3, <1>4, <1>5, CallAssumption DEF HandleCommand
-----------------------------------------------------------------------------
\* A query ends, well or not: its acknowledgement goes, and the caller hears
\* of it when it is the last table's.
LEMMA AcknowledgeKeeps ==
    ASSUME PInv, NEW q \in Call, NEW t \in Tables, NEW how \in {"ok", "err"},
           <<q, t>> \in puts, puts' = puts \ {<<q, t>>},
           Acknowledge(q, t, how),
           stored' = IF how = "ok" THEN stored \cup {<<q, t>>} ELSE stored,
           UNCHANGED <<stopper, cmds, loop>>,
           events' \in Seq(Event), Len(events') <= EventSize,
           \A i \in 1..Len(events') :
               \/ \E j \in 1..Len(events) : events'[i] = events[j]
               \/ events'[i].call = q /\ t = L /\ how = "ok"
    PROVE  PInv'
<1>1. <<q, t>> \in pending_publish_acks /\ <<q, t>> \notin stored
  BY DEF PInv, Queries
<1>2. ~Queued(q) /\ caller[q] \notin {"idle", "sending"}
  BY DEF PInv, SentOnce
<1>3. /\ pending_publish_acks' = pending_publish_acks \ {<<q, t>>}
      /\ caller' = IF t = L THEN [caller EXCEPT ![q] = how] ELSE caller
  BY <1>1, LastTable DEF Acknowledge
<1>4. TypeOK'
  <2>1. caller' \in [Call -> CallerState]
    BY <1>3 DEF PInv, TypeOK, CallerState
  <2>2. puts' \subseteq Query /\ pending_publish_acks' \subseteq Query
        /\ stored' \subseteq Query
    BY <1>3 DEF PInv, TypeOK, Query
  <2>. QED
    BY <2>1, <2>2 DEF PInv, TypeOK
<1>5. \A p \in Call : caller'[p] = IF p = q /\ t = L THEN how ELSE caller[p]
  BY <1>3 DEF PInv, TypeOK
<1>6. \A p \in Call : Queued(p)' <=> Queued(p)
  BY DEF Queued
<1>7. SentOnce'
  BY <1>2, <1>5, <1>6 DEF PInv, SentOnce
<1>8. Queries'
  BY <1>3 DEF PInv, Queries
<1>9. AwaitingIsOwed'
  <2>1. \A p \in Call : <<p, L>> \in pending_publish_acks' <=>
            <<p, L>> \in pending_publish_acks /\ ~(p = q /\ t = L)
    BY <1>3
  <2>2. \A p \in Call : caller[p] = "awaiting" <=>
            Queued(p) \/ <<p, L>> \in pending_publish_acks
    BY DEF PInv, AwaitingIsOwed, Owed, Queued
  <2>3. \A p \in Call : caller'[p] = "awaiting" <=>
            Queued(p)' \/ <<p, L>> \in pending_publish_acks'
    BY <1>2, <1>5, <1>6, <2>1, <2>2
  <2>. QED
    BY <2>3 DEF AwaitingIsOwed, Owed, Queued
<1>10. AnswerIsLastQuery'
  <2>. SUFFICES ASSUME NEW p \in Call
                PROVE  /\ caller'[p] = "ok" => <<p, L>> \in stored'
                       /\ caller'[p] = "err" => <<p, L>> \notin puts' \cup stored'
                       /\ (\E i \in 1..Len(events') : events'[i].call = p)
                              => <<p, L>> \in stored'
    BY DEF AnswerIsLastQuery
  <2>1. caller'[p] = "ok" => <<p, L>> \in stored'
    BY <1>5 DEF PInv, AnswerIsLastQuery
  <2>2. caller'[p] = "err" => <<p, L>> \notin puts' \cup stored'
    <3>1. CASE p = q /\ t = L
      BY <1>1, <1>5, <3>1
    <3>2. CASE ~(p = q /\ t = L)
      BY <1>5, <3>2 DEF PInv, AnswerIsLastQuery
    <3>. QED
      BY <3>1, <3>2
  <2>3. ASSUME NEW i \in 1..Len(events'), events'[i].call = p
        PROVE  <<p, L>> \in stored'
    BY <2>3 DEF PInv, AnswerIsLastQuery
  <2>. QED
    BY <2>1, <2>2, <2>3
<1>. QED
  BY <1>4, <1>7, <1>8, <1>9, <1>10 DEF PInv

LEMMA PutDoneKeeps ==
    ASSUME PInv, NEW q \in Call, NEW t \in Tables, PutOk(q, t) \/ PutErr(q, t)
    PROVE  PInv'
<1>1. CASE PutOk(q, t)
  <2>1. CASE events' = events
    <3>1. /\ events' \in Seq(Event) /\ Len(events') <= EventSize
          /\ \A i \in 1..Len(events') :
               \E j \in 1..Len(events) : events'[i] = events[j]
      BY <2>1 DEF PInv, TypeOK
    <3>. QED
      BY <1>1, <3>1, AcknowledgeKeeps DEF PutOk
  <2>2. CASE /\ t = L /\ Len(events) < EventSize
             /\ events' = Append(events,
                              [call |-> q, record_count |-> Remaining(t)])
    <3>. DEFINE e == [call |-> q, record_count |-> Remaining(t)]
    <3>1. e \in Event /\ e.call = q
      BY LastTable DEF Event
    <3>. HIDE DEF e
    <3>2. /\ events' \in Seq(Event) /\ Len(events') = Len(events) + 1
          /\ \A i \in 1..Len(events) : events'[i] = events[i]
          /\ events'[Len(events) + 1] = e
      BY <2>2, <3>1, AppendEntries DEF PInv, TypeOK, e
    <3>3. Len(events) \in Nat
      BY DEF PInv, TypeOK
    <3>4. /\ Len(events') <= EventSize
          /\ \A i \in 1..Len(events') :
               \/ \E j \in 1..Len(events) : events'[i] = events[j]
               \/ events'[i].call = q /\ t = L
      BY <2>2, <3>1, <3>2, <3>3, SizeAssumption
    <3>. QED
      BY <1>1, <3>2, <3>4, AcknowledgeKeeps DEF PutOk
  <2>. QED
    BY <1>1, <2>1, <2>2, LastTable DEF PutOk
<1>2. CASE PutErr(q, t)
  <2>1. /\ events' \in Seq(Event) /\ Len(events') <= EventSize
        /\ \A i \in 1..Len(events') :
             \E j \in 1..Len(events) : events'[i] = events[j]
    BY <1>2 DEF PutErr, PInv, TypeOK
  <2>. QED
    BY <1>2, <2>1, AcknowledgeKeeps DEF PutErr
<1>. QED
  BY <1>1, <1>2

LEMMA ReadEventKeeps ==
    ASSUME PInv, ReadEvent PROVE PInv'
<1>1. /\ events' \in Seq(Event) /\ Len(events) > 0
      /\ Len(events') = Len(events) - 1
      /\ \A i \in 1..Len(events') :
            i + 1 \in 1..Len(events) /\ events'[i] = events[i + 1]
  BY TailEntries DEF ReadEvent, PInv, TypeOK
<1>2. UNCHANGED <<caller, stopper, cmds, loop, puts, pending_publish_acks, stored>>
  BY DEF ReadEvent
<1>3. TypeOK'
  <2>1. Len(events') <= EventSize
    BY <1>1, SizeAssumption DEF PInv, TypeOK
  <2>. QED
    BY <1>1, <1>2, <2>1 DEF PInv, TypeOK
<1>4. SentOnce' /\ Queries' /\ AwaitingIsOwed'
  BY <1>2 DEF PInv, SentOnce, Queries, AwaitingIsOwed, Owed, Queued
<1>5. AnswerIsLastQuery'
  BY <1>1, <1>2 DEF PInv, AnswerIsLastQuery
<1>. QED
  BY <1>3, <1>4, <1>5 DEF PInv
-----------------------------------------------------------------------------
LEMMA PInvNext == PInv /\ [Next]_vars => PInv'
<1>. SUFFICES ASSUME PInv, [Next]_vars PROVE PInv'
  OBVIOUS
<1>1. CASE UNCHANGED vars
  BY <1>1 DEF vars, PInv, TypeOK, SentOnce, Queries, AwaitingIsOwed, Owed,
              Queued, AnswerIsLastQuery
<1>2. CASE HandleSwarmEventFails
  BY <1>2, EndKeeps DEF HandleSwarmEventFails
<1>. QED
  BY <1>1, <1>2, InvokeKeeps, SendKeeps, StopperKeeps, HandleCommandKeeps,
     PutDoneKeeps, ReadEventKeeps DEF Next, PutDone

LEMMA PublicationInvariance == Spec => []PInv
BY PInvInit, PInvNext, PTL DEF Spec

\* The channels stay within their sizes, and every variable has its type.
THEOREM PublicationTypeCorrect == Spec => []TypeOK
BY PublicationInvariance, PTL DEF PInv

\* A caller that waits has its sender in the channel or in the acknowledgement
\* of its last query, that query is under way, and nobody else has a sender there:
\* whatever order the queries end in, and however the event loop ends, no caller
\* waits for nothing.
THEOREM AwaitedIsUnderWayCorrect == Spec => []AwaitedIsUnderWay
<1>1. PInv => AwaitedIsUnderWay
  BY DEF PInv, Queries, AwaitingIsOwed, Owed, AwaitedIsUnderWay
<1>. QED
  BY <1>1, PublicationInvariance, PTL

\* "ok", "err" and CapabilityPublished say how the query of the last table
\* ended, for any number of tables and whatever the others came to.
THEOREM AnswerIsLastQueryCorrect == Spec => []AnswerIsLastQuery
BY PublicationInvariance, PTL DEF PInv
=============================================================================
