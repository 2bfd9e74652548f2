---------------------------- MODULE EventStream ----------------------------
(***************************************************************************)
(* Activity events of one project on their way to one dashboard: emit       *)
(* (orchestration/utils.py) inside a transaction, Redis pub/sub             *)
(* (orchestration/event_bus.py), the SSE stream (api/events.py), and the    *)
(* list of useActivityStream, which a slower poll of the stored rows seeds  *)
(* (frontend/src/hooks/index.ts).  An event is its number in the order of   *)
(* emission.  created_at is the start of the transaction that wrote a row,  *)
(* so which rows a poll finds newest is left open.                          *)
(***************************************************************************)
EXTENDS Naturals, Sequences, FiniteSets, SequencesExt

CONSTANTS
  Writer,         \* sessions that emit
  SeedLimit,      \* activity(id, limit): 60
  ListLimit,      \* rows the list keeps: 200
  QueueLimit,     \* asyncio.Queue(maxsize=1000)
  MaxEmitted,     \* bound: events emitted
  MaxStreamFaults \* bound: rollbacks, lost messages, failed connections

ASSUME EventStreamAssumption ==
  /\ {SeedLimit, ListLimit, MaxEmitted, MaxStreamFaults} \subseteq Nat
  /\ QueueLimit \in Nat \ {0} /\ SeedLimit <= ListLimit

VARIABLES
  emitted,      \* how many so far
  open,         \* events of the open transaction of a writer
  committed,    \* activity_events
  stream,       \* none, primed (answered, not yet subscribed), live,
                \* deaf (the pump ended), refused (the browser gave up)
  expired,      \* the token in the stream's URL is
  wire, queue,  \* Redis to the pump, the pump to the response
  heard,        \* history: published since the subscription
  ingested,     \* history: shown since the subscription
  list,         \* `events` of the hook, newest first
  seedLength,   \* in seedKey
  poll,         \* the answer of the poll under way
  streamFaults

sinkVars == <<stream, expired, wire, queue, heard, ingested, list, seedLength, poll>>
streamVars == <<emitted, open, committed, sinkVars, streamFaults>>

Event == 1 .. MaxEmitted
NoPoll == {0}
StreamFault == streamFaults < MaxStreamFaults /\ streamFaults' = streamFaults + 1

StreamInit ==
  /\ emitted = 0 /\ open = [w \in Writer |-> {}] /\ committed = {}
  /\ stream = "none" /\ expired = FALSE /\ wire = <<>> /\ queue = <<>>
  /\ heard = <<>> /\ ingested = <<>>
  /\ list = <<>> /\ seedLength = 0 /\ poll = NoPoll
  /\ streamFaults = 0

----------------------------------------------------------------------------
Publish(e) == wire' = Append(wire, e) /\ heard' = Append(heard, e)

\* emit: the row is flushed, and published before its transaction commits.
\* Redis keeps nothing for those who have not subscribed.
Emit(w) ==
  LET e == emitted + 1  IN
  /\ emitted < MaxEmitted /\ emitted' = e
  /\ open' = [open EXCEPT ![w] = @ \cup {e}]
  /\ IF stream = "live" THEN Publish(e) ELSE UNCHANGED <<wire, heard>>
  /\ UNCHANGED <<committed, stream, expired, queue, ingested, list, seedLength, poll, streamFaults>>

\* publish swallows the exception of an unreachable Redis.
EmitUnpublished(w) ==
  LET e == emitted + 1  IN
  /\ emitted < MaxEmitted /\ emitted' = e /\ StreamFault
  /\ open' = [open EXCEPT ![w] = @ \cup {e}]
  /\ UNCHANGED <<committed, sinkVars>>

CommitEvents(w) ==
  /\ open[w] # {}
  /\ committed' = committed \cup open[w] /\ open' = [open EXCEPT ![w] = {}]
  /\ UNCHANGED <<emitted, sinkVars, streamFaults>>

\* What was published stays published.
RollBackEvents(w) ==
  /\ open[w] # {} /\ StreamFault
  /\ open' = [open EXCEPT ![w] = {}]
  /\ UNCHANGED <<emitted, committed, sinkVars>>

----------------------------------------------------------------------------
\* stream_project_events: the answer begins before the pump has subscribed.
\* An EventSource that is refused does not try again.
Connect ==
  /\ stream = "none"
  /\ stream' = IF expired THEN "refused" ELSE "primed"
  /\ UNCHANGED <<emitted, open, committed, expired, wire, queue, heard, ingested, list,
                 seedLength, poll, streamFaults>>

Subscribe ==
  /\ stream = "primed" /\ stream' = "live"
  /\ heard' = <<>> /\ ingested' = <<>>
  /\ UNCHANGED <<emitted, open, committed, expired, wire, queue, list, seedLength, poll, streamFaults>>

\* pump: `put` waits while the queue is full.
Pump ==
  /\ stream = "live" /\ wire # <<>> /\ Len(queue) < QueueLimit
  /\ queue' = Append(queue, Head(wire)) /\ wire' = Tail(wire)
  /\ UNCHANGED <<emitted, open, committed, stream, expired, heard, ingested, list, seedLength,
                 poll, streamFaults>>

\* Redis closes the subscription (a restart, an output buffer that overflowed):
\* the pump logs it and ends, and the response goes on with its heartbeats.
PumpDies ==
  /\ stream = "live" /\ StreamFault
  /\ stream' = "deaf" /\ wire' = <<>>
  /\ UNCHANGED <<emitted, open, committed, expired, queue, heard, ingested, list, seedLength, poll>>

\* The connection breaks, and the browser connects again with the same URL.
Disconnect ==
  /\ stream \in {"primed", "live", "deaf"} /\ StreamFault
  /\ stream' = "none" /\ wire' = <<>> /\ queue' = <<>>
  /\ UNCHANGED <<emitted, open, committed, expired, heard, ingested, list, seedLength, poll>>

TokenExpires ==
  /\ ~expired /\ StreamFault /\ expired' = TRUE
  /\ UNCHANGED <<emitted, open, committed, stream, wire, queue, heard, ingested, list, seedLength, poll>>

Shown(e) == SubSeq(<<e>> \o list, 1, IF Len(list) < ListLimit THEN Len(list) + 1 ELSE ListLimit)

\* Mutant: what is ingested is not taken off the queue.
IngestKeeping ==
  /\ queue # <<>>
  /\ list' = Shown(Head(queue)) /\ Len(ingested) < MaxEmitted
  /\ ingested' = Append(ingested, Head(queue))
  /\ UNCHANGED <<emitted, open, committed, stream, expired, wire, queue, heard, seedLength, poll, streamFaults>>

\* A frame reaches the hook.
Ingest ==
  /\ queue # <<>> /\ queue' = Tail(queue)
  /\ list' = Shown(Head(queue))
  /\ ingested' = Append(ingested, Head(queue))
  /\ UNCHANGED <<emitted, open, committed, stream, expired, wire, heard, seedLength, poll, streamFaults>>

----------------------------------------------------------------------------
\* list_activity: the newest rows, as far as they are committed.
PollRead(rows) ==
  /\ poll = NoPoll /\ rows \subseteq committed
  /\ IF Cardinality(committed) <= SeedLimit THEN rows = committed ELSE Cardinality(rows) = SeedLimit
  /\ poll' = rows
  /\ UNCHANGED <<emitted, open, committed, stream, expired, wire, queue, heard, ingested, list,
                 seedLength, streamFaults>>

\* Mutant: seedKey is the project alone.
PollShowOnce ==
  /\ poll # NoPoll /\ poll' = NoPoll /\ seedLength' = Cardinality(poll)
  /\ IF seedLength = 0 THEN list' = SetToSeq(poll) ELSE UNCHANGED list
  /\ UNCHANGED <<emitted, open, committed, stream, expired, wire, queue, heard, ingested, streamFaults>>

\* A seed of another length replaces the list, whatever the stream had added.
PollShow ==
  /\ poll # NoPoll /\ poll' = NoPoll /\ seedLength' = Cardinality(poll)
  /\ IF Cardinality(poll) # seedLength THEN list' = SetToSeq(poll) ELSE UNCHANGED list
  /\ UNCHANGED <<emitted, open, committed, stream, expired, wire, queue, heard, ingested, streamFaults>>

PollFails ==
  /\ poll # NoPoll /\ StreamFault /\ poll' = NoPoll
  /\ UNCHANGED <<emitted, open, committed, stream, expired, wire, queue, heard, ingested, list, seedLength>>

StreamNext ==
  \/ \E w \in Writer : Emit(w) \/ EmitUnpublished(w) \/ CommitEvents(w) \/ RollBackEvents(w)
  \/ Connect \/ Subscribe \/ Pump \/ PumpDies \/ Disconnect \/ TokenExpires \/ Ingest
  \/ \E rows \in SUBSET Event : PollRead(rows)
  \/ PollShow \/ PollFails

\* usePolling keeps its interval as long as the page is visible.
Polls == (\E rows \in SUBSET Event : PollRead(rows)) \/ PollShow

StreamSpec == StreamInit /\ [][StreamNext]_streamVars /\ WF_streamVars(Polls)

----------------------------------------------------------------------------
\* From its subscription on, a stream shows what is published, each event once
\* and in order, and shows less only once its pump or its connection is gone.
StreamIsExact ==
  /\ IsPrefix(ingested \o queue, heard) \/ stream \in {"none", "primed", "refused"}
  /\ stream = "live" => ingested \o queue \o wire = heard

\* The poll makes good whatever the stream lost, for as long as the project has
\* no more events than the poll asks for; what the list drops, it drops for
\* newer ones.
PollHeals ==
  \A e \in Event : e \in committed ~>
    (e \in ToSet(list) \/ Len(list) = ListLimit \/ Cardinality(committed) > SeedLimit)
=============================================================================
