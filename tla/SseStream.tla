------------------------------ MODULE SseStream ------------------------------
(***************************************************************************)
(* Progress of one job, from the processor that emits it to one SSE client *)
(* (streamProgress, apps/api/src/routes/jobs.ts).  Each message goes two   *)
(* ways: over the live channel, a FIFO, and into the replay log of module  *)
(* EventLog, whose appends race and may fail.  The stream subscribes first, *)
(* then reads the log, writes what it read, and goes on with what it queued *)
(* meanwhile.  The API process has one listener for all streams, which the *)
(* first of them creates (progressChannel.ts): until it has connected, what *)
(* is published is handed to nobody.                                       *)
(*                                                                         *)
(* Message m is a progress event, the last one is `done`.                  *)
(***************************************************************************)
EXTENDS Naturals, Sequences, SequencesExt

CONSTANTS
  Messages, Attempts,   \* as in EventLog
  Index       \* stageIndex of each progress message

Done == Messages
Progress == 1..(Messages - 1)

ASSUME StreamAssumption ==
  /\ Messages \in Nat \ {0} /\ Attempts \in Nat \ {0}
  /\ Index \in [Progress -> Nat \ {0}]
  /\ \A m, n \in Progress : m < n => Index[m] <= Index[n]

VARIABLES
  docs, writer,   \* the replay log
  channel,        \* the messages published, in order
  phase,          \* "away", "replaying", "writing", "silent", "live" or "closed"
  listener,       \* "early": connected before the request; "none"; or "late"
  start,          \* messages published that no one handed this stream
  cursor,         \* messages of the channel handed out so far
  fetched,        \* whether the log has answered, and what
  snapshot,
  pending,        \* live messages queued during the replay
  turn,           \* how many of the two have been gone through
  lastIndex, terminalWritten,
  written         \* what the client was sent

Log == INSTANCE EventLog WITH Faults <- TRUE

log    == <<docs, writer>>
client == <<listener, start, cursor, fetched, snapshot, pending, turn>>
out    == <<phase, lastIndex, terminalWritten, written>>
vars   == <<log, channel, client, out>>

TypeOK ==
  /\ Log!TypeOK
  /\ channel \in Seq(1..Messages)
  /\ phase \in {"away", "replaying", "writing", "silent", "live", "closed"}
  /\ listener \in {"early", "none", "late"}
  /\ start \in 0..cursor /\ cursor \in 0..Len(channel)
  /\ fetched \in BOOLEAN
  /\ snapshot \in Seq(1..Messages) /\ pending \in Seq(1..Messages)
  /\ turn \in 0..(Len(snapshot) + Len(pending))
  /\ lastIndex \in {0} \cup {Index[m] : m \in Progress}
  /\ terminalWritten \in BOOLEAN
  /\ written \in Seq(1..Messages)

Init ==
  /\ Log!Init
  /\ channel = <<>>
  /\ phase = "away" /\ listener \in {"early", "none"} /\ start = 0 /\ cursor = 0
  /\ fetched = FALSE /\ snapshot = <<>> /\ pending = <<>> /\ turn = 0
  /\ lastIndex = 0 /\ terminalWritten = FALSE /\ written = <<>>

----------------------------------------------------------------------------
(* The processor.                                                           *)

\* emit: publish and append, neither awaited.
EmitProgress(m) ==
  /\ m \in Progress
  /\ Log!Emit(m)
  /\ channel' = Append(channel, m)
  /\ UNCHANGED <<client, out>>

\* The append of `done` is awaited before it is published.
EmitDone ==
  /\ Log!Emit(Done)
  /\ UNCHANGED <<channel, client, out>>

\* Mutant: publishes without waiting for the log.
PublishDoneEarly ==
  /\ Done \notin Range(channel)
  /\ writer[Done].at # "idle"
  /\ channel' = Append(channel, Done)
  /\ UNCHANGED <<log, client, out>>

PublishDone ==
  /\ Done \notin Range(channel)
  /\ writer[Done].at \in {"stored", "dropped", "failed"}
  /\ channel' = Append(channel, Done)
  /\ UNCHANGED <<log, client, out>>

\* An append moves on, or fails and is given up: append swallows the error.
LogStep ==
  /\ \E m \in 1..Messages : Log!Step(m) \/ Log!Fault(m)
  /\ UNCHANGED <<channel, client, out>>

----------------------------------------------------------------------------
(* The stream.                                                              *)

Out == [phase |-> phase, last |-> lastIndex, terminal |-> terminalWritten,
        written |-> written]

\* writeMessage: what was written decides whether m is.
WriteMessage(o, m) ==
  IF o.phase = "closed" \/ o.terminal THEN o
  ELSE IF m = Done
  THEN [o EXCEPT !.phase = "closed", !.terminal = TRUE, !.written = Append(@, m)]
  ELSE IF Index[m] <= o.last THEN o
  ELSE [o EXCEPT !.last = Index[m], !.written = Append(@, m)]

Send(o) ==
  /\ phase' = o.phase
  /\ lastIndex' = o.last
  /\ terminalWritten' = o.terminal
  /\ written' = o.written

\* The request arrives when the listener has handed out c messages already;
\* where there is none it creates it, and does not wait for it to connect.
Connect(c) ==
  /\ phase = "away"
  /\ listener = "none" => c = 0
  /\ phase' = "replaying"
  /\ start' = c /\ cursor' = c
  /\ UNCHANGED <<log, channel, listener, fetched, snapshot, pending, turn,
                 lastIndex, terminalWritten, written>>

\* QueueEvents has connected, and reads the stream of events from its end on.
Open ==
  /\ listener = "none" /\ phase \notin {"away", "closed"}
  /\ listener' = "late"
  /\ start' = Len(channel) /\ cursor' = Len(channel)
  /\ UNCHANGED <<log, channel, fetched, snapshot, pending, turn, out>>

\* eventLog.read: the documents of the moment, in seq order.
ReadLog ==
  /\ phase = "replaying" /\ ~fetched
  /\ fetched' = TRUE
  /\ \E n \in 0..Messages : \E ordered \in [1..n -> docs] :
       /\ Range(ordered) = docs
       /\ \A k, l \in 1..n : k < l => ordered[k].seq < ordered[l].seq
       /\ snapshot' = [k \in 1..n |-> ordered[k].msg]
  /\ UNCHANGED <<log, channel, listener, start, cursor, pending, turn, out>>

\* eventLog.read rejects, and nothing catches it: the connection stays open, and
\* what comes is queued for a replay that never starts.  (Where the rejection
\* ends the process, the client sees what Leave leaves of its stream.)
ReadFails ==
  /\ phase = "replaying" /\ ~fetched
  /\ phase' = "silent"
  /\ UNCHANGED <<log, channel, client, lastIndex, terminalWritten, written>>

\* The answer is written, then what was queued, in one go: until it is through
\* the API does nothing else, while the worker may.
Replay ==
  /\ phase = "replaying" /\ fetched
  /\ phase' = "writing"
  /\ UNCHANGED <<log, channel, client, lastIndex, terminalWritten, written>>

WriteNext ==
  /\ phase = "writing" /\ turn < Len(snapshot) + Len(pending)
  /\ turn' = turn + 1
  /\ Send(WriteMessage(Out, IF turn < Len(snapshot) THEN snapshot[turn + 1]
                            ELSE pending[turn + 1 - Len(snapshot)]))
  /\ UNCHANGED <<log, channel, listener, start, cursor, fetched, snapshot, pending>>

\* From here on it is live.
GoLive ==
  /\ phase = "writing" /\ turn = Len(snapshot) + Len(pending)
  /\ phase' = "live"
  /\ pending' = <<>> /\ turn' = 0
  /\ UNCHANGED <<log, channel, listener, start, cursor, fetched, snapshot,
                 lastIndex, terminalWritten, written>>

\* Mutant: what arrives during the replay is not queued.
DeliverDropping ==
  /\ phase \in {"replaying", "live"} /\ listener # "none" /\ cursor < Len(channel)
  /\ cursor' = cursor + 1
  /\ IF phase = "replaying"
     THEN UNCHANGED <<pending, out>>
     ELSE Send(WriteMessage(Out, channel[cursor + 1])) /\ UNCHANGED pending
  /\ UNCHANGED <<log, channel, listener, start, fetched, snapshot, turn>>

\* The subscription hands over the next message of the channel.
Deliver ==
  /\ phase \in {"replaying", "silent", "live"} /\ listener # "none" /\ cursor < Len(channel)
  /\ cursor' = cursor + 1
  /\ IF phase # "live"
     THEN pending' = Append(pending, channel[cursor + 1]) /\ UNCHANGED out
     ELSE Send(WriteMessage(Out, channel[cursor + 1])) /\ UNCHANGED pending
  /\ UNCHANGED <<log, channel, listener, start, fetched, snapshot, turn>>

\* The client goes away: close().
Leave ==
  /\ phase \in {"replaying", "silent", "live"}
  /\ phase' = "closed"
  /\ UNCHANGED <<log, channel, client, lastIndex, terminalWritten, written>>

Emission == EmitDone \/ PublishDone \/ \E m \in Progress : EmitProgress(m)

Next ==
  \/ Emission \/ LogStep
  \/ \E c \in 0..Len(channel) : Connect(c)
  \/ Open \/ ReadLog \/ ReadFails \/ Replay \/ WriteNext \/ GoLive \/ Deliver \/ Leave

Spec == Init /\ [][Next]_vars

\* The run goes on to its end, Mongo answers or fails, Redis lets the listener
\* connect, and what is published from then on is delivered.
FairSpec ==
  /\ Spec
  /\ WF_vars(Emission) /\ WF_vars(LogStep) /\ WF_vars(Open)
  /\ WF_vars(ReadLog) /\ WF_vars(Replay \/ WriteNext \/ GoLive) /\ WF_vars(Deliver)

----------------------------------------------------------------------------

\* A client never sees stages out of order or twice, whatever order the log
\* and the channel come in, and nothing after `done`.
InOrderOnce ==
  \A i, j \in DOMAIN written : i < j =>
    /\ written[i] # Done
    /\ written[j] # Done => Index[written[i]] < Index[written[j]]

\* Where the log had kept the first k messages in order, the splice is exact:
\* the client is sent those, and the live ones after them, none twice, and none
\* lost but those that were published before the stream had a listener and were
\* logged after it read (what subscribing before reading is meant to rule out,
\* and does when the listener was there before the request).
CleanSplice ==
  LET k == Len(snapshot)
      from == IF k < start THEN start ELSE k
  IN  /\ terminalWritten
      /\ \A m, n \in Progress : m < n => Index[m] < Index[n]
      /\ \A n \in 1..k : snapshot[n] = n
      => written = [n \in 1..k |-> n] \o [n \in 1..(Messages - from) |-> from + n]

\* `done` was published before the stream had a listener, and is not in what the
\* log answered: nothing is left that could tell the client.
Missed == /\ listener # "none" /\ start = Messages
          /\ fetched /\ Done \notin Range(snapshot)

\* The end is missed for two reasons only: the listener was created for this
\* stream and connected too late, or the log has lost `done`.
MissedForAReason ==
  Missed => listener = "late" \/ writer[Done].at \in {"dropped", "failed"}

\* A client that stays is told how the job ended, early or late as it comes,
\* unless its replay could not be read or it has missed the end.
StreamEnds == phase = "replaying" ~> phase \in {"silent", "closed"} \/ Missed

\* What a client is sent, whenever it connects: stages in order and once, with a
\* clean log the exact splice of replay and live, and the end missed only where
\* neither the log nor the listener had it.
StreamIsClean == TypeOK /\ InOrderOnce /\ CleanSplice /\ MissedForAReason

\* The instance that is model-checked: two stages, then `done`.
MCIndex == <<1, 2>>
=============================================================================
