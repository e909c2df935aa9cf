--------------------------- MODULE SseStreamProofs ---------------------------
(***************************************************************************)
(* What a client is sent is clean (StreamIsClean), for any number of       *)
(* messages, and the stream's log is the replay log of module EventLog, so *)
(* that what is proved of that log holds of what the stream reads.         *)
(***************************************************************************)
EXTENDS SseStream, SequenceTheorems, TLAPS

\* The log of the stream is a replay log.
LEMMA LogOrNothing ==
  ASSUME [Next]_vars PROVE [Log!Next]_(Log!vars)
<1> USE DEF Log!Next, Log!vars, log, Log!Message, vars
<1>1. CASE Emission
  <2>1. CASE EmitDone
    BY <2>1, StreamAssumption DEF EmitDone, Done
  <2>2. CASE PublishDone
    BY <2>2 DEF PublishDone
  <2>3. ASSUME NEW m \in Progress, EmitProgress(m) PROVE [Log!Next]_(Log!vars)
    BY <2>3, StreamAssumption DEF EmitProgress, Progress
  <2> QED BY <1>1, <2>1, <2>2, <2>3 DEF Emission
<1>2. CASE LogStep
  BY <1>2 DEF LogStep
<1>3. CASE UNCHANGED log
  BY <1>3
<1>4. CASE \/ \E c \in 0..Len(channel) : Connect(c)
           \/ Open \/ ReadLog \/ ReadFails \/ Replay \/ WriteNext \/ GoLive \/ Deliver \/ Leave
  BY <1>3, <1>4 DEF Connect, Open, ReadLog, ReadFails, Replay, WriteNext, GoLive, Deliver, Leave
<1> QED BY <1>1, <1>2, <1>3, <1>4 DEF Next

\* The stream with its emitter is a replay log, one that may fail: each of its
\* steps is one of module EventLog, or leaves the log alone (the API reads what the
\* worker appends, workerAnalysisService.ts:190-217).
THEOREM ImplementsLog == Spec => Log!Spec
<1>1. Init => Log!Init
  BY DEF Init
<1> QED BY <1>1, LogOrNothing, PTL DEF Spec, Log!Spec

\* The log within the stream is as well shaped as the log alone.
LEMMA LogType == Spec => [](Log!TypeOK)
<1> USE StreamAssumption DEF Log!Message
<1>1. Log!Init => Log!TypeOK
  BY DEF Log!Init, Log!TypeOK, Log!Writer
<1>2. Log!TypeOK /\ [Log!Next]_(Log!vars) => Log!TypeOK'
  <2> SUFFICES ASSUME Log!TypeOK, [Log!Next]_(Log!vars) PROVE Log!TypeOK'
    OBVIOUS
  <2> USE DEF Log!TypeOK, Log!Writer
  <2>1. ASSUME NEW m \in Log!Message, Log!append(m) PROVE Log!TypeOK'
    BY <2>1 DEF Log!append
  <2>2. ASSUME NEW m \in Log!Message, Log!FindLast(m) PROVE Log!TypeOK'
    <3>1. PICK n \in 0..Messages :
            writer' = [writer EXCEPT ![m].at = "create", ![m].seq = n]
      BY <2>2 DEF Log!FindLast
    <3>2. n \in Nat /\ writer[m] \in Log!Writer
      OBVIOUS
    <3>3. writer'[m] = [at |-> "create", seq |-> n, attempt |-> writer[m].attempt]
      BY <3>1
    <3>4. \A k \in Log!Message : writer'[k] = IF k = m THEN writer'[m] ELSE writer[k]
      BY <3>1
    <3>5. writer' \in [Log!Message -> Log!Writer]
      BY <3>1, <3>2, <3>3, <3>4
    <3> QED
      BY <2>2, <3>5 DEF Log!FindLast
  <2>3. ASSUME NEW m \in Log!Message, Log!Create(m) PROVE Log!TypeOK'
    BY <2>3 DEF Log!Create, Log!Doc
  <2>4. ASSUME NEW m \in Log!Message, Log!LoseRace(m) PROVE Log!TypeOK'
    <3>1. writer[m] \in Log!Writer /\ UNCHANGED docs
      BY <2>4 DEF Log!LoseRace
    <3>2. CASE writer[m].attempt + 1 < Attempts
      <4>1. writer' = [writer EXCEPT ![m] = [at |-> "find", seq |-> writer[m].seq, attempt |-> writer[m].attempt + 1]]
        BY <2>4, <3>1, <3>2 DEF Log!LoseRace
      <4> QED BY <3>1, <3>2, <4>1
    <3>3. CASE ~(writer[m].attempt + 1 < Attempts)
      <4>1. writer' = [writer EXCEPT ![m] = [at |-> "dropped", seq |-> writer[m].seq, attempt |-> writer[m].attempt]]
        BY <2>4, <3>1, <3>3 DEF Log!LoseRace
      <4> QED BY <3>1, <4>1
    <3> QED BY <3>2, <3>3
  <2>5. ASSUME NEW m \in Log!Message, Log!Fault(m) PROVE Log!TypeOK'
    BY <2>5 DEF Log!Fault
  <2>6. CASE UNCHANGED (Log!vars)
    BY <2>6 DEF Log!vars
  <2> QED
    BY <2>1, <2>2, <2>3, <2>4, <2>5, <2>6 DEF Log!Next, Log!Emit, Log!Step
<1> QED
  BY ImplementsLog, <1>1, <1>2, PTL DEF Log!Spec

----------------------------------------------------------------------------

\* The channel carries the messages in the order they are emitted, each once.
ChannelInv ==
  /\ Len(channel) <= Messages
  /\ \A n \in 1..Len(channel) : channel[n] = n
  /\ \A m \in Progress : writer[m].at # "idle" <=> m <= Len(channel)
  /\ writer[Done].at # "idle" => Messages - 1 <= Len(channel)

\* Until the stream is live it keeps what the channel hands it.
QueueInv ==
  /\ phase = "away" \/ listener = "none" => cursor = 0
  /\ phase \in {"away", "replaying", "writing", "silent"} =>
       /\ Len(pending) = cursor - start
       /\ \A n \in 1..(cursor - start) : pending[n] = start + n
  /\ phase \in {"away", "replaying", "silent"} => turn = 0 /\ written = <<>> /\ lastIndex = 0
  /\ terminalWritten => phase = "closed"

\* What the deduplication goes by is the last stage written.
DedupInv ==
  /\ InOrderOnce
  /\ ~terminalWritten =>
       /\ \A n \in DOMAIN written : written[n] # Done
       /\ lastIndex = IF written = <<>> THEN 0 ELSE Index[written[Len(written)]]

\* The log's first k messages, then the messages above `from` up to n.
Spliced(k, from, n) == [i \in 1..(k + n - from) |-> IF i <= k THEN i ELSE from - k + i]

Larger(m, n) == IF m < n THEN n ELSE m

StagesRise == \A m, n \in Progress : m < n => Index[m] < Index[n]
LogIsClean == \A n \in 1..Len(snapshot) : snapshot[n] = n

\* How far the splice has come when the log was clean.
SpliceInv ==
  LET k == Len(snapshot)
      from == Larger(start, k)
  IN  StagesRise /\ LogIsClean =>
        /\ phase = "writing" /\ turn <= k => written = [n \in 1..turn |-> n]
        /\ phase = "writing" /\ turn >= k =>
             written = Spliced(k, from, Larger(from, start + turn - k))
        /\ phase = "live" => written = Spliced(k, from, Larger(from, cursor))
        /\ terminalWritten => written = Spliced(k, from, Messages)

StreamInv == TypeOK /\ ChannelInv /\ QueueInv /\ DedupInv /\ SpliceInv

\* `done` is published once its append has ended, and what was stored is there.
EndInv ==
  /\ MissedForAReason
  /\ Len(channel) = Messages => writer[Done].at \in {"stored", "dropped", "failed"}
  /\ \A m \in 1..Messages : writer[m].at = "stored" => \E d \in docs : d.msg = m
  /\ phase = "away" => ~fetched

----------------------------------------------------------------------------
(* The worker's steps.                                                      *)

\* The client's side, which no step of the worker touches.
LEMMA ClientIsKept ==
  ASSUME StreamInv, UNCHANGED <<client, out>>,
         channel' \in Seq(1..Messages), Len(channel') >= Len(channel), ChannelInv',
         Log!TypeOK'
  PROVE  StreamInv'
<1> USE DEF client, out
<1>1. TypeOK'
  BY DEF StreamInv, TypeOK
<1>2. QueueInv'
  BY DEF StreamInv, QueueInv
<1>3. DedupInv'
  BY DEF StreamInv, DedupInv, InOrderOnce
<1>4. SpliceInv'
  BY DEF StreamInv, SpliceInv, LogIsClean
<1> QED BY <1>1, <1>2, <1>3, <1>4 DEF StreamInv

\* A writer that moves after it was called.
LEMMA LogStepKeeps ==
  ASSUME StreamInv, LogStep, Log!TypeOK' PROVE StreamInv'
<1>1. PICK m \in 1..Messages : Log!Step(m) \/ Log!Fault(m)
  BY DEF LogStep
<1>2. channel' = channel /\ UNCHANGED <<client, out>>
  BY DEF LogStep
<1>3. writer \in [1..Messages -> Log!Writer] /\ m \in 1..Messages
  BY DEF StreamInv, TypeOK, Log!TypeOK, Log!Message
<1>4. writer'[m].at # "idle" /\ writer[m].at # "idle"
  <2>1. CASE Log!FindLast(m)
    <3>1. PICK n \in 0..Messages : writer' = [writer EXCEPT ![m].at = "create", ![m].seq = n]
      BY <2>1 DEF Log!FindLast
    <3> QED BY <1>3, <2>1, <3>1 DEF Log!FindLast, Log!Writer
  <2>2. CASE Log!Create(m)
    BY <1>3, <2>2 DEF Log!Create, Log!Writer
  <2>3. CASE Log!LoseRace(m)
    BY <1>3, <2>3 DEF Log!LoseRace, Log!Writer
  <2>4. CASE Log!Fault(m)
    BY <1>3, <2>4 DEF Log!Fault, Log!Writer
  <2> QED BY <1>1, <2>1, <2>2, <2>3, <2>4 DEF Log!Step
<1>5. \A n \in 1..Messages : n # m => writer'[n] = writer[n]
  BY <1>1, <1>3 DEF Log!Step, Log!FindLast, Log!Create, Log!LoseRace, Log!Fault
<1>6. ChannelInv'
  <2>1. \A n \in 1..Messages : writer'[n].at # "idle" <=> writer[n].at # "idle"
    BY <1>4, <1>5
  <2>2. Done \in 1..Messages /\ Progress \subseteq 1..Messages
    BY StreamAssumption DEF Done, Progress
  <2> HIDE DEF Done, Progress
  <2> QED BY <1>2, <2>1, <2>2 DEF StreamInv, ChannelInv
<1> QED BY <1>2, <1>6, ClientIsKept DEF StreamInv, TypeOK

\* A message goes out at the end of the channel.
LEMMA PublishKeeps ==
  ASSUME StreamInv, UNCHANGED <<client, out>>, Log!TypeOK', NEW m \in 1..Messages,
         channel' = Append(channel, m), m = Len(channel) + 1,
         \A n \in Progress : writer'[n].at # "idle" <=> n <= m,
         writer'[Done].at # "idle" => Messages - 1 <= m
  PROVE  StreamInv'
<1>1. channel \in Seq(1..Messages) /\ Len(channel) \in Nat /\ Messages \in Nat
  BY StreamAssumption DEF StreamInv, TypeOK
<1>2. channel' \in Seq(1..Messages) /\ Len(channel') = m
      /\ \A n \in 1..m : channel'[n] = IF n = m THEN m ELSE channel[n]
  BY <1>1
<1>3. ChannelInv'
  BY <1>1, <1>2 DEF StreamInv, ChannelInv
<1> QED BY <1>1, <1>2, <1>3, ClientIsKept

\* The processor only makes the channel longer.
LEMMA EmissionKeeps ==
  ASSUME StreamInv, Emission, Log!TypeOK' PROVE StreamInv'
<1> USE StreamAssumption
<1>0. channel \in Seq(1..Messages) /\ Len(channel) \in Nat /\ writer \in [1..Messages -> Log!Writer]
  BY DEF StreamInv, TypeOK, Log!TypeOK, Log!Message
<1>1. CASE EmitDone
  <2>1. channel' = channel /\ UNCHANGED <<client, out>> /\ Log!Emit(Done)
    BY <1>1 DEF EmitDone
  <2>2. \A n \in Progress : writer'[n] = writer[n] /\ writer[n].at # "idle"
    BY <1>0, <2>1 DEF Log!Emit, Log!append, Progress, Done
  <2>3. Messages - 1 <= Len(channel)
    <3>1. Messages = 1 \/ Messages - 1 \in Progress
      BY DEF Progress
    <3> QED BY <1>0, <2>2, <3>1 DEF StreamInv, ChannelInv
  <2>4. ChannelInv'
    BY <2>1, <2>2, <2>3 DEF StreamInv, ChannelInv
  <2> QED BY <1>0, <2>1, <2>4, ClientIsKept
<1>2. CASE PublishDone
  <2>1. /\ channel' = Append(channel, Messages) /\ UNCHANGED <<client, out>>
        /\ writer[Messages].at # "idle" /\ writer' = writer
        /\ \A n \in 1..Len(channel) : channel[n] # Messages
    BY <1>0, <1>2 DEF PublishDone, Done, Range, log
  <2>2. Messages - 1 <= Len(channel)
    BY <2>1 DEF StreamInv, ChannelInv, Done
  <2>3. Len(channel) + 1 = Messages
    BY <1>0, <2>1, <2>2 DEF StreamInv, ChannelInv
  <2>4. \A n \in Progress : writer'[n].at # "idle" <=> n <= Messages
    BY <2>1, <2>3 DEF StreamInv, ChannelInv, Progress
  <2>5. Messages - 1 <= Messages
    OBVIOUS
  <2> QED BY <2>1, <2>3, <2>4, <2>5, PublishKeeps
<1>3. ASSUME NEW m \in Progress, EmitProgress(m) PROVE StreamInv'
  <2>1. /\ channel' = Append(channel, m) /\ UNCHANGED <<client, out>>
        /\ writer[m].at = "idle" /\ \A n \in 1..(m - 1) : writer[n].at # "idle"
        /\ writer' = [writer EXCEPT ![m].at = "find"]
        /\ m \in 1..Messages /\ m \in Int
    BY <1>3 DEF EmitProgress, Log!Emit, Log!append, Progress
  <2>2. m - 1 <= Len(channel)
    <3>1. CASE m = 1
      BY <1>0, <3>1
    <3>2. CASE m # 1
      <4>1. m - 1 \in Progress /\ m - 1 \in 1..(m - 1)
        BY <2>1, <3>2 DEF Progress
      <4> QED BY <2>1, <4>1 DEF StreamInv, ChannelInv
    <3> QED BY <3>1, <3>2
  <2>3. m = Len(channel) + 1
    BY <1>0, <2>1, <2>2 DEF StreamInv, ChannelInv
  <2>4. \A n \in Progress : writer'[n].at # "idle" <=> n <= m
    <3>1. \A n \in Progress : writer'[n].at = IF n = m THEN "find" ELSE writer[n].at
      BY <1>0, <2>1 DEF Progress, Log!Writer
    <3>2. \A n \in Progress : writer[n].at # "idle" <=> n <= Len(channel)
      BY DEF StreamInv, ChannelInv
    <3>3. ASSUME NEW n \in Progress, n # m
          PROVE  writer'[n].at # "idle" <=> n <= m
      <4>1. n <= Len(channel) <=> n <= m
        BY <1>0, <2>1, <2>3, <3>3 DEF Progress
      <4> QED BY <3>1, <3>2, <3>3, <4>1
    <3>4. writer'[m].at # "idle" /\ m <= m
      BY <2>1, <3>1
    <3> QED BY <3>3, <3>4
  <2>5. writer'[Done].at # "idle" => Messages - 1 <= m
    <3>1. writer'[Done] = writer[Done]
      BY <1>0, <2>1 DEF Done, Progress
    <3> QED BY <1>0, <2>3, <3>1 DEF StreamInv, ChannelInv
  <2> QED BY <2>1, <2>3, <2>4, <2>5, PublishKeeps
<1> QED BY <1>1, <1>2, <1>3 DEF Emission

----------------------------------------------------------------------------
(* What one message does to what is written.                                *)

\* writeMessage, from a stream that is open.
LEMMA WriteOne ==
  ASSUME TypeOK, DedupInv, NEW m \in 1..Messages, ~terminalWritten, phase # "closed",
         Send(WriteMessage(Out, m))
  PROVE  \/ /\ m = Done
            /\ phase' = "closed" /\ terminalWritten' = TRUE
            /\ written' = Append(written, m) /\ lastIndex' = lastIndex
         \/ /\ m \in Progress /\ Index[m] <= lastIndex
            /\ UNCHANGED out
         \/ /\ m \in Progress /\ Index[m] > lastIndex
            /\ written' = Append(written, m) /\ lastIndex' = Index[m]
            /\ UNCHANGED <<phase, terminalWritten>>
<1>1. m = Done \/ m \in Progress
  BY StreamAssumption DEF Done, Progress
<1>2. /\ Out.phase = phase /\ Out.last = lastIndex /\ Out.terminal = terminalWritten
      /\ Out.written = written
  BY DEF Out
<1>3. CASE m = Done
  <2>1. WriteMessage(Out, m) =
          [Out EXCEPT !.phase = "closed", !.terminal = TRUE, !.written = Append(Out.written, m)]
    BY <1>2, <1>3 DEF WriteMessage
  <2> QED BY <1>2, <1>3, <2>1 DEF Send, Out
<1>4. CASE m \in Progress /\ Index[m] <= lastIndex
  <2>1. m # Done
    BY <1>4, StreamAssumption DEF Done, Progress
  <2>2. WriteMessage(Out, m) = Out
    BY <1>2, <1>4, <2>1 DEF WriteMessage
  <2> QED BY <1>2, <1>4, <2>2 DEF Send, out
<1>5. CASE m \in Progress /\ ~(Index[m] <= lastIndex)
  <2>1. m # Done
    BY <1>5, StreamAssumption DEF Done, Progress
  <2>2. WriteMessage(Out, m) = [Out EXCEPT !.last = Index[m], !.written = Append(Out.written, m)]
    BY <1>2, <1>5, <2>1 DEF WriteMessage
  <2>3. Index[m] > lastIndex
    BY <1>5, StreamAssumption DEF TypeOK
  <2> QED BY <1>2, <1>5, <2>2, <2>3 DEF Send, Out
<1> QED BY <1>1, <1>3, <1>4, <1>5

\* A message given to the client is written above all that was, or dropped.
LEMMA WriteKeeps ==
  ASSUME TypeOK, DedupInv, NEW m \in 1..Messages, ~terminalWritten, phase # "closed",
         Send(WriteMessage(Out, m))
  PROVE  /\ DedupInv'
         /\ written' \in Seq(1..Messages) /\ terminalWritten' \in BOOLEAN
         /\ lastIndex' \in {0} \cup {Index[n] : n \in Progress}
         /\ phase' \in {phase, "closed"} /\ (terminalWritten' => phase' = "closed")
<1>0. /\ written \in Seq(1..Messages) /\ Len(written) \in Nat
      /\ DOMAIN written = 1..Len(written)
      /\ lastIndex \in {0} \cup {Index[n] : n \in Progress}
      /\ \A n \in Progress : Index[n] \in Nat
  BY StreamAssumption DEF TypeOK
<1>1. CASE UNCHANGED out
  BY <1>0, <1>1 DEF out, DedupInv, InOrderOnce, TypeOK
<1>2. CASE written' = Append(written, m) /\ ~UNCHANGED out
  <2>1. /\ written' \in Seq(1..Messages) /\ DOMAIN written' = 1..(Len(written) + 1)
        /\ Len(written') = Len(written) + 1 /\ written' # <<>>
        /\ written'[Len(written) + 1] = m
        /\ \A n \in 1..Len(written) : written'[n] = written[n]
    BY <1>0, <1>2
  <2>2. \A n \in 1..Len(written) : written[n] # Done /\ written[n] \in Progress
    <3> SUFFICES ASSUME NEW n \in 1..Len(written)
                 PROVE  written[n] # Done /\ written[n] \in Progress
      OBVIOUS
    <3>1. written[n] \in 1..Messages
      <4>1. written \in Seq(1..Messages)
        BY <1>0
      <4> QED BY <4>1, ElementOfSeq
    <3>2. written[n] # Done
      BY <1>0 DEF DedupInv
    <3> QED BY <3>1, <3>2, StreamAssumption DEF Done, Progress
  <2>3. \A n \in 1..Len(written) : Index[written[n]] <= lastIndex
    <3> SUFFICES ASSUME NEW n \in 1..Len(written) PROVE Index[written[n]] <= lastIndex
      OBVIOUS
    <3>1. Len(written) \in DOMAIN written /\ lastIndex = Index[written[Len(written)]]
      BY <1>0 DEF DedupInv
    <3>2. CASE n = Len(written)
      BY <1>0, <2>2, <3>1, <3>2
    <3>3. CASE n # Len(written)
      <4>1. Len(written) \in Nat /\ DOMAIN written = 1..Len(written)
        BY <1>0
      <4>2. n < Len(written)
        <5>1. \A last \in Nat : \A i \in 1..last : i # last => i < last
          OBVIOUS
        <5>2. n \in 1..Len(written)
          OBVIOUS
        <5> QED BY <3>3, <4>1, <5>1, <5>2
      <4>3. n \in DOMAIN written /\ Len(written) \in DOMAIN written
        BY <4>1, <4>2
      <4>4. written[Len(written)] # Done
        BY <4>3 DEF DedupInv
      <4>5. Index[written[n]] < Index[written[Len(written)]]
        BY <4>2, <4>3, <4>4 DEF DedupInv, InOrderOnce
      <4>6. Index[written[n]] \in Nat /\ lastIndex \in Nat
        BY <1>0, <2>2
      <4> QED BY <3>1, <4>5, <4>6
    <3> QED BY <3>2, <3>3
  <2>4. CASE m = Done /\ phase' = "closed" /\ terminalWritten' = TRUE /\ lastIndex' = lastIndex
    <3>1. InOrderOnce'
      BY <1>0, <2>1, <2>2, <2>4 DEF DedupInv, InOrderOnce
    <3> QED BY <1>0, <2>1, <2>4, <3>1 DEF DedupInv
  <2>5. CASE m \in Progress /\ Index[m] > lastIndex /\ lastIndex' = Index[m]
             /\ UNCHANGED <<phase, terminalWritten>>
    <3>1. m # Done
      BY <2>5, StreamAssumption DEF Done, Progress
    <3>2. \A n \in 1..Len(written) : Index[written[n]] < Index[m]
      <4>1. lastIndex \in Nat
        BY <1>0
      <4>2. SUFFICES ASSUME NEW n \in 1..Len(written) PROVE Index[written[n]] < Index[m]
        OBVIOUS
      <4>3. Index[written[n]] \in Nat /\ Index[m] \in Nat /\ Index[written[n]] <= lastIndex
        BY <1>0, <2>2, <2>3, <2>5
      <4> QED BY <2>5, <4>1, <4>3
    <3>3. InOrderOnce'
      BY <1>0, <2>1, <2>2, <3>1, <3>2 DEF DedupInv, InOrderOnce
    <3>4. \A n \in DOMAIN written' : written'[n] # Done
      BY <1>0, <2>1, <2>2, <3>1
    <3>5. lastIndex' = Index[written'[Len(written')]]
      BY <2>1, <2>5
    <3>6. DedupInv'
      BY <2>1, <3>3, <3>4, <3>5 DEF DedupInv
    <3> QED BY <1>0, <2>1, <2>5, <3>6 DEF TypeOK
  <2> QED BY <1>2, <2>4, <2>5, WriteOne
<1> QED BY <1>1, <1>2, WriteOne

----------------------------------------------------------------------------
(* The splice, message by message.                                          *)

UpTo(n) == [i \in 1..n |-> i]

\* The spliced sequence, element by element.
LEMMA SplicedIsSeq ==
  ASSUME NEW k \in Nat, NEW from \in Nat, NEW n \in Nat, k <= from, from <= n
  PROVE  /\ Spliced(k, from, n) \in Seq(Nat)
         /\ Len(Spliced(k, from, n)) = k + n - from
         /\ \A i \in 1..(k + n - from) :
              Spliced(k, from, n)[i] = IF i <= k THEN i ELSE from - k + i
<1>1. k + n - from \in Nat
  OBVIOUS
<1> QED BY <1>1 DEF Spliced

\* Its last message is no later than n.
LEMMA SplicedLast ==
  ASSUME NEW k \in Nat, NEW from \in Nat, NEW n \in Nat, k <= from, from <= n
  PROVE  /\ Len(Spliced(k, from, n)) = k + n - from
         /\ k + n - from # 0 => Spliced(k, from, n)[k + n - from] <= n
<1> DEFINE L == k + n - from
<1>1. /\ Len(Spliced(k, from, n)) = L
      /\ \A i \in 1..L : Spliced(k, from, n)[i] = IF i <= k THEN i ELSE from - k + i
  BY SplicedIsSeq
<1>2. L \in Nat
  OBVIOUS
<1>3. ASSUME L # 0 PROVE Spliced(k, from, n)[L] <= n
  <2>1. L \in 1..L
    BY <1>2, <1>3
  <2>2. Spliced(k, from, n)[L] = IF L <= k THEN L ELSE from - k + L
    BY <1>1, <2>1
  <2> QED BY <2>2
<1> QED BY <1>1, <1>3

\* With the next message after it, it is the sequence spliced up to that one.
LEMMA SplicedGrows ==
  ASSUME NEW k \in Nat, NEW from \in Nat, NEW n \in Nat, k <= from, from <= n
  PROVE  Append(Spliced(k, from, n), n + 1) = Spliced(k, from, n + 1)
<1> DEFINE s == Spliced(k, from, n)
           t == Spliced(k, from, n + 1)
<1>1. /\ s \in Seq(Nat) /\ Len(s) = k + n - from
      /\ \A i \in 1..(k + n - from) : s[i] = IF i <= k THEN i ELSE from - k + i
  BY SplicedIsSeq
<1>2. /\ t \in Seq(Nat) /\ Len(t) = k + (n + 1) - from
      /\ \A i \in 1..(k + (n + 1) - from) : t[i] = IF i <= k THEN i ELSE from - k + i
  <2>1. n + 1 \in Nat /\ from <= n + 1
    OBVIOUS
  <2> QED BY <2>1, SplicedIsSeq
<1> HIDE DEF s, t
<1>3. /\ Append(s, n + 1) \in Seq(Nat) /\ Len(Append(s, n + 1)) = Len(s) + 1
      /\ \A i \in 1..(Len(s) + 1) : Append(s, n + 1)[i] = IF i <= Len(s) THEN s[i] ELSE n + 1
  BY <1>1
<1>4. \A i \in 1..Len(t) : Append(s, n + 1)[i] = t[i]
  BY <1>1, <1>2, <1>3
<1>5. Append(s, n + 1) = t
  <2>1. PICK u \in Seq(Nat) : u = Append(s, n + 1)
    BY <1>3
  <2>2. Len(u) = Len(t) /\ \A i \in 1..Len(u) : u[i] = t[i]
    BY <1>1, <1>2, <1>3, <1>4, <2>1
  <2>3. u = t
    BY <1>2, <2>2, SeqEqual
  <2> QED BY <2>1, <2>3
<1> QED BY <1>5 DEF s, t

\* With nothing after it, the splice is the log.
LEMMA UpToIsSpliced ==
  ASSUME NEW k \in Nat, NEW from \in Nat
  PROVE  Spliced(k, from, from) = UpTo(k)
<1>1. k + from - from = k
  OBVIOUS
<1> QED BY <1>1 DEF Spliced, UpTo

\* The messages up to n, and one more.
LEMMA UpToGrows ==
  ASSUME NEW n \in Nat
  PROVE  /\ UpTo(n) \in Seq(Nat) /\ Len(UpTo(n)) = n /\ \A i \in 1..n : UpTo(n)[i] = i
         /\ Append(UpTo(n), n + 1) = UpTo(n + 1)
<1>1. Spliced(n, n, n) = UpTo(n) /\ Spliced(n, n, n + 1) = UpTo(n + 1)
  BY DEF Spliced, UpTo
<1>2. Append(Spliced(n, n, n), n + 1) = Spliced(n, n, n + 1)
  BY SplicedGrows
<1> QED BY <1>1, <1>2 DEF UpTo

\* Spliced to the end it is what CleanSplice calls for.
LEMMA SplicedIsConcat ==
  ASSUME NEW k \in Nat, NEW from \in Nat, k <= from, from <= Messages
  PROVE  Spliced(k, from, Messages) = [n \in 1..k |-> n] \o [n \in 1..(Messages - from) |-> from + n]
<1> DEFINE a == [n \in 1..k |-> n]
           b == [n \in 1..(Messages - from) |-> from + n]
           t == Spliced(k, from, Messages)
<1>0. Messages \in Nat /\ Messages - from \in Nat
  BY StreamAssumption
<1>1. a \in Seq(Nat) /\ Len(a) = k /\ \A i \in 1..k : a[i] = i
  OBVIOUS
<1>2. b \in Seq(Nat) /\ Len(b) = Messages - from /\ \A i \in 1..(Messages - from) : b[i] = from + i
  BY <1>0
<1>3. /\ t \in Seq(Nat) /\ Len(t) = k + Messages - from
      /\ \A i \in 1..(k + Messages - from) : t[i] = IF i <= k THEN i ELSE from - k + i
  BY <1>0, SplicedIsSeq
<1> HIDE DEF a, b, t
<1>4. /\ a \o b \in Seq(Nat) /\ Len(a \o b) = Len(a) + Len(b)
      /\ \A i \in 1..(Len(a) + Len(b)) : (a \o b)[i] = IF i <= Len(a) THEN a[i] ELSE b[i - Len(a)]
  BY <1>1, <1>2, ConcatProperties
<1>5. Len(a \o b) = Len(t)
  BY <1>0, <1>1, <1>2, <1>3, <1>4
<1>6. \A i \in 1..Len(t) : t[i] = (a \o b)[i]
  <2> SUFFICES ASSUME NEW i \in 1..Len(t) PROVE t[i] = (a \o b)[i]
    OBVIOUS
  <2>1. CASE i <= k
    BY <1>0, <1>1, <1>2, <1>3, <1>4, <2>1
  <2>2. CASE ~(i <= k)
    <3>1. i - k \in 1..(Messages - from)
      BY <1>0, <1>3, <2>2
    <3>2. b[i - k] = from + (i - k) /\ from + (i - k) = from - k + i
      BY <1>2, <3>1
    <3> QED BY <1>0, <1>1, <1>2, <1>3, <1>4, <2>2, <3>1, <3>2
  <2> QED BY <2>1, <2>2
<1>7. t = a \o b
  BY <1>3, <1>4, <1>5, <1>6, SeqEqual
<1> QED BY <1>7 DEF a, b, t

\* A live message at the splice: m is the next one the channel hands out.
LEMMA SpliceGrows ==
  ASSUME TypeOK, DedupInv, StagesRise, ~terminalWritten, phase # "closed",
         NEW k \in 0..Messages, NEW p \in start..Messages, p + 1 <= Messages,
         written = Spliced(k, Larger(start, k), Larger(Larger(start, k), p)),
         Send(WriteMessage(Out, p + 1))
  PROVE  /\ written' = Spliced(k, Larger(start, k), Larger(Larger(start, k), p + 1))
         /\ terminalWritten' => written' = Spliced(k, Larger(start, k), Messages)
<1> DEFINE from == Larger(start, k)
           m == p + 1
<1>0. /\ Messages \in Nat /\ start \in Nat /\ k \in Nat /\ p \in Nat /\ m \in 1..Messages
      /\ from \in Nat /\ k <= from /\ start <= from /\ (from = k \/ from = start)
      /\ start <= p /\ from <= Messages
      /\ \A n \in Progress : Index[n] \in Nat
  BY StreamAssumption DEF TypeOK, Larger
<1>1. CASE p < from
  <2>1. from = k /\ Larger(from, p) = k /\ Larger(from, p + 1) = k /\ m <= k
    BY <1>0, <1>1 DEF Larger
  <2>2. written = UpTo(k) /\ k # 0
    BY <1>0, <1>1, <2>1, UpToIsSpliced
  <2>3. Len(written) = k /\ written[k] = k /\ k \in DOMAIN written /\ written # <<>>
    BY <1>0, <2>2, UpToGrows DEF UpTo
  <2>4. k # Done /\ lastIndex = Index[k]
    BY <2>3 DEF DedupInv
  <2>5. k \in Progress /\ m \in Progress
    BY <1>0, <2>1, <2>2, <2>4 DEF Progress, Done
  <2>6. Index[m] <= lastIndex
    BY <1>0, <2>1, <2>4, <2>5, StreamAssumption
  <2>7. m # Done /\ ~(Index[m] > lastIndex)
    BY <1>0, <2>4, <2>5, <2>6 DEF Progress, Done
  <2>8. UNCHANGED out
    BY <1>0, <2>7, WriteOne
  <2> QED BY <2>1, <2>8 DEF out
<1>2. CASE ~(p < from)
  <2> DEFINE L == k + p - from
  <2>1. Larger(from, p) = p /\ Larger(from, p + 1) = p + 1 /\ from <= p /\ from <= p + 1 /\ L \in Nat
    BY <1>0, <1>2 DEF Larger
  <2>0. written = Spliced(k, from, p)
    BY <2>1
  <2> HIDE DEF from
  <2>2. Len(written) = L /\ (L # 0 => written[L] <= p)
    <3>1. k \in Nat /\ from \in Nat /\ p \in Nat /\ k <= from /\ from <= p
      BY <1>0, <2>1
    <3>2. /\ Len(Spliced(k, from, p)) = k + p - from
          /\ k + p - from # 0 => Spliced(k, from, p)[k + p - from] <= p
      BY <3>1, SplicedLast
    <3> QED BY <2>0, <3>2
  <2>3. Append(written, p + 1) = Spliced(k, from, p + 1)
    <3>1. k \in Nat /\ from \in Nat /\ p \in Nat /\ k <= from /\ from <= p
      BY <1>0, <2>1
    <3>2. Append(Spliced(k, from, p), p + 1) = Spliced(k, from, p + 1)
      BY <3>1, SplicedGrows
    <3> QED BY <2>0, <3>2
  <2>4. m \in Progress => Index[m] > lastIndex
    <3> SUFFICES ASSUME m \in Progress PROVE Index[m] > lastIndex
      OBVIOUS
    <3>1. CASE written = <<>>
      BY <1>0, <3>1, StreamAssumption DEF DedupInv
    <3>2. CASE written # <<>>
      <4>1. L \in 1..L /\ L \in DOMAIN written
        BY <1>0, <2>1, <2>2, <3>2 DEF TypeOK
      <4>2. written[L] \in 1..Messages
        BY <2>2, <4>1, ElementOfSeq DEF TypeOK
      <4>3. written[L] # Done /\ lastIndex = Index[written[L]]
        BY <2>2, <3>2, <4>1 DEF DedupInv
      <4>4. written[L] < m
        <5>1. L # 0 /\ written[L] \in Int
          BY <4>1, <4>2
        <5> QED BY <1>0, <2>2, <5>1
      <4>5. written[L] \in Progress
        BY <1>0, <4>2, <4>3 DEF Progress, Done
      <4>6. Index[written[L]] < Index[m]
        BY <4>4, <4>5 DEF StagesRise
      <4> QED BY <1>0, <4>3, <4>5, <4>6
    <3> QED BY <3>1, <3>2
  <2>5. m \in Progress => ~(Index[m] <= lastIndex)
    BY <1>0, <2>4 DEF TypeOK
  <2>6. written' = Append(written, m) /\ (terminalWritten' => m = Done)
    BY <1>0, <2>5, WriteOne
  <2> QED BY <2>1, <2>3, <2>6 DEF Done, from
<1> QED BY <1>1, <1>2

\* A message of a clean log: the next one of the first k.
LEMMA CleanLogGrows ==
  ASSUME TypeOK, DedupInv, StagesRise, ~terminalWritten, phase # "closed",
         NEW k \in 0..Messages, NEW n \in 0..k, n < k,
         written = UpTo(n), Send(WriteMessage(Out, n + 1))
  PROVE  /\ written' = UpTo(n + 1)
         /\ terminalWritten' => n + 1 = Messages
<1> DEFINE m == n + 1
<1>0. /\ Messages \in Nat /\ n \in Nat /\ m \in 1..Messages
      /\ Len(written) = n /\ \A i \in 1..n : written[i] = i
      /\ Append(written, m) = UpTo(m)
  <2>1. Messages \in Nat /\ n \in Nat /\ m \in 1..Messages
    BY StreamAssumption
  <2> QED BY <2>1, UpToGrows
<1>1. m \in Progress => Index[m] > lastIndex
  <2> SUFFICES ASSUME m \in Progress PROVE Index[m] > lastIndex
    OBVIOUS
  <2>1. CASE written = <<>>
    BY <2>1, StreamAssumption DEF DedupInv
  <2>2. CASE written # <<>>
    <3>1. n \in 1..n /\ n \in Progress /\ lastIndex = Index[written[n]]
      BY <1>0, <2>2 DEF DedupInv, TypeOK, Progress
    <3>2. Index[n] < Index[m]
      BY <1>0, <3>1 DEF StagesRise
    <3> QED BY <1>0, <3>1, <3>2, StreamAssumption
  <2> QED BY <2>1, <2>2
<1>2. m \in Progress => ~(Index[m] <= lastIndex)
  BY <1>1, StreamAssumption DEF TypeOK
<1>3. written' = Append(written, m) /\ (terminalWritten' => m = Done)
  BY <1>0, <1>2, WriteOne
<1> QED BY <1>0, <1>3 DEF Done

----------------------------------------------------------------------------
(* The client's steps.                                                      *)

\* The log and the channel, which no step of the client touches.
LEMMA WorkerIsKept ==
  ASSUME StreamInv, UNCHANGED <<log, channel>> PROVE ChannelInv'
  BY DEF StreamInv, ChannelInv, log

\* A stream that has written nothing yet.
LEMMA SilentSplice ==
  ASSUME ~terminalWritten', phase' \notin {"writing", "live"} PROVE SpliceInv'
  BY DEF SpliceInv

\* Until the log has answered nothing is written.
LEMMA OpeningKeeps ==
  ASSUME StreamInv, Log!TypeOK',
         (\E c \in 0..Len(channel) : Connect(c)) \/ ReadLog \/ ReadFails \/ Leave
  PROVE  StreamInv'
<1> USE StreamAssumption
<1>0. /\ TypeOK /\ QueueInv /\ DedupInv /\ SpliceInv /\ Len(channel) \in Nat
  BY DEF StreamInv, TypeOK
<1>1. ASSUME NEW c \in 0..Len(channel), Connect(c) PROVE StreamInv'
  <2>1. /\ phase = "away" /\ phase' = "replaying" /\ start' = c /\ cursor' = c
        /\ listener = "none" => c = 0
        /\ UNCHANGED <<log, channel, listener, fetched, snapshot, pending, turn,
                       lastIndex, terminalWritten, written>>
    BY <1>1 DEF Connect
  <2>2. TypeOK'
    BY <1>0, <2>1 DEF TypeOK
  <2>3. QueueInv'
    BY <1>0, <2>1 DEF QueueInv, TypeOK
  <2>4. DedupInv'
    BY <1>0, <2>1 DEF DedupInv, InOrderOnce
  <2>5. SpliceInv'
    BY <2>1, <2>3, SilentSplice DEF QueueInv
  <2> QED BY <2>1, <2>2, <2>3, <2>4, <2>5, WorkerIsKept DEF StreamInv
<1>2. CASE ReadLog
  <2>1. /\ phase = "replaying" /\ phase' = phase /\ fetched' = TRUE
        /\ UNCHANGED <<log, channel, listener, start, cursor, pending, turn, lastIndex, terminalWritten, written>>
    <3>1. /\ phase = "replaying" /\ fetched' = TRUE
          /\ UNCHANGED <<log, channel, listener, start, cursor, pending, turn, out>>
      BY <1>2, Zenon DEF ReadLog
    <3>2. /\ UNCHANGED log /\ channel' = channel /\ listener' = listener /\ start' = start /\ cursor' = cursor
          /\ pending' = pending /\ turn' = turn /\ UNCHANGED out
      BY <3>1
    <3>3. phase' = phase /\ lastIndex' = lastIndex /\ terminalWritten' = terminalWritten /\ written' = written
      BY <3>2 DEF out
    <3> QED BY <3>1, <3>2, <3>3
  <2>0. PICK n \in 0..Messages : \E ordered \in [1..n -> docs] :
          snapshot' = [k \in 1..n |-> ordered[k].msg]
    BY <1>2 DEF ReadLog
  <2>2. PICK ordered \in [1..n -> docs] : snapshot' = [k \in 1..n |-> ordered[k].msg]
    BY <2>0
  <2>3. \A d \in docs : d.msg \in 1..Messages
    BY <1>0 DEF TypeOK, Log!TypeOK, Log!Doc, Log!Message
  <2>4. snapshot' \in Seq(1..Messages)
    <3>1. snapshot' \in [1..n -> 1..Messages]
      BY <2>2, <2>3
    <3>2. n \in Nat
      OBVIOUS
    <3> QED BY <3>1, <3>2, SeqDef
  <2>5. TypeOK'
    <3>1. turn = 0 /\ Len(snapshot') \in Nat /\ Len(pending) \in Nat
      BY <1>0, <2>1, <2>4 DEF QueueInv, TypeOK
    <3> QED BY <1>0, <2>1, <2>4, <3>1 DEF TypeOK
  <2>6. QueueInv'
    BY <1>0, <2>1 DEF QueueInv
  <2>7. DedupInv'
    BY <1>0, <2>1 DEF DedupInv, InOrderOnce
  <2>8. SpliceInv'
    BY <2>1, <2>6, SilentSplice DEF QueueInv
  <2> QED BY <2>1, <2>5, <2>6, <2>7, <2>8, WorkerIsKept DEF StreamInv
<1>3. CASE ReadFails \/ Leave
  <2>1. /\ phase \in {"replaying", "silent", "live"}
        /\ \/ phase' = "closed"
           \/ phase = "replaying" /\ phase' = "silent"
        /\ UNCHANGED <<log, channel, client, lastIndex, terminalWritten, written>>
    <3>1. CASE ReadFails
      BY <3>1 DEF ReadFails
    <3>2. CASE Leave
      BY <3>2 DEF Leave
    <3> QED BY <1>3, <3>1, <3>2
  <2>2. TypeOK'
    BY <1>0, <2>1 DEF TypeOK, client
  <2>3. QueueInv'
    BY <1>0, <2>1 DEF QueueInv, client
  <2>4. DedupInv'
    BY <1>0, <2>1 DEF DedupInv, InOrderOnce
  <2>5. ~terminalWritten'
    BY <1>0, <2>1 DEF QueueInv, TypeOK
  <2>6. SpliceInv'
    BY <2>1, <2>5, SilentSplice
  <2> QED BY <2>1, <2>2, <2>3, <2>4, <2>6, WorkerIsKept DEF StreamInv
<1> QED BY <1>1, <1>2, <1>3

\* The listener connects: nothing was queued before, and what is written is what
\* the log had.
LEMMA OpenKeeps ==
  ASSUME StreamInv, Log!TypeOK', Open PROVE StreamInv'
<1> DEFINE k == Len(snapshot)
           n == Len(channel)
<1>0. /\ TypeOK /\ QueueInv /\ DedupInv /\ SpliceInv /\ n \in Nat /\ k \in Nat /\ turn \in Nat
      /\ Len(pending) \in Nat
  BY DEF StreamInv, TypeOK
<1>1. /\ listener = "none" /\ listener' = "late" /\ phase \notin {"away", "closed"}
      /\ start' = n /\ cursor' = n
      /\ UNCHANGED <<log, channel, fetched, snapshot, pending, turn, phase, lastIndex, terminalWritten, written>>
  BY DEF Open, out
<1>2. start = 0 /\ cursor = 0 /\ ~terminalWritten
  BY <1>0, <1>1 DEF QueueInv, TypeOK
<1>3. phase # "live" => Len(pending) = 0 /\ turn <= k
  BY <1>0, <1>1, <1>2 DEF QueueInv, TypeOK
<1>4. TypeOK'
  BY <1>0, <1>1 DEF TypeOK
<1>5. QueueInv'
  BY <1>0, <1>1, <1>2, <1>3 DEF QueueInv
<1>6. DedupInv'
  BY <1>0, <1>1 DEF DedupInv, InOrderOnce
<1>7. SpliceInv'
  <2> SUFFICES ASSUME StagesRise, LogIsClean
               PROVE  /\ phase = "writing" /\ turn <= k => written = UpTo(turn)
                      /\ phase = "writing" /\ turn >= k =>
                           written = Spliced(k, Larger(n, k), Larger(Larger(n, k), n + turn - k))
                      /\ phase = "live" => written = Spliced(k, Larger(n, k), Larger(Larger(n, k), n))
    BY <1>1, <1>2 DEF SpliceInv, LogIsClean, UpTo
  <2>1. Larger(n, k) \in Nat /\ Larger(Larger(n, k), n) = Larger(n, k)
        /\ Larger(0, k) = k /\ Larger(k, 0) = k
    BY <1>0 DEF Larger
  <2>2. phase = "writing" /\ turn <= k => written = UpTo(turn)
    BY <1>0 DEF SpliceInv, UpTo
  <2>3. ASSUME phase = "writing", turn >= k
        PROVE  written = Spliced(k, Larger(n, k), Larger(Larger(n, k), n + turn - k))
    <3>1. turn = k /\ n + turn - k = n
      BY <1>0, <1>3, <2>3
    <3> QED BY <1>0, <2>1, <2>2, <2>3, <3>1, UpToIsSpliced
  <2>4. ASSUME phase = "live" PROVE written = Spliced(k, Larger(n, k), Larger(Larger(n, k), n))
    <3>1. written = Spliced(k, k, k)
      BY <1>0, <1>2, <2>1, <2>4 DEF SpliceInv
    <3> QED BY <1>0, <2>1, <3>1, UpToIsSpliced
  <2> QED BY <2>2, <2>3, <2>4
<1> QED BY <1>1, <1>4, <1>5, <1>6, <1>7, WorkerIsKept DEF StreamInv

\* A clean log is no longer than the job's messages.
LEMMA CleanLogFits ==
  ASSUME TypeOK, LogIsClean PROVE Len(snapshot) \in 0..Messages
<1>1. snapshot \in Seq(1..Messages) /\ Len(snapshot) \in Nat /\ Messages \in Nat
  BY StreamAssumption DEF TypeOK
<1>2. CASE Len(snapshot) = 0
  BY <1>1, <1>2
<1>3. CASE Len(snapshot) # 0
  <2>1. Len(snapshot) \in 1..Len(snapshot)
    BY <1>1, <1>3
  <2>2. snapshot[Len(snapshot)] \in 1..Messages
    BY <1>1, <2>1, ElementOfSeq
  <2> QED BY <1>1, <2>1, <2>2 DEF LogIsClean
<1> QED BY <1>2, <1>3

\* The replay begins with what the log held.
LEMMA ReplayKeeps ==
  ASSUME StreamInv, Log!TypeOK', Replay PROVE StreamInv'
<1>0. /\ TypeOK /\ QueueInv /\ DedupInv /\ SpliceInv
  BY DEF StreamInv
<1>1. /\ phase = "replaying" /\ phase' = "writing" /\ turn = 0 /\ written = <<>> /\ ~terminalWritten
      /\ UNCHANGED <<log, channel, client, lastIndex, terminalWritten, written>>
  BY <1>0 DEF Replay, QueueInv, TypeOK
<1>2. TypeOK' /\ QueueInv' /\ DedupInv'
  BY <1>0, <1>1 DEF TypeOK, QueueInv, DedupInv, InOrderOnce, client
<1>3. SpliceInv'
  <2> SUFFICES ASSUME StagesRise, LogIsClean
               PROVE  LET k == Len(snapshot)
                          from == Larger(start, k)
                      IN  /\ written = UpTo(0)
                          /\ 0 >= k => written = Spliced(k, from, Larger(from, start + 0 - k))
    BY <1>1 DEF SpliceInv, LogIsClean, client, UpTo
  <2>1. start \in Nat /\ Len(snapshot) \in Nat
    BY <1>0, StreamAssumption DEF TypeOK
  <2>2. UpTo(0) = <<>>
    BY DEF UpTo
  <2>3. ASSUME 0 >= Len(snapshot)
        PROVE  Spliced(Len(snapshot), Larger(start, Len(snapshot)),
                       Larger(Larger(start, Len(snapshot)), start + 0 - Len(snapshot))) = UpTo(0)
    <3>1. Len(snapshot) = 0
      BY <2>1, <2>3
    <3>2. Larger(start, 0) = start /\ Larger(start, start + 0 - 0) = start
      BY <2>1 DEF Larger
    <3> QED BY <2>1, <3>1, <3>2, UpToIsSpliced
  <2> QED BY <1>1, <2>2, <2>3
<1> QED BY <1>1, <1>2, <1>3, WorkerIsKept DEF StreamInv

\* One message more of the replay, then of the queue.
LEMMA WriteNextKeeps ==
  ASSUME StreamInv, Log!TypeOK', WriteNext PROVE StreamInv'
<1> DEFINE k == Len(snapshot)
           l == Len(pending)
           m == IF turn < k THEN snapshot[turn + 1] ELSE pending[turn + 1 - k]
<1>0. /\ TypeOK /\ QueueInv /\ DedupInv /\ SpliceInv /\ Messages \in Nat
      /\ k \in Nat /\ l \in Nat /\ turn \in Nat /\ start \in Nat /\ cursor \in Nat
      /\ snapshot \in Seq(1..Messages) /\ pending \in Seq(1..Messages)
      /\ l = cursor - start /\ start <= cursor /\ cursor <= Messages
  <2>1. phase = "writing"
    BY DEF WriteNext
  <2>2. TypeOK /\ QueueInv /\ DedupInv /\ SpliceInv /\ Len(channel) \in Nat
    BY DEF StreamInv, TypeOK
  <2> QED BY <2>1, <2>2, StreamAssumption DEF StreamInv, TypeOK, QueueInv, ChannelInv
<1>1. /\ phase = "writing" /\ turn < k + l /\ turn' = turn + 1
      /\ Send(WriteMessage(Out, m))
      /\ UNCHANGED <<log, channel, listener, start, cursor, fetched, snapshot, pending>>
  BY DEF WriteNext
<1>2. ~terminalWritten /\ phase # "closed"
  BY <1>0, <1>1 DEF QueueInv
<1>3. m \in 1..Messages
  <2>1. turn < k => turn + 1 \in 1..k
    BY <1>0
  <2>2. ~(turn < k) => turn + 1 - k \in 1..l
    BY <1>0, <1>1
  <2> QED BY <1>0, <2>1, <2>2, ElementOfSeq
<1>4. /\ DedupInv' /\ written' \in Seq(1..Messages) /\ terminalWritten' \in BOOLEAN
      /\ lastIndex' \in {0} \cup {Index[n] : n \in Progress}
      /\ phase' \in {phase, "closed"} /\ (terminalWritten' => phase' = "closed")
  BY <1>0, <1>1, <1>2, <1>3, WriteKeeps
<1>5. TypeOK'
  BY <1>0, <1>1, <1>4 DEF TypeOK
<1>6. QueueInv'
  BY <1>0, <1>1, <1>4 DEF QueueInv
<1>7. SpliceInv'
  <2> DEFINE from == Larger(start, k)
  <2> SUFFICES ASSUME StagesRise, LogIsClean
               PROVE  /\ turn + 1 <= k => written' = UpTo(turn + 1)
                      /\ turn + 1 >= k => written' = Spliced(k, from, Larger(from, start + (turn + 1) - k))
                      /\ terminalWritten' => written' = Spliced(k, from, Messages)
    BY <1>1, <1>4 DEF SpliceInv, LogIsClean, UpTo
  <2>0. k \in 0..Messages
    BY <1>0, CleanLogFits
  <2>1. CASE turn < k
    <3>1. m = turn + 1 /\ turn \in 0..k
      BY <1>0, <2>1 DEF LogIsClean
    <3>2. written = UpTo(turn)
      BY <1>0, <1>1, <2>1 DEF SpliceInv, UpTo
    <3>3. written' = UpTo(turn + 1) /\ (terminalWritten' => turn + 1 = Messages)
      BY <1>0, <1>1, <1>2, <2>0, <2>1, <3>1, <3>2, CleanLogGrows
    <3>4. ASSUME turn + 1 >= k
          PROVE  written' = Spliced(k, from, Larger(from, start + (turn + 1) - k))
      <4>0. k \in Nat /\ turn \in Nat /\ start \in Nat
        BY <1>0
      <4>1. turn + 1 = k /\ start + (turn + 1) - k = start
        <5> HIDE DEF k
        <5> QED BY <2>1, <3>4, <4>0
      <4>2. from \in Nat /\ Larger(from, start) = from
        BY <1>0 DEF Larger
      <4>3. written' = UpTo(k)
        BY <3>3, <4>1
      <4> QED BY <1>0, <4>1, <4>2, <4>3, UpToIsSpliced
    <3>5. ASSUME terminalWritten' PROVE written' = Spliced(k, from, Messages)
      <4>1. turn + 1 = Messages /\ k = Messages /\ from = Messages
        BY <1>0, <2>0, <2>1, <3>3, <3>5 DEF Larger
      <4>2. written' = UpTo(k)
        BY <3>3, <4>1
      <4> QED BY <1>0, <4>1, <4>2, UpToIsSpliced
    <3> QED BY <3>3, <3>4, <3>5
  <2>2. CASE ~(turn < k)
    <3> DEFINE p == start + turn - k
    <3>1. p \in start..Messages /\ p + 1 <= Messages /\ turn >= k /\ ~(turn + 1 <= k)
          /\ start + (turn + 1) - k = p + 1
      BY <1>0, <1>1, <2>2
    <3>2. m = p + 1
      <4>1. turn + 1 - k \in 1..(cursor - start)
        BY <1>0, <1>1, <2>2
      <4>2. pending[turn + 1 - k] = start + (turn + 1 - k)
        BY <1>0, <1>1, <4>1 DEF QueueInv
      <4> QED BY <1>0, <2>2, <4>2
    <3>3. written = Spliced(k, from, Larger(from, p))
      BY <1>0, <1>1, <3>1 DEF SpliceInv
    <3> HIDE DEF p
    <3>4. Send(WriteMessage(Out, p + 1))
      BY <1>1, <3>2
    <3>5. /\ written' = Spliced(k, from, Larger(from, p + 1))
          /\ terminalWritten' => written' = Spliced(k, from, Messages)
      BY <1>0, <1>2, <2>0, <3>1, <3>3, <3>4, SpliceGrows
    <3> QED BY <3>1, <3>5
  <2> QED BY <2>1, <2>2
<1> QED BY <1>1, <1>4, <1>5, <1>6, <1>7, WorkerIsKept DEF StreamInv

\* The stream goes live when both have been written.
LEMMA GoLiveKeeps ==
  ASSUME StreamInv, Log!TypeOK', GoLive PROVE StreamInv'
<1> DEFINE k == Len(snapshot)
           from == Larger(start, k)
<1>0. /\ TypeOK /\ QueueInv /\ DedupInv /\ SpliceInv
      /\ k \in Nat /\ start \in Nat /\ cursor \in Nat /\ turn \in Nat
  BY StreamAssumption DEF StreamInv, TypeOK
<1>1. /\ phase = "writing" /\ phase' = "live" /\ turn = k + Len(pending)
      /\ pending' = <<>> /\ turn' = 0
      /\ UNCHANGED <<log, channel, listener, start, cursor, fetched, snapshot,
                     lastIndex, terminalWritten, written>>
  BY DEF GoLive
<1>2. Len(pending) = cursor - start /\ Len(pending) \in Nat /\ ~terminalWritten
  BY <1>0, <1>1 DEF QueueInv, TypeOK
<1>3. TypeOK'
  BY <1>0, <1>1 DEF TypeOK
<1>4. QueueInv' /\ DedupInv'
  BY <1>0, <1>1, <1>2 DEF QueueInv, DedupInv, InOrderOnce
<1>5. SpliceInv'
  <2> SUFFICES ASSUME StagesRise, LogIsClean
               PROVE  written = Spliced(k, from, Larger(from, cursor))
    BY <1>1, <1>2 DEF SpliceInv, LogIsClean
  <2>1. start + turn - k = cursor /\ turn >= k
    BY <1>0, <1>1, <1>2
  <2> QED BY <1>0, <1>1, <2>1 DEF SpliceInv
<1> QED BY <1>1, <1>3, <1>4, <1>5, WorkerIsKept DEF StreamInv

\* A message of the channel is queued, or written where the splice goes on.
LEMMA DeliverKeeps ==
  ASSUME StreamInv, Log!TypeOK', Deliver PROVE StreamInv'
<1> DEFINE k == Len(snapshot)
           from == Larger(start, k)
           m == channel[cursor + 1]
<1>0. /\ TypeOK /\ QueueInv /\ DedupInv /\ SpliceInv /\ Messages \in Nat
      /\ k \in Nat /\ start \in Nat /\ cursor \in Nat /\ start <= cursor
      /\ Len(channel) \in Nat /\ Len(channel) <= Messages
      /\ pending \in Seq(1..Messages)
  BY StreamAssumption DEF StreamInv, TypeOK, ChannelInv
<1>1. /\ phase \in {"replaying", "silent", "live"} /\ cursor < Len(channel) /\ cursor' = cursor + 1
      /\ listener # "none"
      /\ UNCHANGED <<log, channel, listener, start, fetched, snapshot, turn>>
  BY DEF Deliver
<1>2. m = cursor + 1 /\ m \in 1..Messages /\ ~terminalWritten
  <2>1. cursor + 1 \in 1..Len(channel) /\ cursor + 1 \in 1..Messages
    BY <1>0, <1>1
  <2>2. m = cursor + 1
    BY <2>1 DEF StreamInv, ChannelInv
  <2> QED BY <1>0, <1>1, <2>1, <2>2 DEF QueueInv
<1>3. CASE phase # "live"
  <2>1. pending' = Append(pending, m) /\ UNCHANGED out
    BY <1>3 DEF Deliver
  <2>2. /\ pending' \in Seq(1..Messages) /\ Len(pending') = Len(pending) + 1
        /\ \A n \in 1..(Len(pending) + 1) : pending'[n] = IF n = Len(pending) + 1 THEN m ELSE pending[n]
    BY <1>0, <1>2, <2>1
  <2>3. Len(pending) = cursor - start /\ turn = 0
    BY <1>0, <1>1, <1>3 DEF QueueInv
  <2>4. TypeOK'
    BY <1>0, <1>1, <2>1, <2>2, <2>3 DEF TypeOK, out
  <2>5. QueueInv'
    <3>1. \A n \in 1..(cursor' - start') : pending'[n] = start' + n
      <4> SUFFICES ASSUME NEW n \in 1..(cursor + 1 - start) PROVE pending'[n] = start + n
        <5>1. cursor' - start' = cursor + 1 - start /\ start' = start
          BY <1>0, <1>1
        <5> QED BY <5>1
      <4>1. CASE n = Len(pending) + 1
        BY <1>0, <1>2, <2>2, <2>3, <4>1
      <4>2. CASE n # Len(pending) + 1
        <5>1. n \in 1..(cursor - start) /\ n \in 1..(Len(pending) + 1)
          BY <1>0, <2>3, <4>2
        <5> QED BY <1>0, <1>1, <1>3, <2>2, <4>2, <5>1 DEF QueueInv
      <4> QED BY <4>1, <4>2
    <3> QED BY <1>0, <1>1, <2>1, <2>2, <2>3, <3>1 DEF QueueInv, out
  <2>6. DedupInv'
    BY <1>0, <2>1 DEF DedupInv, InOrderOnce, out
  <2>7. SpliceInv'
    BY <1>1, <1>2, <1>3, <2>1, SilentSplice DEF out
  <2> QED BY <1>1, <2>4, <2>5, <2>6, <2>7, WorkerIsKept DEF StreamInv
<1>4. CASE phase = "live"
  <2>1. Send(WriteMessage(Out, m)) /\ pending' = pending
    BY <1>4 DEF Deliver
  <2>2. /\ DedupInv' /\ written' \in Seq(1..Messages) /\ terminalWritten' \in BOOLEAN
        /\ lastIndex' \in {0} \cup {Index[n] : n \in Progress}
        /\ phase' \in {phase, "closed"} /\ (terminalWritten' => phase' = "closed")
    BY <1>0, <1>2, <1>4, <2>1, WriteKeeps
  <2>3. TypeOK'
    BY <1>0, <1>1, <2>1, <2>2 DEF TypeOK
  <2>4. QueueInv'
    BY <1>0, <1>1, <1>4, <2>2 DEF QueueInv
  <2>5. SpliceInv'
    <3> SUFFICES ASSUME StagesRise, LogIsClean
                 PROVE  /\ written' = Spliced(k, from, Larger(from, cursor + 1))
                        /\ terminalWritten' => written' = Spliced(k, from, Messages)
      BY <1>1, <1>4, <2>2 DEF SpliceInv, LogIsClean
    <3>1. k \in 0..Messages /\ cursor \in start..Messages /\ cursor + 1 <= Messages
      BY <1>0, <1>1, CleanLogFits
    <3>2. written = Spliced(k, from, Larger(from, cursor)) /\ Send(WriteMessage(Out, cursor + 1))
      BY <1>0, <1>2, <1>4, <2>1 DEF SpliceInv
    <3> QED BY <1>0, <1>2, <1>4, <3>1, <3>2, SpliceGrows
  <2> QED BY <1>1, <2>2, <2>3, <2>4, <2>5, WorkerIsKept DEF StreamInv
<1> QED BY <1>3, <1>4

\* The invariant is inductive.
LEMMA StreamStep ==
  ASSUME StreamInv, Log!TypeOK', [Next]_vars PROVE StreamInv'
<1>1. CASE UNCHANGED vars
  <2>1. UNCHANGED <<log, channel, client, out>>
    BY <1>1 DEF vars
  <2>2. ChannelInv'
    BY <2>1, WorkerIsKept
  <2> QED BY <2>1, <2>2, ClientIsKept DEF StreamInv, TypeOK
<1>2. CASE Next
  BY <1>2, EmissionKeeps, LogStepKeeps, OpeningKeeps, OpenKeeps, ReplayKeeps, WriteNextKeeps, GoLiveKeeps,
     DeliverKeeps DEF Next
<1> QED BY <1>1, <1>2

----------------------------------------------------------------------------
(* Who misses the end.                                                      *)

\* The stream's steps that neither fetch nor connect.
LEMMA EndIsKept ==
  ASSUME StreamInv, EndInv, UNCHANGED <<listener, start, fetched, snapshot>>,
         phase' = "away" => phase = "away",
         Len(channel') = Messages => writer'[Done].at \in {"stored", "dropped", "failed"},
         \A m \in 1..Messages : writer'[m].at = "stored" => \E d \in docs' : d.msg = m,
         writer[Done].at \in {"dropped", "failed"} => writer'[Done] = writer[Done]
  PROVE  EndInv'
  BY DEF EndInv, MissedForAReason, Missed

\* A step of the log: an append that ends is stored or given up, for good.
LEMMA EndAppends ==
  ASSUME StreamInv, EndInv, LogStep PROVE EndInv'
<1>1. PICK m \in 1..Messages : Log!Step(m) \/ Log!Fault(m)
  BY DEF LogStep
<1>2. UNCHANGED <<channel, listener, start, fetched, snapshot, phase>>
  BY DEF LogStep, client, out
<1>3. writer \in [1..Messages -> Log!Writer] /\ Done \in 1..Messages
  BY StreamAssumption DEF StreamInv, TypeOK, Log!TypeOK, Log!Message, Done
<1>4. /\ writer[m].at \in {"find", "create"} /\ docs \subseteq docs'
      /\ \A n \in 1..Messages : n # m => writer'[n] = writer[n]
      /\ writer'[m].at = "stored" => \E d \in docs' : d.msg = m
  <2>1. CASE Log!FindLast(m)
    <3>1. PICK n \in 0..Messages : writer' = [writer EXCEPT ![m].at = "create", ![m].seq = n]
      BY <2>1 DEF Log!FindLast
    <3> QED BY <1>3, <2>1, <3>1 DEF Log!FindLast, Log!Writer
  <2>2. CASE Log!Create(m)
    <3>1. [seq |-> writer[m].seq, msg |-> m] \in docs'
      BY <2>2 DEF Log!Create
    <3> QED BY <1>3, <2>2, <3>1 DEF Log!Create, Log!Writer
  <2>3. CASE Log!LoseRace(m)
    BY <1>3, <2>3 DEF Log!LoseRace, Log!Writer
  <2>4. CASE Log!Fault(m)
    BY <1>3, <2>4 DEF Log!Fault, Log!Writer
  <2> QED BY <1>1, <2>1, <2>2, <2>3, <2>4 DEF Log!Step
<1>5. Len(channel') = Messages => writer'[Done].at \in {"stored", "dropped", "failed"}
  BY <1>2, <1>3, <1>4 DEF EndInv
<1>6. \A n \in 1..Messages : writer'[n].at = "stored" => \E d \in docs' : d.msg = n
  BY <1>4 DEF EndInv
<1>7. writer[Done].at \in {"dropped", "failed"} => writer'[Done] = writer[Done]
  BY <1>3, <1>4
<1> QED BY <1>2, <1>5, <1>6, <1>7, EndIsKept

\* The processor publishes `done` last, and its append has ended by then.
LEMMA EndEmission ==
  ASSUME StreamInv, EndInv, Emission PROVE EndInv'
<1> USE StreamAssumption
<1>0. /\ channel \in Seq(1..Messages) /\ Len(channel) \in Nat /\ writer \in [1..Messages -> Log!Writer]
      /\ Done \in 1..Messages
  BY DEF StreamInv, TypeOK, Log!TypeOK, Log!Message, Done
<1>1. ASSUME NEW m \in 1..Messages, Log!Emit(m), UNCHANGED <<client, out>>,
             \/ m = Done /\ channel' = channel
             \/ m \in Progress /\ Len(channel') = Len(channel) + 1 /\ Len(channel) < Messages - 1
      PROVE  EndInv'
  <2>1. /\ writer[m].at = "idle" /\ docs' = docs
        /\ \A n \in 1..Messages : writer'[n].at = IF n = m THEN "find" ELSE writer[n].at
        /\ \A n \in 1..Messages : n # m => writer'[n] = writer[n]
    BY <1>0, <1>1 DEF Log!Emit, Log!append, Log!Writer
  <2>2. UNCHANGED <<listener, start, fetched, snapshot, phase>>
    BY <1>1 DEF client, out
  <2>3. Len(channel') = Messages => writer'[Done].at \in {"stored", "dropped", "failed"}
    BY <1>0, <1>1, <2>1 DEF EndInv
  <2>4. \A n \in 1..Messages : writer'[n].at = "stored" => \E d \in docs' : d.msg = n
    BY <2>1 DEF EndInv
  <2>5. writer[Done].at \in {"dropped", "failed"} => writer'[Done] = writer[Done]
    BY <1>0, <2>1
  <2> QED BY <2>2, <2>3, <2>4, <2>5, EndIsKept
<1>2. CASE EmitDone
  BY <1>0, <1>1, <1>2 DEF EmitDone
<1>3. CASE PublishDone
  <2>1. /\ UNCHANGED <<client, out, log>> /\ writer[Done].at \in {"stored", "dropped", "failed"}
    BY <1>3 DEF PublishDone
  <2>2. UNCHANGED <<listener, start, fetched, snapshot, phase, docs, writer>>
    BY <2>1 DEF client, out, log
  <2> QED BY <2>1, <2>2, EndIsKept DEF EndInv
<1>4. ASSUME NEW m \in Progress, EmitProgress(m) PROVE EndInv'
  <2>1. Log!Emit(m) /\ channel' = Append(channel, m) /\ UNCHANGED <<client, out>> /\ m \in 1..Messages
    BY <1>4 DEF EmitProgress, Progress
  <2>2. writer[m].at = "idle"
    BY <2>1 DEF Log!Emit, Log!append
  <2>3. Len(channel) < m
    BY <1>0, <1>4, <2>2 DEF StreamInv, ChannelInv, Progress
  <2>4. Len(channel') = Len(channel) + 1 /\ Len(channel) < Messages - 1
    BY <1>0, <1>4, <2>1, <2>3 DEF Progress
  <2> QED BY <1>1, <1>4, <2>1, <2>4
<1> QED BY <1>2, <1>3, <1>4 DEF Emission

\* The log is read after the request was there: what was published before it was
\* logged by then, or never will be.
LEMMA EndIsRead ==
  ASSUME StreamInv, EndInv, ReadLog PROVE EndInv'
<1>1. /\ fetched' = TRUE /\ phase = "replaying"
      /\ UNCHANGED <<docs, writer, channel, listener, start, phase>>
  <2>1. /\ fetched' = TRUE /\ phase = "replaying"
        /\ UNCHANGED <<log, channel, listener, start, cursor, pending, turn, out>>
    BY Zenon DEF ReadLog
  <2> QED BY <2>1 DEF log, out
<1>2. PICK n \in 0..Messages : \E ordered \in [1..n -> docs] :
        /\ Range(ordered) = docs
        /\ snapshot' = [k \in 1..n |-> ordered[k].msg]
  BY DEF ReadLog
<1>3. PICK ordered \in [1..n -> docs] :
        /\ Range(ordered) = docs
        /\ snapshot' = [k \in 1..n |-> ordered[k].msg]
  BY <1>2
<1>4. \A d \in docs : d.msg \in Range(snapshot')
  <2> SUFFICES ASSUME NEW d \in docs PROVE d.msg \in Range(snapshot')
    OBVIOUS
  <2>1. PICK k \in 1..n : ordered[k] = d
    BY <1>3 DEF Range
  <2>2. snapshot'[k] = d.msg /\ k \in DOMAIN snapshot'
    BY <1>3, <2>1
  <2> QED BY <2>2 DEF Range
<1>5. MissedForAReason'
  <2> SUFFICES ASSUME listener # "none", start = Messages, Done \notin Range(snapshot')
               PROVE  listener = "late" \/ writer[Done].at \in {"dropped", "failed"}
    BY <1>1 DEF MissedForAReason, Missed
  <2>1. Len(channel) = Messages
    BY StreamAssumption DEF StreamInv, TypeOK, ChannelInv
  <2>2. Done \in 1..Messages
    BY StreamAssumption DEF Done
  <2>3. writer[Done].at # "stored"
    BY <1>4, <2>2 DEF EndInv
  <2> QED BY <2>1, <2>3 DEF EndInv
<1> QED BY <1>1, <1>5 DEF EndInv

LEMMA EndStep ==
  ASSUME StreamInv, EndInv, [Next]_vars PROVE EndInv'
<1>1. ASSUME UNCHANGED <<docs, writer, channel, listener, start, fetched, snapshot>>,
             phase' = "away" => phase = "away"
      PROVE  EndInv'
  BY <1>1, EndIsKept DEF EndInv
<1>2. CASE UNCHANGED vars
  BY <1>1, <1>2 DEF vars, log, client, out
<1>3. ASSUME NEW c \in 0..Len(channel), Connect(c) PROVE EndInv'
  <2>1. phase = "away" /\ phase' = "replaying" /\ UNCHANGED <<docs, writer, channel, listener, fetched, snapshot>>
    BY <1>3 DEF Connect, log
  <2> QED BY <2>1 DEF EndInv, MissedForAReason, Missed
<1>4. CASE Open
  <2>1. listener' = "late" /\ UNCHANGED <<docs, writer, channel, phase, fetched, snapshot>>
    BY <1>4 DEF Open, log, out
  <2> QED BY <2>1 DEF EndInv, MissedForAReason, Missed
<1>5. CASE ReadFails \/ Replay \/ Leave
  BY <1>1, <1>5 DEF ReadFails, Replay, Leave, log, client
<1>6. CASE WriteNext \/ GoLive \/ Deliver
  <2>1. /\ phase # "away"
        /\ UNCHANGED <<docs, writer, channel, listener, start, fetched, snapshot>>
    BY <1>6 DEF WriteNext, GoLive, Deliver, log
  <2>2. ASSUME NEW m, Send(WriteMessage(Out, m)) PROVE phase' # "away"
    <3>1. PICK o : o = Out
      OBVIOUS
    <3>2. o.phase = phase /\ o = [phase |-> phase, last |-> lastIndex, terminal |-> terminalWritten, written |-> written]
      BY <3>1 DEF Out
    <3>3. WriteMessage(o, m).phase \in {phase, "closed"}
      BY <3>2 DEF WriteMessage
    <3> QED BY <2>1, <2>2, <3>1, <3>3 DEF Send
  <2>3. phase' # "away"
    BY <2>1, <2>2, <1>6 DEF WriteNext, GoLive, Deliver, out
  <2> QED BY <1>1, <2>1, <2>3
<1> QED BY <1>2, <1>3, <1>4, <1>5, <1>6, EndEmission, EndAppends, EndIsRead DEF Next

\* A client that connects at any moment of a run is sent its stages in order
\* and once, with nothing after `done`; and where the log kept its messages in
\* order, exactly what was logged and then what came live once the stream had a
\* listener, for any number of messages and attempts and whatever the stages'
\* indices; and it misses the end only where the log has lost it or the listener
\* connected after it.
THEOREM StreamClean == Spec => []StreamIsClean
<1>1. Init /\ Log!TypeOK => StreamInv /\ EndInv
  <2> SUFFICES ASSUME Init, Log!TypeOK PROVE StreamInv /\ EndInv
    OBVIOUS
  <2>1. TypeOK
    <3>1. Len(<<>>) = 0 /\ <<>> \in Seq(1..Messages) /\ 0 \in 0..(0 + 0) /\ 0 \in 0..0
      OBVIOUS
    <3> QED BY <3>1 DEF Init, TypeOK
  <2>2. ChannelInv
    BY StreamAssumption DEF Init, ChannelInv, Log!Init, Log!Message, Progress, Done
  <2>3. QueueInv /\ DedupInv /\ SpliceInv
    BY DEF Init, QueueInv, DedupInv, InOrderOnce, SpliceInv
  <2>4. EndInv
    BY StreamAssumption DEF Init, EndInv, MissedForAReason, Missed, Log!Init, Log!Message
  <2> QED BY <2>1, <2>2, <2>3, <2>4 DEF StreamInv
<1>2. StreamInv /\ EndInv => StreamIsClean
  <2> SUFFICES ASSUME StreamInv, EndInv PROVE StreamIsClean
    OBVIOUS
  <2>1. TypeOK /\ InOrderOnce
    BY DEF StreamInv, DedupInv
  <2>2. /\ StagesRise <=> \A m, n \in Progress : m < n => Index[m] < Index[n]
        /\ LogIsClean <=> \A n \in 1..Len(snapshot) : snapshot[n] = n
    BY DEF StagesRise, LogIsClean
  <2>3. ASSUME terminalWritten, StagesRise, LogIsClean
        PROVE  LET k == Len(snapshot)
                   from == IF k < start THEN start ELSE k
               IN  written = [n \in 1..k |-> n] \o [n \in 1..(Messages - from) |-> from + n]
    <3> DEFINE k == Len(snapshot)
               from == IF k < start THEN start ELSE k
    <3>1. k \in 0..Messages /\ k \in Nat /\ start \in Nat /\ start <= Messages
      <4>1. Len(channel) \in Nat /\ Len(channel) <= Messages
        BY DEF StreamInv, TypeOK, ChannelInv
      <4> QED BY <2>1, <2>3, <4>1, CleanLogFits, StreamAssumption DEF TypeOK
    <3>2. from \in Nat /\ k <= from /\ from <= Messages /\ from = Larger(start, k)
      BY <3>1, StreamAssumption DEF Larger
    <3>3. written = Spliced(k, Larger(start, k), Messages)
      BY <2>3 DEF StreamInv, SpliceInv
    <3> HIDE DEF from
    <3>4. written = Spliced(k, from, Messages)
      BY <3>2, <3>3
    <3>5. written = [n \in 1..k |-> n] \o [n \in 1..(Messages - from) |-> from + n]
      BY <3>1, <3>2, <3>4, SplicedIsConcat
    <3> QED BY <3>5 DEF from
  <2>4. CleanSplice
    BY <2>2, <2>3 DEF CleanSplice
  <2> QED BY <2>1, <2>4 DEF StreamIsClean, EndInv
<1> QED BY <1>1, <1>2, StreamStep, EndStep, LogType, PTL DEF Spec

=============================================================================
