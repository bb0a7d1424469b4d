----------------------------- MODULE EngineSinks -----------------------------
(***************************************************************************)
(* What the engine hands its consumers besides the strict subscription     *)
(* channel: the overwrite queue (DropOldestChannel, extended here), the    *)
(* inline callback (CallbackSink) and the stream of a request              *)
(* (ResponseStream).  Which of them carries the data is fixed when it is   *)
(* built, and the three share no state: a behaviour is that of one sink.   *)
(***************************************************************************)
EXTENDS DropOldestChannel

CONSTANTS Nobody,
          MaxItems,     \* bound: items each actor sends to a callback
          MaxMessages   \* bound: response messages of a streamed request

ASSUME SinkConstants ==
  /\ Nobody \notin Actors
  /\ MaxItems \in Nat /\ MaxMessages \in Nat

VARIABLES
  sink,     \* "overwrite", "callback" or "response"
  cb_accepting, keep_open_on_data_loss, cb_count, delivery, on_closed, told, hub,
  cb_pc, item, cb_sent, calls, closed, orphaned,
  guarded, decoder, sender, task, buffer, rx, guard, messages, chunks, failure,
  received, rx_eof

callback == <<cb_accepting, keep_open_on_data_loss, cb_count, delivery, on_closed, told, hub,
              cb_pc, item, cb_sent, calls, closed, orphaned>>
response == <<guarded, decoder, sender, task, buffer, rx, guard, messages, chunks, failure,
              received, rx_eof>>
allvars == <<sink, vars, callback, response>>

Callback == INSTANCE CallbackSink WITH
  accepting <- cb_accepting, sender_count <- cb_count, pc <- cb_pc, sent <- cb_sent

Response == INSTANCE ResponseStream WITH eof <- rx_eof

SinkInit ==
  /\ sink \in {"overwrite", "callback", "response"}
  /\ Init /\ Callback!Init /\ Response!Init
  /\ sink = "response" \/ guarded

SinkNext ==
  \/ sink = "overwrite" /\ Next /\ UNCHANGED <<sink, callback, response>>
  \/ sink = "callback" /\ Callback!Next /\ UNCHANGED <<sink, vars, response>>
  \/ sink = "response" /\ Response!Next /\ UNCHANGED <<sink, vars, callback>>

\* Bloomberg or the timeout scanner ends a request; the spawned task is polled;
\* the consumer keeps reading until it sees the end or goes away.
Running(A) == sink = "response" /\ A

Fairness ==
  /\ WF_response(Running(Response!finish \/ Response!fail) /\ UNCHANGED guarded)
  /\ WF_response(Running(Response!TaskSend) /\ UNCHANGED guarded)
  /\ WF_response(Running(Response!recv) /\ UNCHANGED guarded)
  /\ WF_response(Running(Response!recv_none) /\ UNCHANGED guarded)

SinkSpec == SinkInit /\ [][SinkNext]_allvars /\ Fairness

-----------------------------------------------------------------------------
(* Properties; those of the overwrite queue are DropOldestChannel's.         *)

\* The callback sees at most one terminal error and nothing after it, although
\* several threads may be past the first test of accepting when it is sent.
NothingAfterTerminal == Callback!NothingAfterTerminal

\* While a handle is alive and nobody closed it, a callback sink that stopped
\* accepting has told its callback the terminal error, or is about to; and
\* however it ended, its hook has been called or is about to be.
EndsForAReason == Callback!EndsForAReason /\ Callback!ClosureReported

\* No callback starts once a close has released the mutex or the last handle
\* has been dropped.
NoDeliveryAfterEnd == Callback!NoDeliveryAfterEnd

\* A guarded stream is an unbroken run of chunks ended by at most one error,
\* and one read to its end has an error or every decoded chunk.
NoSilentLoss == Response!ChunksThenOneError /\ Response!NoSilentLoss

\* A dropped stream leaves no decoder in the worker's slab.
DropReleasesDecoder == Response!DropReleasesDecoder

\* A consumer that keeps reading comes to the end of the stream: neither the
\* slot nor the overflow task keeps the channel alive for ever.
StreamEnds == sink = "response" => <>(rx_eof \/ rx = "dropped")

\* What holds of the two other sinks at every step, whichever of the three runs.
SinksInv == Callback!CallbackInv /\ Response!StreamInv
=============================================================================
