--------------------------- MODULE ResponseStream ---------------------------
(* A streamed request: the decoder state on the SDK dispatcher hands chunks *)
(* to a bounded tokio channel read by RequestStream.  Historical and        *)
(* intraday-bar decoders go through ResponseStream::send, which on overflow *)
(* takes the sender and leaves one error to a spawned task (guarded);       *)
(* intraday-tick decoders call try_send and ignore what it returns.         *)
EXTENDS Naturals, Sequences

CONSTANTS Capacity,    \* subscription_stream_capacity
          MaxMessages  \* bound: response messages of the request

VARIABLES
  guarded,    \* which of the two decoders this stream has
  decoder,    \* "live" in the worker's slot, or "gone"
  sender,     \* ResponseStream.sender is Some
  task,       \* the error a spawned task is sending: <<>> or <<error>>
  buffer,     \* the channel
  rx,         \* "open", "closed" by RequestStream::close, or "dropped"
  guard,      \* the cancel guard is armed
  messages,   \* response messages handled
  chunks,     \* chunks decoded
  failure,    \* a terminal error was reported for the request
  received, eof

stream == <<decoder, sender, task, buffer, rx, guard, messages, chunks, failure,
            received, eof>>
vars == <<guarded, stream>>

Chunk(n) == [ok |-> TRUE, id |-> n]
RequestError == [ok |-> FALSE, id |-> 1]
OverflowError == [ok |-> FALSE, id |-> 0]

Init ==
  /\ guarded \in BOOLEAN
  /\ decoder = "live" /\ sender = TRUE /\ task = <<>> /\ buffer = <<>>
  /\ rx = "open" /\ guard = TRUE
  /\ messages = 0 /\ chunks = 0 /\ failure = FALSE
  /\ received = <<>> /\ eof = FALSE

is_closed == ~sender \/ rx # "open"

-----------------------------------------------------------------------------
\* ResponseStream::send.
send(item) ==
  IF ~sender THEN UNCHANGED <<sender, task, buffer>>
  ELSE CASE rx # "open" -> sender' = FALSE /\ UNCHANGED <<task, buffer>>
         [] rx = "open" /\ Len(buffer) < Capacity ->
              /\ buffer' = Append(buffer, item)
              /\ sender' = item.ok
              /\ UNCHANGED task
         [] rx = "open" /\ Len(buffer) = Capacity ->
              /\ task' = <<IF item.ok THEN OverflowError ELSE item>>
              /\ sender' = FALSE
              /\ UNCHANGED buffer

\* The tick decoder's `let _ = self.stream.try_send(item)`.
try_send(item) ==
  /\ buffer' = IF rx = "open" /\ Len(buffer) < Capacity
               THEN Append(buffer, item) ELSE buffer
  /\ UNCHANGED <<sender, task>>

Deliver(item) == IF guarded THEN send(item) ELSE try_send(item)

\* What the decoder finds in a response message; only the guarded decoders
\* look for a top-level error in a partial response.
Decoded(final) ==
  \/ chunks' = chunks + 1 /\ UNCHANGED failure /\ Deliver(Chunk(chunks + 1))
  \/ /\ failure' = (guarded \/ final \/ failure) /\ UNCHANGED chunks
     /\ IF guarded \/ final THEN Deliver(RequestError)
                            ELSE UNCHANGED <<sender, task, buffer>>
  \/ UNCHANGED <<chunks, failure, sender, task, buffer>>

Process(final) ==
  IF guarded /\ is_closed THEN UNCHANGED <<chunks, failure, sender, task, buffer>>
                          ELSE Decoded(final)

on_partial ==
  /\ decoder = "live" /\ messages < MaxMessages
  /\ messages' = messages + 1
  /\ Process(FALSE)
  /\ UNCHANGED <<decoder, rx, guard, received, eof>>

\* finish consumes the state: its sender, if still there, goes with it.
finish ==
  /\ decoder = "live"
  /\ decoder' = "gone"
  /\ Process(TRUE)
  /\ UNCHANGED <<rx, guard, messages, received, eof>>

\* Mutant: a failure finds the channel full and is dropped.
FailUnguarded ==
  /\ decoder = "live"
  /\ decoder' = "gone"
  /\ failure' = TRUE
  /\ try_send(RequestError)
  /\ UNCHANGED <<rx, guard, messages, chunks, received, eof>>

\* fail: a timeout, a request failure or a worker drain ends the request.
fail ==
  /\ decoder = "live"
  /\ decoder' = "gone"
  /\ failure' = TRUE
  /\ Deliver(RequestError)
  /\ UNCHANGED <<rx, guard, messages, chunks, received, eof>>

\* The spawned task waits for room; a closed receiver drops its error.
TaskSend ==
  /\ task # <<>>
  /\ rx # "open" \/ Len(buffer) < Capacity
  /\ task' = <<>>
  /\ buffer' = IF rx = "open" THEN buffer \o task ELSE buffer
  /\ UNCHANGED <<decoder, sender, rx, guard, messages, chunks, failure, received, eof>>

-----------------------------------------------------------------------------
(* The consumer's RequestStream. *)

recv ==
  /\ rx # "dropped" /\ buffer # <<>>
  /\ received' = Append(received, Head(buffer))
  /\ buffer' = Tail(buffer)
  /\ UNCHANGED <<decoder, sender, task, rx, guard, messages, chunks, failure, eof>>

\* Mutant: the receiver waits for the decoder even after it gave up its sender.
RecvNoneWaits ==
  /\ rx # "dropped" /\ buffer = <<>> /\ ~eof
  /\ rx = "closed" \/ (task = <<>> /\ decoder = "gone" /\ ~sender)
  /\ eof' = TRUE
  /\ guard' = FALSE
  /\ UNCHANGED <<decoder, sender, task, buffer, rx, messages, chunks, failure, received>>

\* The channel ends when it is closed or when no sender is left; recv then
\* disarms the guard.
recv_none ==
  /\ rx # "dropped" /\ buffer = <<>> /\ ~eof
  /\ rx = "closed" \/ (task = <<>> /\ (decoder = "gone" \/ ~sender))
  /\ eof' = TRUE
  /\ guard' = FALSE
  /\ UNCHANGED <<decoder, sender, task, buffer, rx, messages, chunks, failure, received>>

\* Mutant: the guard is disarmed instead of fired.
CancelDisarms ==
  /\ guard' = FALSE
  /\ UNCHANGED <<decoder, sender, task, messages, chunks, failure, received, eof>>

\* An armed guard cancels the request, which discards the decoder.
Cancel ==
  /\ decoder' = IF guard THEN "gone" ELSE decoder
  /\ guard' = FALSE
  /\ UNCHANGED <<sender, task, messages, chunks, failure, received, eof>>

close == rx = "open" /\ rx' = "closed" /\ UNCHANGED buffer /\ Cancel

Drop == rx # "dropped" /\ rx' = "dropped" /\ buffer' = <<>> /\ Cancel

Next ==
  /\ on_partial \/ finish \/ fail \/ TaskSend \/ recv \/ recv_none \/ close \/ Drop
  /\ UNCHANGED guarded

Spec == Init /\ [][Next]_vars

-----------------------------------------------------------------------------
(* Properties *)

Items == {Chunk(n) : n \in 1 .. MaxMessages + 1} \cup {RequestError, OverflowError}

\* Shapes of the variables; the channel holds no more than its capacity.
TypeOK ==
  /\ decoder \in {"live", "gone"} /\ rx \in {"open", "closed", "dropped"}
  /\ {guarded, sender, guard, failure, eof} \subseteq BOOLEAN
  /\ buffer \in Seq(Items) /\ received \in Seq(Items)
  /\ task = <<>> \/ task \in {<<OverflowError>>, <<RequestError>>}
  /\ messages \in 0 .. MaxMessages /\ chunks \in 0 .. MaxMessages + 1
  /\ Len(buffer) <= Capacity

\* What the consumer of a guarded stream has read or can still read is an
\* unbroken run of chunks from the first, ended by at most one error, including
\* the error a spawned task has yet to send ("queued chunks are followed by
\* exactly one error and no later response can silently resume").
ChunksThenOneError ==
  /\ TypeOK
  /\ guarded /\ rx = "open" =>
       LET all == received \o buffer \o task
       IN  \A i \in DOMAIN all : IF all[i].ok THEN all[i] = Chunk(i) ELSE i = Len(all)

\* A consumer that reads a guarded stream it did not close to its end has an
\* error, or has every chunk that was decoded of a request that did not fail,
\* however full the channel was.  A tick stream promises neither: try_send
\* drops the chunk or the failure that finds the channel full.
NoSilentLoss ==
  guarded /\ eof /\ rx = "open" =>
    \/ \E i \in DOMAIN received : ~received[i].ok
    \/ ~failure /\ Len(received) = chunks

\* A dropped stream leaves no decoder in the worker's slab: its guard cancelled
\* the request, or the request was over when recv disarmed the guard.  The one
\* exception: a guarded decoder that gave up its sender early, whose consumer
\* read the end of the channel and disarmed the guard before the request's end.
DropReleasesDecoder == rx = "dropped" => decoder = "gone" \/ (guarded /\ eof /\ ~sender)

-----------------------------------------------------------------------------
(* The inductive invariant behind the properties. *)

\* Every chunk, in order, as long as the guarded decoder has its sender; after
\* that an error at the end.
Told ==
  guarded /\ rx = "open" =>
    LET all == received \o buffer \o task
    IN  IF sender THEN task = <<>> /\ Len(all) = chunks /\ ~failure
                       /\ \A i \in DOMAIN all : all[i].ok
                  ELSE all # <<>> /\ ~all[Len(all)].ok

\* After the end of the channel there is nothing left in it, and nobody to send.
Ended ==
  eof /\ rx = "open" => buffer = <<>> /\ task = <<>> /\ (decoder = "gone" \/ ~sender)

\* A disarmed guard has cancelled the request or found it over.
Disarmed ==
  /\ ~guard => decoder = "gone" \/ (guarded /\ eof /\ ~sender)
  /\ rx # "open" => ~guard
  /\ ~guarded => sender

\* Each message yields at most one chunk, and so does the last one.
ChunksCounted == chunks <= messages + (IF decoder = "gone" THEN 1 ELSE 0)

StreamInv == ChunksThenOneError /\ Told /\ Ended /\ Disarmed /\ ChunksCounted
=============================================================================
