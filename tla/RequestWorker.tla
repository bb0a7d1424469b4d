--------------------------- MODULE RequestWorker ---------------------------
(* One asynchronous request worker (engine/worker.rs): a slab of in-flight  *)
(* requests shared by the threads that submit and cancel, the SDK's single  *)
(* dispatcher thread, the timeout scanner and the threads that stop the     *)
(* worker.  A request's slot is found through the generation-tagged         *)
(* correlation ID of engine/dispatch.rs.  Opening services and authorizing  *)
(* identities happen before dispatch_prepared and are not part of this      *)
(* module; decoding is reduced to counting the partials a request consumed. *)
EXTENDS Integers, FiniteSets, Sequences

CONSTANTS
    Requests,        \* submissions; each is also the thread that owns it
    Keys,            \* slab keys
    dispatcher,      \* the SDK-owned dispatcher thread
    scanner,         \* the xbbg-request-timeouts thread
    stopper,         \* a thread of the pool that stops the worker
    None,            \* absence of a request or of a thread
    CounterModulus,  \* where the generation counter wraps (2^32 in the code)
    TagModulus,      \* size of a correlation ID's tag space (2^30 in the code)
    MaxPartials,     \* bound: partial responses the SDK delivers
    MaxEvents        \* bound: session status events the SDK delivers

Actors == Requests \cup {dispatcher, scanner, stopper}

\* The named threads are distinct and are no requests.
ASSUME WorkerConstants ==
    /\ {dispatcher, scanner, stopper, None} \cap Requests = {}
    /\ Cardinality({dispatcher, scanner, stopper, None}) = 4
    /\ CounterModulus \in Nat \ {0} /\ TagModulus \in Nat \ {0}
    /\ MaxPartials \in Nat /\ MaxEvents \in Nat
    /\ None \notin Keys

VARIABLES
    requests,        \* the slab: key -> request occupying it, or None
    key, generation, \* the ticket of each request: its key and generation
    next_generation, \* the worker's wrapping generation counter
    cell,            \* decoder state of a request: "unborn", "some", "taken"
    active_partials, \* partials past the generation check, not yet decoded
    outcome,         \* what the request's owner got
    shutting_down, health, stop_started,
    readers, writer, \* holders of the lifecycle lock
    gate,            \* history: a stop has held the exclusive guard
    pc,              \* where each thread is
    taken,           \* slots a thread removed from the slab and must settle
    op,              \* for which ticket, how, and where it goes on after that
    tickets,         \* the scanner's expired tickets, not yet timed out
    partial,         \* the request whose cell the dispatcher's guard holds
    sdk, wire, events, partials, raised  \* the session, seen from outside

slab      == <<requests, key, generation, next_generation>>
cells     == <<cell, active_partials, outcome>>
lifecycle == <<shutting_down, health, stop_started, readers, writer, gate>>
settling  == <<taken, op>>
session   == <<sdk, wire, events, partials, raised>>
vars == <<slab, cells, lifecycle, settling, session,
          pc, tickets, partial>>

Labels == {"new", "insert", "send", "release", "mismatch", "await", "done",
           "idle", "timeouts", "consume", "drain", "partial", "dead",
           "degrade", "heal", "quarantine", "stop", "lock", "halt", "block",
           "closing", "unlock"}

InSlab(r) == \E k \in Keys : requests[k] = r

Live == {r \in Requests : InSlab(r)}

\* A thread settles what it took for a ticket (None: a drain) with a verdict,
\* "reply" (data or an error) or "discard", and goes on at a label.
Settle(r, v, l) == [target |-> r, verdict |-> v, next |-> l]

NoOp == Settle(None, "reply", "done")

Goto(a, l) == pc' = [pc EXCEPT ![a] = l]

Init ==
    /\ requests = [k \in Keys |-> None]
    /\ key = [r \in Requests |-> None]
    /\ generation = [r \in Requests |-> 0]
    /\ next_generation = 0
    /\ cell = [r \in Requests |-> "unborn"]
    /\ active_partials = [r \in Requests |-> 0]
    /\ outcome = [r \in Requests |-> "none"]
    /\ shutting_down = FALSE /\ health = 0 /\ stop_started = FALSE
    /\ readers = {} /\ writer = None /\ gate = FALSE
    /\ pc = [a \in Actors |-> IF a \in Requests THEN "new" ELSE "idle"]
    /\ taken = [a \in Actors |-> {}]
    /\ op = [a \in Actors |-> NoOp]
    /\ tickets = {} /\ partial = None
    /\ sdk = "up" /\ wire = {} /\ events = <<>> /\ partials = 0 /\ raised = 0

-----------------------------------------------------------------------------
(* Correlation IDs and the slab *)

\* Mutant: the tag keeps one bit less.
TagNarrow(r) == generation[r] % (TagModulus \div 2)

\* The generation a correlation ID carries: it is masked to 30 bits.
Tag(r) == generation[r] % TagModulus

\* Mutant: the generation is not compared.
MatchesAnyGeneration(r) ==
    {x \in Requests : key[r] # None /\ requests[key[r]] = x}

\* The slot that r's correlation ID addresses, if its generation matches.
Matches(r) == {x \in Requests : /\ key[r] # None /\ requests[key[r]] = x
                                /\ generation[x] = Tag(r)}

\* take_slot: thread a removes the slot r's ticket addresses and settles it
\* with verdict v before it goes on at l; without a match it goes on at once.
take_slot(a, r, v, l) ==
    /\ taken' = [taken EXCEPT ![a] = Matches(r)]
    /\ op' = [op EXCEPT ![a] = IF Matches(r) = {} THEN NoOp ELSE Settle(r, v, l)]
    /\ Goto(a, IF Matches(r) = {} THEN l ELSE "consume")
    /\ requests' = [k \in Keys |-> IF requests[k] \in Matches(r)
                                   THEN None ELSE requests[k]]
    /\ UNCHANGED <<key, generation, next_generation>>

\* What is left to do for thread a once it settled x.
Settled(a, x) ==
    /\ taken' = [taken EXCEPT ![a] = @ \ {x}]
    /\ op' = [op EXCEPT ![a] = IF taken[a] = {x} THEN NoOp ELSE @]
    /\ Goto(a, IF taken[a] = {x} THEN op[a].next ELSE "consume")

\* finish_and_reply, fail and discard wait for the partials that already
\* passed the generation check, then take the decoder state.
Consume(a) ==
    /\ pc[a] = "consume"
    /\ \E x \in taken[a] :
        /\ active_partials[x] = 0
        /\ cell' = [cell EXCEPT ![x] = "taken"]
        /\ outcome' = [outcome EXCEPT ![x] =
                          IF cell[x] = "some" THEN op[a].verdict ELSE @]
        /\ Settled(a, x)
    /\ UNCHANGED <<slab, active_partials, lifecycle, session, tickets, partial>>

\* drain_in_flight: empty the slab under its lock, then fail each slot.
drain_in_flight(a) ==
    /\ pc[a] = "drain"
    /\ taken' = [taken EXCEPT ![a] = Live]
    /\ op' = [op EXCEPT ![a] = IF Live = {} THEN NoOp ELSE @]
    /\ Goto(a, IF Live = {} THEN op[a].next ELSE "consume")
    /\ requests' = [k \in Keys |-> None]
    /\ UNCHANGED <<key, generation, next_generation, cells, lifecycle, session,
                   tickets, partial>>

-----------------------------------------------------------------------------
(* The thread that submits a request: dispatch_prepared *)

Submit(r) ==
    /\ pc[r] = "new" /\ writer = None
    /\ IF shutting_down
       THEN /\ outcome' = [outcome EXCEPT ![r] = "reply"]
            /\ Goto(r, "done")
            /\ UNCHANGED readers
       ELSE /\ readers' = readers \cup {r}
            /\ Goto(r, "insert")
            /\ UNCHANGED outcome
    /\ UNCHANGED <<slab, cell, active_partials, shutting_down, health,
                   stop_started, writer, gate, settling, session, tickets,
                   partial>>

\* next_generation and insert_slot.
Insert(r) ==
    /\ pc[r] = "insert"
    /\ next_generation' = (next_generation + 1) % CounterModulus
    /\ generation' = [generation EXCEPT ![r] = next_generation']
    /\ \E k \in Keys :
        /\ requests[k] = None
        /\ requests' = [requests EXCEPT ![k] = r]
        /\ key' = [key EXCEPT ![r] = k]
    /\ cell' = [cell EXCEPT ![r] = "some"]
    /\ Goto(r, "send")
    /\ UNCHANGED <<active_partials, outcome, lifecycle, settling, session,
                   tickets, partial>>

\* sendRequest is accepted under the correlation ID that was asked for, and
\* dispatch_prepared returns the ticket and releases the shared guard.
Send(r) ==
    /\ pc[r] = "send" /\ sdk = "up"
    /\ wire' = wire \cup {r}
    /\ readers' = readers \ {r}
    /\ Goto(r, "await")
    /\ UNCHANGED <<slab, cells, shutting_down, health, stop_started, writer,
                   gate, settling, sdk, events, partials, raised, tickets,
                   partial>>

\* Building or sending the request failed.
SendFails(r) ==
    /\ pc[r] = "send"
    /\ take_slot(r, r, "reply", "release")
    /\ UNCHANGED <<cells, lifecycle, session, tickets, partial>>

\* The SDK answered with another correlation ID (correlation_invariant_failure);
\* the request is cancelled there, and the worker is stopped.
SendMiscorrelated(r) ==
    /\ pc[r] = "send" /\ sdk = "up"
    /\ take_slot(r, r, "reply", "mismatch")
    /\ UNCHANGED <<cells, lifecycle, session, tickets, partial>>

\* Mutant: the shared guard is held across signal_shutdown.
ReleaseAfterStop(r) ==
    /\ pc[r] \in {"release", "mismatch"}
    /\ readers' = IF pc[r] = "mismatch" THEN readers ELSE readers \ {r}
    /\ Goto(r, IF pc[r] = "release" THEN "done" ELSE "stop")
    /\ UNCHANGED <<slab, cells, shutting_down, health, stop_started, writer,
                   gate, settling, session, tickets, partial>>

\* The failed dispatch releases the shared guard where it returns, or before it
\* stops the worker.
Release(r) ==
    /\ pc[r] \in {"release", "mismatch"}
    /\ readers' = readers \ {r}
    /\ Goto(r, IF pc[r] = "release" THEN "done" ELSE "stop")
    /\ UNCHANGED <<slab, cells, shutting_down, health, stop_started, writer,
                   gate, settling, session, tickets, partial>>

\* The owner of a request in flight drops it: RequestCancelGuard runs
\* cancel_request.  Bloomberg promises no more messages for a correlation ID
\* once session.cancel succeeds; when it fails the worker is quarantined.
CancelRequest(r) ==
    /\ pc[r] = "await"
    /\ \/ /\ take_slot(r, r, "discard", "done")
          /\ wire' = IF Matches(r) = {} THEN wire ELSE wire \ {r}
       \/ /\ Matches(r) # {}
          /\ take_slot(r, r, "discard", "quarantine")
          /\ UNCHANGED wire
    /\ UNCHANGED <<cells, lifecycle, sdk, events, partials, raised, tickets,
                   partial>>

-----------------------------------------------------------------------------
(* The timeout scanner *)

\* scan_timeouts: the tickets of the slots that outlived the hard timeout.
ScanTimeouts ==
    /\ pc[scanner] = "idle"
    /\ tickets' \in SUBSET Live \ {{}}
    /\ Goto(scanner, "timeouts")
    /\ UNCHANGED <<slab, cells, lifecycle, settling, session, partial>>

\* Where the scanner goes on with the tickets ts left.
Scan(ts) == IF ts = {} THEN "idle" ELSE "timeouts"

\* timeout_request, for one of the tickets of the last scan.
TimeoutRequest ==
    /\ pc[scanner] = "timeouts"
    /\ \E r \in tickets :
        /\ tickets' = tickets \ {r}
        /\ \/ /\ take_slot(scanner, r, "reply", Scan(tickets \ {r}))
              /\ wire' = IF Matches(r) = {} THEN wire ELSE wire \ {r}
           \/ /\ Matches(r) # {}
              /\ take_slot(scanner, r, "reply", "quarantine")
              /\ UNCHANGED wire
    /\ UNCHANGED <<cells, lifecycle, sdk, events, partials, raised, partial>>

-----------------------------------------------------------------------------
(* Stopping the worker *)

\* Where a thread goes on after signal_shutdown returned.
AfterStop(a) == CASE a = scanner -> Scan(tickets)
                  [] a = stopper -> "idle"
                  [] OTHER -> "done"

\* The pool asks for a stop, signalled or blocking.
BeginStop ==
    /\ pc[stopper] = "idle"
    /\ \/ ~stop_started /\ Goto(stopper, "stop") /\ UNCHANGED stop_started
       \/ sdk # "closed" /\ Goto(stopper, "block") /\ stop_started' = TRUE
    /\ UNCHANGED <<slab, cells, shutting_down, health, readers, writer, gate,
                   settling, session, tickets, partial>>

\* signal_shutdown: only the first caller stops the worker.  A failed
\* session.cancel has marked the worker Dead before it calls it.
SignalShutdown(a) ==
    /\ pc[a] \in {"quarantine", "stop"}
    /\ health' = IF pc[a] = "quarantine" THEN 2 ELSE health
    /\ stop_started' = TRUE
    /\ Goto(a, IF stop_started THEN AfterStop(a) ELSE "lock")
    /\ UNCHANGED <<slab, cells, shutting_down, readers, writer, gate, settling,
                   session, tickets, partial>>

\* Mutant: the stop does not wait for the shared guards.
StopLockShared(a) ==
    /\ pc[a] \in {"lock", "block"} /\ writer = None
    /\ writer' = a
    /\ shutting_down' = TRUE /\ health' = 2 /\ gate' = TRUE
    /\ op' = [op EXCEPT ![a] = Settle(None, "reply",
                  IF pc[a] = "lock" THEN "halt" ELSE "unlock")]
    /\ Goto(a, IF pc[a] = "lock" THEN "drain" ELSE "closing")
    /\ UNCHANGED <<slab, cells, stop_started, readers, taken, session, tickets, partial>>

\* The exclusive guard, then the flag and the health mark.
StopLock(a) ==
    /\ pc[a] \in {"lock", "block"} /\ writer = None /\ readers = {}
    /\ writer' = a
    /\ shutting_down' = TRUE /\ health' = 2 /\ gate' = TRUE
    /\ op' = [op EXCEPT ![a] = Settle(None, "reply",
                  IF pc[a] = "lock" THEN "halt" ELSE "unlock")]
    /\ Goto(a, IF pc[a] = "lock" THEN "drain" ELSE "closing")
    /\ UNCHANGED <<slab, cells, stop_started, readers, taken, session, tickets, partial>>

\* shutdown_blocking: session.stop returns when the callbacks have drained;
\* nothing is delivered afterwards.
CloseSession ==
    /\ pc[stopper] = "closing" /\ pc[dispatcher] = "idle"
    /\ sdk' = "closed" /\ wire' = {} /\ events' = <<>>
    /\ Goto(stopper, "drain")
    /\ UNCHANGED <<slab, cells, lifecycle, settling, partials, raised, tickets,
                   partial>>

\* signal_shutdown ends with stop_async; both ways release the guard.
StopDone(a) ==
    /\ pc[a] \in {"halt", "unlock"}
    /\ writer' = None
    /\ sdk' = IF pc[a] = "halt" /\ sdk = "up" THEN "stopping" ELSE sdk
    /\ Goto(a, AfterStop(a))
    /\ UNCHANGED <<slab, cells, shutting_down, health, stop_started, readers,
                   gate, settling, wire, events, partials, raised, tickets,
                   partial>>
-----------------------------------------------------------------------------
(* The SDK's dispatcher thread *)

\* Mutant: the partial is not counted.
BeginPartialUncounted(r) ==
    /\ pc[dispatcher] = "idle" /\ sdk # "closed"
    /\ r \in wire /\ partials < MaxPartials
    /\ partials' = partials + 1
    /\ \/ /\ Matches(r) = {}
          /\ UNCHANGED <<pc, partial, op>>
       \/ \E x \in Matches(r) :
            /\ partial' = x
            /\ op' = [op EXCEPT ![dispatcher] = Settle(r, "reply", "idle")]
            /\ Goto(dispatcher, "partial")
    /\ UNCHANGED <<slab, cells, lifecycle, taken, sdk, wire, events, raised,
                   tickets>>

\* handle_partial_response: the generation check and begin_partial, under the
\* slab lock.  A stale message is dropped.
BeginPartial(r) ==
    /\ pc[dispatcher] = "idle" /\ sdk # "closed"
    /\ r \in wire /\ partials < MaxPartials
    /\ partials' = partials + 1
    /\ \/ /\ Matches(r) = {}
          /\ UNCHANGED <<pc, partial, op, active_partials>>
       \/ \E x \in Matches(r) :
            /\ partial' = x
            /\ active_partials' = [active_partials EXCEPT ![x] = @ + 1]
            /\ op' = [op EXCEPT ![dispatcher] = Settle(r, "reply", "idle")]
            /\ Goto(dispatcher, "partial")
    /\ UNCHANGED <<slab, cell, outcome, lifecycle, taken, sdk, wire, events, raised, tickets>>

\* The guard's on_partial decodes into the cell, and its drop wakes the
\* consumers that wait for the count.
EndPartial ==
    /\ pc[dispatcher] = "partial"
    /\ active_partials' = [active_partials EXCEPT ![partial] = @ - 1]
    /\ partial' = None
    /\ op' = [op EXCEPT ![dispatcher] = NoOp]
    /\ Goto(dispatcher, "idle")
    /\ UNCHANGED <<slab, cell, outcome, lifecycle, taken, session, tickets>>

\* handle_response and handle_request_status: the last message of a request.
HandleFinal(r) ==
    /\ pc[dispatcher] = "idle" /\ sdk # "closed" /\ r \in wire
    /\ wire' = wire \ {r}
    /\ take_slot(dispatcher, r, "reply", "idle")
    /\ UNCHANGED <<cells, lifecycle, sdk, events, partials, raised, tickets,
                   partial>>

\* The session changes state and queues a status event.  A lost connection
\* loses the responses in transit.
SdkEvent(e) ==
    /\ raised < MaxEvents
    /\ sdk \in (IF e = "terminated" THEN {"up", "stopping"} ELSE {"up"})
    /\ raised' = raised + 1
    /\ events' = Append(events, e)
    /\ sdk' = IF e = "terminated" THEN "terminated" ELSE sdk
    /\ wire' = IF e \in {"down", "terminated"} THEN {} ELSE wire
    /\ UNCHANGED <<slab, cells, lifecycle, settling, partials, pc, tickets,
                   partial>>

\* The next session status event, and the dispatcher's first steps on it.
Status(kinds) ==
    /\ pc[dispatcher] = "idle" /\ events # <<>> /\ Head(events) \in kinds
    /\ events' = Tail(events)
    /\ UNCHANGED <<slab, cells, health, stop_started, readers, writer, gate,
                   taken, sdk, wire, partials, raised, tickets, partial>>

\* SessionTerminated and AuthorizationRevoked: raise the flag, without the
\* lifecycle guard, drain, and then mark the worker Dead.
HandleSessionEnd ==
    /\ Status({"terminated", "revoked"})
    /\ shutting_down' = TRUE
    /\ op' = [op EXCEPT ![dispatcher] = Settle(None, "reply", "dead")]
    /\ Goto(dispatcher, "drain")

\* Mutant: a lost connection does not drain the slab.
HandleConnectionDownKeeps ==
    /\ Status({"down"})
    /\ Goto(dispatcher, IF shutting_down THEN "idle" ELSE "degrade")
    /\ UNCHANGED <<shutting_down, op>>

\* SessionConnectionDown: load the flag, drain, and then mark the worker
\* Degraded unless the flag was set.
HandleConnectionDown ==
    /\ Status({"down"})
    /\ op' = [op EXCEPT ![dispatcher] =
                 Settle(None, "reply", IF shutting_down THEN "idle" ELSE "degrade")]
    /\ Goto(dispatcher, "drain")
    /\ UNCHANGED shutting_down

\* SessionConnectionUp (and SessionStarted): load the flag, and mark the worker
\* Healthy unless it was set.
HandleConnectionUp ==
    /\ Status({"up"})
    /\ Goto(dispatcher, IF shutting_down THEN "idle" ELSE "heal")
    /\ UNCHANGED <<shutting_down, op>>

StoreHealth ==
    /\ pc[dispatcher] \in {"dead", "degrade", "heal"}
    /\ health' = CASE pc[dispatcher] = "dead" -> 2
                   [] pc[dispatcher] = "degrade" -> 1
                   [] pc[dispatcher] = "heal" -> 0
    /\ Goto(dispatcher, "idle")
    /\ UNCHANGED <<slab, cells, shutting_down, stop_started, readers, writer,
                   gate, settling, session, tickets, partial>>

-----------------------------------------------------------------------------
OwnerStep(r) ==
    \/ Submit(r) \/ Insert(r) \/ Send(r) \/ SendFails(r)
    \/ SendMiscorrelated(r) \/ Release(r) \/ CancelRequest(r)

DispatcherStep ==
    \/ \E r \in Requests : BeginPartial(r) \/ HandleFinal(r)
    \/ EndPartial
    \/ HandleSessionEnd \/ HandleConnectionDown \/ HandleConnectionUp
    \/ StoreHealth

StopStep(a) ==
    SignalShutdown(a) \/ StopLock(a) \/ StopDone(a)

\* A closed worker whose requests are settled has nothing left to do.
Closed ==
    /\ sdk = "closed" /\ \A a \in Actors : pc[a] \in {"done", "idle"}
    /\ UNCHANGED vars

SessionEvents == {"up", "down", "revoked", "terminated"}

Next ==
    \/ \E r \in Requests : OwnerStep(r)
    \/ \E a \in Actors : Consume(a) \/ drain_in_flight(a) \/ StopStep(a)
    \/ DispatcherStep
    \/ ScanTimeouts \/ TimeoutRequest
    \/ BeginStop \/ CloseSession \/ Closed
    \/ \E e \in SessionEvents : SdkEvent(e)

Spec == Init /\ [][Next]_vars

\* Every started thread goes on; the SDK runs its dispatcher, and answers each
\* request that it accepted and did not lose with the connection.  Nobody has
\* to cancel, and the hard timeout is off by default, so neither is assumed.
Fairness ==
    /\ \A r \in Requests :
        /\ WF_vars(Insert(r)) /\ WF_vars(Release(r))
        /\ WF_vars(Send(r) \/ SendFails(r) \/ SendMiscorrelated(r))
        /\ WF_vars(HandleFinal(r))
    /\ \A a \in Actors :
        WF_vars(Consume(a)) /\ WF_vars(drain_in_flight(a)) /\ WF_vars(StopStep(a))
    /\ WF_vars(EndPartial)
    /\ WF_vars(HandleSessionEnd \/ HandleConnectionDown \/ HandleConnectionUp)
    /\ WF_vars(StoreHealth)
    /\ WF_vars(CloseSession)

FairSpec == Spec /\ Fairness

-----------------------------------------------------------------------------
(* Properties *)

SlabOK ==
    /\ requests \in [Keys -> Requests \cup {None}]
    /\ key \in [Requests -> Keys \cup {None}]
    /\ generation \in [Requests -> Nat] /\ next_generation \in Nat

CellsOK ==
    /\ cell \in [Requests -> {"unborn", "some", "taken"}]
    /\ active_partials \in [Requests -> {0, 1}]
    /\ outcome \in [Requests -> {"none", "reply", "discard"}]

LifecycleOK ==
    /\ shutting_down \in BOOLEAN /\ health \in 0..2 /\ stop_started \in BOOLEAN
    /\ readers \subseteq Requests /\ writer \in Actors \cup {None}
    /\ gate \in BOOLEAN

ThreadsOK ==
    /\ pc \in [Actors -> Labels]
    /\ taken \in [Actors -> SUBSET Requests]
    /\ op \in [Actors -> [target : Requests \cup {None},
                           verdict : {"reply", "discard"}, next : Labels]]
    /\ tickets \subseteq Requests /\ partial \in Requests \cup {None}

SessionOK ==
    /\ sdk \in {"up", "stopping", "terminated", "closed"}
    /\ wire \subseteq Requests
    /\ events \in Seq(SessionEvents) /\ partials \in Nat /\ raised \in Nat

\* Every variable has the values its code counterpart can hold; one dispatcher
\* thread means at most one partial of a request is being decoded.
TypeOK == SlabOK /\ CellsOK /\ LifecycleOK /\ ThreadsOK /\ SessionOK

\* Exactly one place is responsible for a request whose decoder state is
\* pending: its own slab slot, or one thread that removed the slot and will
\* settle it.  So a reply is neither lost nor attempted by two of the racing
\* response, failure, cancel, timeout, drain and send-failure paths.
Ownership ==
    /\ \A k \in Keys : requests[k] # None =>
        /\ key[requests[k]] = k
        /\ cell[requests[k]] = "some"
        /\ \A a \in Actors : requests[k] \notin taken[a]
    /\ \A a, b \in Actors : \A r \in taken[a] :
        cell[r] = "some" /\ (r \in taken[b] => a = b)
    /\ \A r \in Requests : cell[r] = "some" =>
        InSlab(r) \/ \E a \in Actors : r \in taken[a]

\* A partial that passed the generation check is decoded before anybody takes
\* the decoder state: wait_for_partials makes the reply include it.
PartialsBeforeReply ==
    \A r \in Requests : active_partials[r] > 0 => cell[r] = "some"

\* A thread that presents a request's ticket or correlation ID only ever gets
\* that request, however its slab key was recycled meanwhile.
RightRequest ==
    /\ \A a \in Actors : op[a].target # None => taken[a] \subseteq {op[a].target}
    /\ partial # None => partial = op[dispatcher].target

\* A dispatched final response or failure finds its request's slot: it is never
\* mistaken for a stale message while the request is still registered.
AnswerFindsSlot ==
    [][\A r \in Requests : HandleFinal(r) => ~InSlab(r)']_vars

\* Once a stop has held the exclusive lifecycle guard no request is sent.
NoSendAfterGate == [][gate => wire' \subseteq wire]_vars

\* Where a thread may go on after it settled what it took.
Continuations == {"done", "release", "mismatch", "quarantine", "idle", "timeouts",
                  "halt", "unlock", "dead", "degrade"}

\* What each thread's position says about what it holds: only a consuming
\* thread has slots in hand, an unborn request is where it has no slot yet, the
\* dispatcher's guard is the only active partial, and a dispatch that passed
\* the flag holds the shared guard until it has sent.
Positions ==
    /\ \A a \in Actors : pc[a] # "consume" => taken[a] = {}
    /\ \A a \in Actors : op[a].next \in Continuations
    /\ \A r \in Requests : pc[r] \in {"new", "insert"} => cell[r] = "unborn"
    /\ partial # None <=> pc[dispatcher] = "partial"
    /\ \A r \in Requests : active_partials[r] = IF r = partial THEN 1 ELSE 0
    /\ \A r \in Requests : pc[r] \in {"insert", "send"} => r \in readers
    /\ gate => shutting_down /\ readers = {}

\* The inductive invariant from which the safety properties follow: who owns a
\* reply, with what the position of every thread between two locks says about
\* the slots, partials and lifecycle guard it holds.
IInv == TypeOK /\ Ownership /\ PartialsBeforeReply /\ Positions

Inserted == {r \in Requests : key[r] # None}

\* Tickets, while the generation counter has not left the tag space: every
\* inserted request has a generation of its own, a cell is unborn until its
\* request is inserted, and a drain settles no particular ticket.
Tickets ==
    /\ next_generation = Cardinality(Inserted)
    /\ \A r \in Inserted : generation[r] \in 1..next_generation
    /\ \A r, q \in Inserted : generation[r] = generation[q] => r = q
    /\ \A r \in Requests : cell[r] = "unborn" <=> key[r] = None
    /\ \A a \in Actors : pc[a] \in {"drain", "closing"} => op[a].target = None

\* A stopped worker stays marked Dead, so that the pool evicts it.
QuarantineSticks == gate => health = 2

\* A request that was registered gets a reply, an error or its cancellation.
EventuallyResolved ==
    \A r \in Requests : pc[r] = "send" ~> outcome[r] # "none"

\* A thread that starts to stop the worker comes back: no cycle between the
\* lifecycle guard, the partials in progress and the SDK's callback drain.
StopReturns ==
    \A a \in Actors : pc[a] \in {"stop", "block"} ~> pc[a] \in {"idle", "timeouts", "done"}
=============================================================================
