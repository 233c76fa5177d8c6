----------------------------- MODULE GrpcStream -----------------------------
(***************************************************************************)
(* The gRPC streams of one request context in one process.                 *)
(*                                                                         *)
(* A call of stream_config_spec answers with the stored payload and then   *)
(* follows a broadcast channel of capacity one.  The channel is an         *)
(* asynchronous observer of the fetches: notify_all spawns a task that     *)
(* comes to it after the backup cache, so a stalled Redis delays and       *)
(* reorders its updates, while the store itself is written by the fetch.   *)
(* The channel is told of every answer that differs from what was asked    *)
(* from, older ones included, and of no backup; the store takes what is    *)
(* newer, backups included.                                                *)
(* Each stream has a queue of length one towards its client.               *)
(***************************************************************************)
EXTENDS Integers, FiniteSets

CONSTANTS Clients,     \* slots for streaming calls
          MaxStreams,  \* grpc_max_concurrent_streams
          MaxVersion,  \* bound: versions the origin publishes
          MaxCalls,    \* bound: calls that are made
          Setups       \* [clients, prompt, stale, backup]: who calls, whether an
                       \* update is delivered before the next fetch, whether the
                       \* edge that answers may be behind the origin, and whether
                       \* polls may fail and there are backups

ASSUME StreamAssumption ==
  /\ IsFiniteSet(Clients)
  /\ MaxStreams \in Nat \ {0} /\ MaxVersion \in Nat \ {0} /\ MaxCalls \in Nat
  /\ Setups \subseteq [clients : SUBSET Clients, prompt : BOOLEAN, stale : BOOLEAN,
                       backup : BOOLEAN]

Versions == 1..MaxVersion
Close == 0    \* the message None that shutdown_signal broadcasts
Nothing == -1 \* an empty queue, or no message yet

VARIABLES
  setup,    \* in Setups
  key,      \* SdkKeyStore: the version polls ask from
  storing,  \* the answer that the synchronous observers have yet to store, or Nothing
  store,    \* ConfigSpecStore
  channel,  \* [made: in update_broadcast_cache, last: last_updated, kept: retained message]
  updates,  \* versions whose asynchronous observers have yet to reach the channel
  counter,  \* CONNECTION_COUNTER
  stream,   \* per client: the handler and the task it spawns
  client,   \* per client: connected, the queue, the last payload it read, and whether
            \* that was an update rather than the first one
  calls,    \* calls left
  stopping  \* shutdown_signal has sent its message

fetch == <<key, storing, store>>

vars == <<setup, fetch, channel, updates, counter, stream, client, calls, stopping>>

\* behind: messages sent since the last one read, where 2 stands for a lag.
NoStream == [pc |-> "idle", lcut |-> Nothing, behind |-> 0]
NoClient == [connected |-> FALSE, queue |-> Nothing, payload |-> FALSE, seen |-> Nothing,
             updated |-> FALSE]

Subscribed(s) == stream[s].pc \in {"start", "listen", "send", "beat"}
Counted(s) == stream[s].pc \in {"listen", "send", "beat", "close"}

TypeOK ==
  /\ setup \in Setups
  /\ key \in Versions /\ storing \in Versions \cup {Nothing} /\ store \in Versions
  /\ channel \in [made : BOOLEAN, last : 0..MaxVersion, kept : 0..MaxVersion]
  /\ updates \subseteq Versions
  /\ counter \in 0..Cardinality(Clients)
  /\ stream \in [Clients -> [pc : {"idle", "init", "subscribe", "start", "listen", "send",
                                   "beat", "close"},
                             lcut : Versions \cup {Nothing}, behind : 0..2]]
  /\ client \in [Clients -> [connected : BOOLEAN, queue : Versions \cup {Nothing},
                             payload : BOOLEAN, seen : Versions \cup {Nothing},
                             updated : BOOLEAN]]
  /\ calls \in 0..MaxCalls /\ stopping \in BOOLEAN

Init ==
  /\ setup \in Setups
  /\ key = 1 /\ storing = Nothing /\ store = 1
  /\ channel = [made |-> FALSE, last |-> 0, kept |-> 0]
  /\ updates = {}
  /\ counter = 0
  /\ stream = [s \in Clients |-> NoStream]
  /\ client = [s \in Clients |-> NoClient]
  /\ calls = MaxCalls /\ stopping = FALSE

----------------------------------------------------------------------------
(* The polls                                                               *)

\* The next poll is over: the last one has been stored, and when the situation is
\* prompt its asynchronous observers are done too.
Polled == storing = Nothing /\ (setup.prompt => updates = {})

\* What is stored came from the origin once, so that an edge that is up to date does
\* not answer with less.  An answer is notified unless it is the version that was
\* asked from.  notify_all takes the observers there are, and spawns the asynchronous
\* ones before it calls the synchronous ones; of these the key store is the first.
Notify ==
  /\ Polled
  /\ \E v \in Versions :
       /\ v >= store \/ setup.stale
       /\ v # key
       /\ key' = IF v > key THEN v ELSE key
       /\ storing' = v
       /\ updates' = IF channel.made THEN updates \cup {v} ELSE updates
  /\ UNCHANGED <<setup, store, channel, counter, stream, client, calls, stopping>>

StoreUpdate ==
  /\ storing # Nothing
  /\ store' = IF storing > store THEN storing ELSE store
  /\ storing' = Nothing
  /\ UNCHANGED <<setup, key, channel, updates, counter, stream, client, calls, stopping>>

\* A poll that fails brings the backup, which only the store takes.
Fallback ==
  /\ Polled
  /\ setup.backup
  /\ \E b \in Versions : b > store /\ store' = b
  /\ UNCHANGED <<setup, key, storing, channel, updates, counter, stream, client, calls, stopping>>

\* broadcast::Sender::send: the channel keeps one message.  It fails, and keeps
\* what it has, when nobody is subscribed.
Broadcast(message, last) ==
  IF \E s \in Clients : Subscribed(s)
    THEN /\ channel' = [channel EXCEPT !.last = last, !.kept = message]
         /\ stream' = [s \in Clients |->
                        IF Subscribed(s) /\ stream[s].behind < 2
                          THEN [stream[s] EXCEPT !.behind = @ + 1]
                          ELSE stream[s]]
    ELSE UNCHANGED <<stream, channel>>

IsNewer_differs(v) == v # channel.last

IsNewer(v) == v > channel.last

\* StreamingChannel::update, under the lock of last_updated.
Deliver(v) ==
  /\ v \in updates
  /\ updates' = updates \ {v}
  /\ IF IsNewer(v) THEN Broadcast(v, v) ELSE UNCHANGED <<stream, channel>>
  /\ UNCHANGED <<setup, fetch, counter, client, calls, stopping>>

\* shutdown_signal: the streams are told to end.
Shutdown ==
  /\ ~stopping
  /\ stopping' = TRUE
  /\ Broadcast(Close, channel.last)
  /\ UNCHANGED <<setup, fetch, updates, counter, client, calls>>

----------------------------------------------------------------------------
(* stream_config_spec                                                      *)

Goto(s, pc) == stream' = [stream EXCEPT ![s].pc = pc]

\* A call beyond the limit is answered with an error.
Open(s) ==
  /\ s \in setup.clients /\ stream[s].pc = "idle" /\ ~stopping /\ calls > 0
  /\ counter < MaxStreams
  /\ calls' = calls - 1
  /\ Goto(s, "init")
  /\ client' = [client EXCEPT ![s] = [NoClient EXCEPT !.connected = TRUE]]
  /\ UNCHANGED <<setup, fetch, channel, updates, counter, stopping>>

ReadInit(s) ==
  /\ stream[s].pc = "init"
  /\ stream' = [stream EXCEPT ![s].pc = "subscribe", ![s].lcut = store]
  /\ UNCHANGED <<setup, fetch, channel, updates, counter, client, calls, stopping>>

\* The first call for a context makes the channel and registers it.
Subscribe(s) ==
  /\ stream[s].pc = "subscribe"
  /\ channel' = [channel EXCEPT !.made = TRUE]
  /\ Goto(s, "start")
  /\ UNCHANGED <<setup, fetch, updates, counter, client, calls, stopping>>

Queue(s, payload) ==
  client' = [client EXCEPT ![s].queue = stream[s].lcut, ![s].payload = payload]

\* tx.send: it waits for room, and fails when the client is gone.
Sent(s, payload) == client[s].connected /\ client[s].queue = Nothing /\ Queue(s, payload)
Gone(s) == ~client[s].connected /\ UNCHANGED client

\* The spawned task.  Whether the first payload could be sent is not asked.
Start(s) ==
  /\ stream[s].pc = "start"
  /\ Sent(s, TRUE) \/ Gone(s)
  /\ counter' = counter + 1
  /\ Goto(s, "listen")
  /\ UNCHANGED <<setup, fetch, channel, updates, calls, stopping>>

Receive(s) ==
  /\ stream[s].pc = "listen" /\ stream[s].behind = 1
  /\ stream' = [stream EXCEPT ![s] =
       IF channel.kept = Close THEN [@ EXCEPT !.pc = "close", !.behind = 0]
                               ELSE [pc |-> "send", lcut |-> channel.kept, behind |-> 0]]
  /\ UNCHANGED <<setup, fetch, channel, updates, counter, client, calls, stopping>>

\* A lag is an error of the receiver, and the stream subscribes anew: what the
\* channel still keeps is not read.
Lagged(s) ==
  /\ stream[s].pc = "listen" /\ stream[s].behind = 2
  /\ stream' = [stream EXCEPT ![s].behind = 0]
  /\ UNCHANGED <<setup, fetch, channel, updates, counter, client, calls, stopping>>

Send_keepsCopy(s) ==
  /\ stream[s].pc = "send"
  /\ \/ UNCHANGED client /\ Goto(s, "listen")
     \/ Gone(s) /\ Goto(s, "close")
  /\ UNCHANGED <<setup, fetch, channel, updates, counter, calls, stopping>>

Send(s) ==
  /\ stream[s].pc = "send"
  /\ \/ Sent(s, TRUE) /\ Goto(s, "listen")
     \/ Gone(s) /\ Goto(s, "close")
  /\ UNCHANGED <<setup, fetch, channel, updates, counter, calls, stopping>>

\* Thirty seconds without a message.
Quiet(s) ==
  /\ stream[s].pc = "listen" /\ stream[s].behind = 0
  /\ Goto(s, "beat")
  /\ UNCHANGED <<setup, fetch, channel, updates, counter, client, calls, stopping>>

Beat_ignoresError(s) ==
  /\ stream[s].pc = "beat"
  /\ Sent(s, FALSE) \/ Gone(s)
  /\ Goto(s, "listen")
  /\ UNCHANGED <<setup, fetch, channel, updates, counter, calls, stopping>>

Beat(s) ==
  /\ stream[s].pc = "beat"
  /\ \/ Sent(s, FALSE) /\ Goto(s, "listen")
     \/ Gone(s) /\ Goto(s, "close")
  /\ UNCHANGED <<setup, fetch, channel, updates, counter, calls, stopping>>

\* The task ends: the count goes down and both ends of the queue are gone.
End(s) ==
  /\ stream[s].pc = "close"
  /\ counter' = counter - 1
  /\ stream' = [stream EXCEPT ![s] = NoStream]
  /\ client' = [client EXCEPT ![s] = NoClient]
  /\ UNCHANGED <<setup, fetch, channel, updates, calls, stopping>>

----------------------------------------------------------------------------
(* The client                                                              *)

Read(s) ==
  /\ client[s].connected /\ client[s].queue # Nothing
  /\ client' = [client EXCEPT ![s].queue = Nothing, ![s].payload = FALSE,
                              ![s].seen = IF client[s].payload THEN client[s].queue ELSE @,
                              ![s].updated = IF client[s].payload THEN client[s].seen # Nothing
                                                                  ELSE @]
  /\ UNCHANGED <<setup, fetch, channel, updates, counter, stream, calls, stopping>>

Disconnect(s) ==
  /\ client[s].connected /\ Subscribed(s)
  /\ client' = [client EXCEPT ![s] = NoClient]
  /\ UNCHANGED <<setup, fetch, channel, updates, counter, stream, calls, stopping>>

----------------------------------------------------------------------------
Handle(s) ==
  \/ ReadInit(s) \/ Subscribe(s) \/ Start(s)
  \/ Receive(s) \/ Lagged(s) \/ Send(s) \/ Quiet(s) \/ Beat(s) \/ End(s)

Next ==
  \/ Notify \/ StoreUpdate \/ Fallback \/ Shutdown
  \/ \E v \in Versions : Deliver(v)
  \/ \E s \in Clients : Open(s) \/ Handle(s) \/ Read(s) \/ Disconnect(s)

Spec == Init /\ [][Next]_vars

\* Tasks are polled, timers fire, and a client that is connected reads.
FairSpec ==
  /\ Spec
  /\ WF_vars(StoreUpdate)
  /\ \A v \in Versions : WF_vars(Deliver(v))
  /\ \A s \in Clients : WF_vars(Handle(s)) /\ WF_vars(Read(s))

----------------------------------------------------------------------------
(* Properties                                                              *)

\* A heartbeat names a version whose payload the client has read: clients take
\* it as "nothing newer than this", and never fetch the version themselves.
HeartbeatHonest ==
  \A s \in Clients :
    client[s].queue # Nothing /\ ~client[s].payload => client[s].seen = client[s].queue

\* The updates a client reads are in ascending order, whichever edge answers the
\* polls and in whatever order the asynchronous observers reach the channel.  The
\* first payload, which comes from the store, is not ahead of them either as long
\* as edges are up to date and the observers of one fetch are done before the next.
StreamForward ==
  [][\A s \in Clients :
       /\ client[s].seen # Nothing /\ client'[s].seen # Nothing
       /\ client[s].updated \/ (setup.prompt /\ ~setup.stale)
       => client'[s].seen >= client[s].seen]_vars

\* What the channel keeps for a stream reaches the client, or something newer
\* does, unless the stream lags behind, is told to end, or loses its client.
Distributed ==
  \A s \in Clients :
    (Subscribed(s) /\ client[s].connected /\ stream[s].behind = 1)
      ~> (client[s].seen = channel.kept \/ channel.kept = Close \/ stream[s].behind = 2
           \/ ~client[s].connected)

\* A stream whose client is gone gives its place in the count back.
PlacesReturned ==
  \A s \in Clients : (Counted(s) /\ ~client[s].connected) ~> ~Counted(s)
=============================================================================
