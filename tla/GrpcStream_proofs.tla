-------------------------- MODULE GrpcStream_proofs --------------------------
(***************************************************************************)
(* Proofs about GrpcStream, for every number of clients, calls and          *)
(* versions and every order in which updates reach the channel.            *)
(***************************************************************************)
EXTENDS GrpcStream, FiniteSetTheorems, TLAPS

StreamRecord == [pc : {"idle", "init", "subscribe", "start", "listen", "send", "beat", "close"},
                 lcut : Versions \cup {Nothing}, behind : 0..2]
ClientRecord == [connected : BOOLEAN, queue : Versions \cup {Nothing},
                 payload : BOOLEAN, seen : Versions \cup {Nothing}, updated : BOOLEAN]

\* The streams that have been counted and have not given their place back.
Places == {s \in Clients : Counted(s)}

CountInv == counter = Cardinality(Places)

Typed ==
  /\ setup \in Setups
  /\ key \in Versions /\ storing \in Versions \cup {Nothing} /\ store \in Versions
  /\ channel \in [made : BOOLEAN, last : 0..MaxVersion, kept : 0..MaxVersion]
  /\ updates \subseteq Versions
  /\ stream \in [Clients -> StreamRecord]
  /\ client \in [Clients -> ClientRecord]
  /\ calls \in 0..MaxCalls /\ stopping \in BOOLEAN

LEMMA Numbers ==
    /\ MaxVersion \in Nat /\ MaxVersion >= 1 /\ MaxCalls \in Nat
    /\ \A v \in Versions : v \in 0..MaxVersion /\ v # Nothing /\ v # Close
    /\ \A s \in Setups : s.prompt \in BOOLEAN /\ s.stale \in BOOLEAN
  BY StreamAssumption DEF Versions, Nothing, Close

LEMMA Empty == NoStream \in StreamRecord /\ NoClient \in ClientRecord
  BY DEF NoStream, StreamRecord, NoClient, ClientRecord

LEMMA InitTyped == Init => Typed
<1> SUFFICES ASSUME Init PROVE Typed
  BY Zenon
<1>1. 1 \in Versions /\ MaxCalls \in 0..MaxCalls /\ 0 \in 0..MaxVersion
  BY Numbers DEF Versions
<1>2. channel \in [made : BOOLEAN, last : 0..MaxVersion, kept : 0..MaxVersion]
  BY <1>1, Zenon DEF Init
<1>3. stream \in [Clients -> StreamRecord] /\ client \in [Clients -> ClientRecord]
  BY Empty, Zenon DEF Init
<1> QED
  BY <1>1, <1>2, <1>3, Zenon DEF Init, Typed

\* What is left of the channel and the streams by a message that is broadcast:
\* every subscriber is one message further behind, or lags, and nothing else.
LEMMA BroadcastTyped ==
    ASSUME Typed, NEW message \in 0..MaxVersion, NEW last \in 0..MaxVersion,
           Broadcast(message, last)
    PROVE  /\ stream' \in [Clients -> StreamRecord]
           /\ channel' \in [made : BOOLEAN, last : 0..MaxVersion, kept : 0..MaxVersion]
           /\ \A s \in Clients : stream'[s].pc = stream[s].pc /\ stream'[s].lcut = stream[s].lcut
           /\ \A s \in Clients : stream'[s].behind # stream[s].behind =>
                Subscribed(s) /\ channel'.kept = message
           /\ \/ channel' = channel
              \/ channel'.kept = message /\ channel'.last = last
<1> DEFINE Further(s) == IF Subscribed(s) /\ stream[s].behind < 2
                         THEN [stream[s] EXCEPT !.behind = @ + 1] ELSE stream[s]
<1>1. ASSUME NEW s \in Clients
      PROVE  /\ Further(s) \in StreamRecord
             /\ Further(s).pc = stream[s].pc /\ Further(s).lcut = stream[s].lcut
             /\ Further(s).behind # stream[s].behind => Subscribed(s)
  <2>1. stream[s] \in StreamRecord
    BY Zenon DEF Typed
  <2>2. CASE Subscribed(s) /\ stream[s].behind < 2
    BY <2>1, <2>2 DEF StreamRecord
  <2>3. CASE ~(Subscribed(s) /\ stream[s].behind < 2)
    BY <2>1, <2>3, Zenon
  <2> QED
    BY <2>2, <2>3, Zenon
<1>2. CASE \E s \in Clients : Subscribed(s)
  <2>1. /\ channel' = [channel EXCEPT !.last = last, !.kept = message]
        /\ stream' = [s \in Clients |-> Further(s)]
    BY <1>2, Zenon DEF Broadcast
  <2> HIDE DEF Further
  <2> QED
    BY <1>1, <2>1, Zenon DEF Typed
<1>3. CASE ~ \E s \in Clients : Subscribed(s)
  BY <1>3, Zenon DEF Broadcast, Typed
<1> QED
  BY <1>2, <1>3, Zenon

\* What the steps of a call do to the fields of its stream and of its client.
LEMMA GotoFields ==
    ASSUME Typed, NEW s \in Clients, NEW pc, Goto(s, pc)
    PROVE  /\ stream'[s].pc = pc
           /\ stream'[s].lcut = stream[s].lcut /\ stream'[s].behind = stream[s].behind
           /\ \A q \in Clients \ {s} : stream'[q] = stream[q]
<1>1. stream[s] \in StreamRecord /\ stream' = [stream EXCEPT ![s] = [stream[s] EXCEPT !.pc = pc]]
  BY Zenon DEF Typed, Goto
<1>2. stream'[s] = [stream[s] EXCEPT !.pc = pc] /\ \A q \in Clients \ {s} : stream'[q] = stream[q]
  BY <1>1, Zenon DEF Typed
<1> QED
  BY <1>1, <1>2 DEF StreamRecord

LEMMA SentFields ==
    ASSUME Typed, NEW s \in Clients, NEW payload, Sent(s, payload)
    PROVE  /\ client[s].connected /\ client[s].queue = Nothing
           /\ client'[s].connected = client[s].connected /\ client'[s].queue = stream[s].lcut
           /\ client'[s].payload = payload /\ client'[s].seen = client[s].seen
           /\ client'[s].updated = client[s].updated
           /\ \A q \in Clients \ {s} : client'[q] = client[q]
<1>1. /\ client[s] \in ClientRecord
      /\ client' = [client EXCEPT ![s] = [client[s] EXCEPT !.queue = stream[s].lcut,
                                                           !.payload = payload]]
  BY Zenon DEF Typed, Sent, Queue
<1>2. /\ client'[s] = [client[s] EXCEPT !.queue = stream[s].lcut, !.payload = payload]
      /\ \A q \in Clients \ {s} : client'[q] = client[q]
  BY <1>1, Zenon DEF Typed
<1>3. client[s] = [connected |-> client[s].connected, queue |-> client[s].queue,
                   payload |-> client[s].payload, seen |-> client[s].seen,
                   updated |-> client[s].updated]
  BY <1>1, Zenon DEF ClientRecord
<1>4. client'[s].payload = payload
  BY <1>2, <1>3, Zenon
<1>5. client'[s].queue = stream[s].lcut
  BY <1>2, <1>3, Zenon
<1>6. client'[s].seen = client[s].seen
  BY <1>2, <1>3, Zenon
<1>7. client'[s].connected = client[s].connected
  BY <1>2, <1>3, Zenon
<1>8. client'[s].updated = client[s].updated
  BY <1>2, <1>3, Zenon
<1> QED
  BY <1>2, <1>4, <1>5, <1>6, <1>7, <1>8, Zenon DEF Sent

LEMMA ReceiveFields ==
    ASSUME Typed, NEW s \in Clients, Receive(s)
    PROVE  /\ channel.kept = Close => stream'[s].pc = "close" /\ stream'[s].lcut = stream[s].lcut
           /\ channel.kept # Close => stream'[s].pc = "send" /\ stream'[s].lcut = channel.kept
           /\ stream'[s].behind = 0
           /\ \A q \in Clients \ {s} : stream'[q] = stream[q]
<1>1. stream[s] \in StreamRecord /\ \A q \in Clients \ {s} : stream'[q] = stream[q]
  BY Zenon DEF Typed, Receive
<1>2. CASE channel.kept = Close
  <2>1. stream'[s] = [stream[s] EXCEPT !.pc = "close", !.behind = 0]
    BY <1>2, Zenon DEF Receive, Typed
  <2> QED
    BY <1>1, <1>2, <2>1, Zenon DEF StreamRecord
<1>3. CASE channel.kept # Close
  <2>1. stream'[s] = [pc |-> "send", lcut |-> channel.kept, behind |-> 0]
    BY <1>3, Zenon DEF Receive, Typed
  <2> QED
    BY <1>1, <1>3, <2>1
<1> QED
  BY <1>2, <1>3, Zenon

LEMMA ReadFields ==
    ASSUME Typed, NEW s \in Clients, Read(s)
    PROVE  /\ client'[s].connected = client[s].connected /\ client'[s].queue = Nothing
           /\ client'[s].seen = IF client[s].payload THEN client[s].queue ELSE client[s].seen
           /\ client'[s].updated = IF client[s].payload THEN client[s].seen # Nothing
                                                         ELSE client[s].updated
           /\ \A q \in Clients \ {s} : client'[q] = client[q]
<1> DEFINE seen == IF client[s].payload THEN client[s].queue ELSE client[s].seen
           updated == IF client[s].payload THEN client[s].seen # Nothing ELSE client[s].updated
<1>1. client[s] \in ClientRecord
  BY Zenon DEF Typed
<1>2. /\ client'[s] = [client[s] EXCEPT !.queue = Nothing, !.payload = FALSE, !.seen = seen,
                                        !.updated = updated]
      /\ \A q \in Clients \ {s} : client'[q] = client[q]
  BY Zenon DEF Read, Typed
<1> HIDE DEF seen, updated
<1>3. client[s] = [connected |-> client[s].connected, queue |-> client[s].queue,
                   payload |-> client[s].payload, seen |-> client[s].seen,
                   updated |-> client[s].updated]
  BY <1>1, Zenon DEF ClientRecord
<1>4. client'[s].connected = client[s].connected
  BY <1>2, <1>3, Zenon
<1>5. client'[s].queue = Nothing
  BY <1>2, <1>3, Zenon
<1>6. client'[s].seen = seen
  BY <1>2, <1>3, Zenon
<1>7. client'[s].updated = updated
  BY <1>2, <1>3, Zenon
<1> QED
  BY <1>2, <1>4, <1>5, <1>6, <1>7, Zenon DEF seen, updated

\* The steps of a call and of its client.
LEMMA CallTyped ==
    ASSUME Typed, NEW s \in Clients, Open(s) \/ Handle(s) \/ Read(s) \/ Disconnect(s)
    PROVE  Typed'
<1> USE Numbers DEF Typed, fetch
<1>1. /\ stream[s] \in StreamRecord /\ client[s] \in ClientRecord
      /\ stream[s].lcut \in Versions \cup {Nothing}
  BY Zenon DEF StreamRecord
<1>2. ASSUME NEW pc \in {"init", "subscribe", "start", "listen", "send", "beat", "close"}
      PROVE  Goto(s, pc) => stream' \in [Clients -> StreamRecord]
  BY <1>1 DEF Goto, StreamRecord
<1>3. ASSUME NEW payload \in BOOLEAN
      PROVE  Sent(s, payload) \/ Gone(s) => client' \in [Clients -> ClientRecord]
  BY <1>1 DEF Sent, Queue, Gone, ClientRecord
<1>4. CASE Open(s)
  <2>1. [NoClient EXCEPT !.connected = TRUE] \in ClientRecord
    BY Empty, Zenon DEF ClientRecord
  <2>2. calls' \in 0..MaxCalls
    BY <1>4 DEF Open
  <2> QED
    BY <1>2, <1>4, <2>1, <2>2, Zenon DEF Open
<1>5. CASE ReadInit(s)
  <2>1. stream' = [stream EXCEPT ![s] = [@ EXCEPT !.pc = "subscribe", !.lcut = store]]
    BY <1>5, Zenon DEF ReadInit
  <2>2. [stream[s] EXCEPT !.pc = "subscribe", !.lcut = store] \in StreamRecord
    BY <1>1, Zenon DEF StreamRecord
  <2> QED
    BY <1>5, <2>1, <2>2 DEF ReadInit
<1>6. CASE Subscribe(s)
  BY <1>2, <1>6, Zenon DEF Subscribe
<1>7. CASE Start(s)
  BY <1>2, <1>3, <1>7, Zenon DEF Start
<1>8. CASE Receive(s)
  <2>1. channel.kept # Close => channel.kept \in Versions
    BY DEF Versions, Close
  <2>2. stream' \in [Clients -> StreamRecord]
    <3>1. CASE channel.kept = Close
      <4>1. 0 \in 0..2
        OBVIOUS
      <4>2. [stream[s] EXCEPT !.pc = "close", !.behind = 0] \in StreamRecord
        BY <1>1, <4>1, Zenon DEF StreamRecord
      <4> QED
        BY <1>8, <3>1, <4>2, Zenon DEF Receive
    <3>2. CASE channel.kept # Close
      <4>1. [pc |-> "send", lcut |-> channel.kept, behind |-> 0] \in StreamRecord
        BY <2>1, <3>2 DEF StreamRecord
      <4> QED
        BY <1>8, <3>2, <4>1, Zenon DEF Receive
    <3> QED
      BY <3>1, <3>2, Zenon
  <2> QED
    BY <1>8, <2>2, Zenon DEF Receive
<1>9. CASE Lagged(s)
  BY <1>1, <1>9 DEF Lagged, StreamRecord
<1>10. CASE Send(s)
  BY <1>2, <1>3, <1>10, Zenon DEF Send
<1>11. CASE Quiet(s)
  BY <1>2, <1>11, Zenon DEF Quiet
<1>12. CASE Beat(s)
  BY <1>2, <1>3, <1>12, Zenon DEF Beat
<1>13. CASE End(s)
  BY <1>13, Empty, Zenon DEF End
<1>14. CASE Read(s)
  <2>1. client' \in [Clients -> ClientRecord]
    BY <1>1, <1>14, Zenon DEF Read, ClientRecord
  <2> QED
    BY <1>14, <2>1, Zenon DEF Read
<1>15. CASE Disconnect(s)
  BY <1>15, Empty, Zenon DEF Disconnect
<1> QED
  BY <1>4, <1>5, <1>6, <1>7, <1>8, <1>9, <1>10, <1>11, <1>12, <1>13, <1>14, <1>15, Zenon DEF Handle

LEMMA StepTyped == Typed /\ [Next]_vars => Typed'
<1> SUFFICES ASSUME Typed, [Next]_vars PROVE Typed'
  BY Zenon
<1> USE Numbers DEF Typed, fetch
<1>1. CASE Notify
  BY <1>1, Zenon DEF Notify
<1>2. CASE StoreUpdate \/ Fallback
  <2>1. store' \in Versions /\ storing' \in Versions \cup {Nothing}
    BY <1>2, Zenon DEF StoreUpdate, Fallback
  <2> QED
    BY <1>2, <2>1, Zenon DEF StoreUpdate, Fallback
<1>3. CASE Shutdown
  <2>1. Close \in 0..MaxVersion /\ channel.last \in 0..MaxVersion
    BY DEF Close
  <2> QED
    BY <1>3, <2>1, BroadcastTyped, Zenon DEF Shutdown
<1>4. ASSUME NEW v \in Versions, Deliver(v)
      PROVE  Typed'
  <2>1. CASE IsNewer(v)
    BY <1>4, <2>1, BroadcastTyped, Zenon DEF Deliver
  <2>2. CASE ~IsNewer(v)
    BY <1>4, <2>2, Zenon DEF Deliver
  <2> QED
    BY <2>1, <2>2, Zenon
<1>5. CASE UNCHANGED vars
  BY <1>5, Zenon DEF vars
<1> QED
  BY <1>1, <1>2, <1>3, <1>4, <1>5, CallTyped, Zenon DEF Next
-----------------------------------------------------------------------------
(* The count of streams *)

LEMMA PlacesFinite == IsFiniteSet(Places) /\ Cardinality(Places) \in 0..Cardinality(Clients)
<1>1. Places \subseteq Clients /\ IsFiniteSet(Clients)
  BY StreamAssumption, Zenon DEF Places
<1> QED
  BY <1>1, FS_Subset, FS_CardinalityType

\* A place is taken by the task that starts and given back by the one that ends,
\* and by nothing else, not by the order in which streams come and go.
LEMMA CountStep == Typed /\ CountInv /\ [Next]_vars => CountInv'
<1> SUFFICES ASSUME Typed, CountInv, [Next]_vars PROVE CountInv'
  BY Zenon
<1> USE DEF Typed
<1>1. CASE counter' = counter /\ \A s \in Clients : Counted(s)' = Counted(s)
  <2>1. Places' = Places
    BY <1>1, Zenon DEF Places
  <2> QED
    BY <1>1, <2>1, Zenon DEF CountInv
<1>2. ASSUME NEW s \in Clients, Start(s)
      PROVE  CountInv'
  <2>1. s \notin Places /\ Places' = Places \cup {s}
    BY <1>2, Zenon DEF Places, Counted, Start, Goto, StreamRecord
  <2>2. Cardinality(Places') = Cardinality(Places) + 1
    BY <2>1, PlacesFinite, FS_AddElement, Zenon
  <2> QED
    BY <1>2, <2>2, Zenon DEF CountInv, Start
<1>3. ASSUME NEW s \in Clients, End(s)
      PROVE  CountInv'
  <2>1. s \in Places /\ Places' = Places \ {s}
    BY <1>3, Zenon DEF Places, Counted, End, NoStream, StreamRecord
  <2>2. Cardinality(Places') = Cardinality(Places) - 1
    BY <2>1, PlacesFinite, FS_RemoveElement, Zenon
  <2> QED
    BY <1>3, <2>2, Zenon DEF CountInv, End
<1>4. ASSUME NEW s \in Clients, Open(s) \/ Handle(s) \/ Read(s) \/ Disconnect(s),
             ~Start(s), ~End(s)
      PROVE  CountInv'
  <2>1. counter' = counter
    BY <1>4, Zenon DEF Open, Handle, ReadInit, Subscribe, Receive, Lagged, Send, Quiet, Beat, Read,
                Disconnect
  <2>2. \A q \in Clients \ {s} : stream'[q] = stream[q]
    BY <1>4, Zenon DEF Open, Handle, ReadInit, Subscribe, Receive, Lagged, Send, Quiet, Beat, Read,
                Disconnect, Goto
  <2>3. Counted(s)' = Counted(s)
    <3>1. ASSUME NEW pc, Goto(s, pc)
          PROVE  Counted(s)' = (pc \in {"listen", "send", "beat", "close"})
      BY <3>1, GotoFields, Zenon DEF Counted
    <3>2. CASE Receive(s)
      <4>1. stream'[s].pc \in {"close", "send"} /\ stream[s].pc = "listen"
        BY <3>2, ReceiveFields, Zenon DEF Receive
      <4> QED
        BY <4>1 DEF Counted
    <3>5. CASE Open(s) \/ Subscribe(s)
      <4>1. stream[s].pc \in {"idle", "subscribe"} /\ (Goto(s, "init") \/ Goto(s, "start"))
        BY <3>5, Zenon DEF Open, Subscribe
      <4> QED
        BY <3>1, <4>1 DEF Counted
    <3>6. CASE Quiet(s) \/ Send(s) \/ Beat(s)
      <4>1. /\ stream[s].pc \in {"listen", "send", "beat"}
            /\ Goto(s, "listen") \/ Goto(s, "beat") \/ Goto(s, "close")
        BY <3>6, Zenon DEF Quiet, Send, Beat
      <4> QED
        BY <3>1, <4>1 DEF Counted
    <3>3. CASE ReadInit(s) \/ Lagged(s)
      BY <3>3 DEF ReadInit, Lagged, Counted, StreamRecord
    <3>4. CASE Read(s) \/ Disconnect(s)
      BY <3>4, Zenon DEF Read, Disconnect, Counted
    <3> QED
      BY <1>4, <3>2, <3>3, <3>4, <3>5, <3>6, Zenon DEF Handle
  <2> QED
    BY <1>1, <2>1, <2>2, <2>3, Zenon DEF Counted
<1>5. CASE Shutdown
  <2>1. Close \in 0..MaxVersion /\ channel.last \in 0..MaxVersion
    BY Numbers DEF Close
  <2> QED
    BY <1>1, <1>5, <2>1, BroadcastTyped, Zenon DEF Shutdown, Counted
<1>6. ASSUME NEW v \in Versions, Deliver(v)
      PROVE  CountInv'
  <2>1. CASE IsNewer(v)
    BY <1>1, <1>6, <2>1, Numbers, BroadcastTyped, Zenon DEF Deliver, Counted
  <2>2. CASE ~IsNewer(v)
    BY <1>1, <1>6, <2>2, Zenon DEF Deliver, Counted
  <2> QED
    BY <2>1, <2>2, Zenon
<1>7. CASE Notify \/ StoreUpdate \/ Fallback \/ UNCHANGED vars
  BY <1>1, <1>7, Zenon DEF Notify, StoreUpdate, Fallback, vars, Counted
<1> QED
  BY <1>2, <1>3, <1>4, <1>5, <1>6, <1>7, Zenon DEF Next

LEMMA CountInit == Init => CountInv
<1> SUFFICES ASSUME Init PROVE CountInv
  BY Zenon
<1>1. Places = {}
  BY Zenon DEF Init, Places, Counted, NoStream
<1> QED
  BY <1>1, FS_EmptySet, Zenon DEF Init, CountInv

LEMMA TypedAlways == Spec => [](Typed /\ CountInv)
  BY InitTyped, StepTyped, CountInit, CountStep, PTL DEF Spec

\* CONNECTION_COUNTER is the number of tasks that are in their loop, so it never
\* goes below zero nor drifts away from what the limit is compared with, however
\* streams end: by their client, by shutdown or by a failed send.
THEOREM CountExact == Spec => []CountInv
  BY TypedAlways, PTL

\* Every variable has the shape the code gives it.
THEOREM TypeCorrect == Spec => []TypeOK
<1>1. Typed /\ CountInv => TypeOK
  BY PlacesFinite, Zenon DEF Typed, CountInv, TypeOK, StreamRecord, ClientRecord
<1> QED
  BY <1>1, TypedAlways, PTL
-----------------------------------------------------------------------------
(* What the client has read and what is on its way to it *)

\* Between two sends the client has read the version of the stream, or its payload
\* is in the queue: this is what makes a heartbeat honest.
Honest(s) ==
  /\ ~client[s].connected => client[s].queue = Nothing /\ client[s].seen = Nothing
  /\ stream[s].pc \in {"idle", "init", "subscribe", "start"} =>
       client[s].queue = Nothing /\ client[s].seen = Nothing
  /\ stream[s].pc \in {"subscribe", "start", "listen", "send", "beat"} => stream[s].lcut # Nothing
  /\ stream[s].pc \in {"listen", "beat"} /\ client[s].connected =>
       IF client[s].queue = Nothing THEN client[s].seen = stream[s].lcut
                                    ELSE client[s].queue = stream[s].lcut
  /\ client[s].queue # Nothing /\ ~client[s].payload => client[s].seen = client[s].queue

HonestInv == \A s \in Clients : Honest(s)

\* The newest version the process has been answered with.
Newest == IF storing > store THEN storing ELSE store

\* With edges that are up to date and prompt deliveries the channel never keeps a
\* version behind the one of a stream that has yet to read it.
Ascending(s) ==
  /\ stream[s].lcut <= Newest
  /\ stream[s].pc \in {"idle", "init", "subscribe"} => stream[s].behind = 0
  /\ stream[s].behind > 0 => channel.kept = Close \/ channel.kept >= stream[s].lcut
  /\ client[s].seen <= stream[s].lcut
  /\ client[s].queue # Nothing =>
       client[s].seen <= client[s].queue /\ client[s].queue <= stream[s].lcut

AscendingInv ==
  /\ channel.kept <= Newest
  /\ updates \subseteq {Newest}
  /\ \A s \in Clients : Ascending(s)

\* A step of one call, or of its client, leaves the other calls alone.
LEMMA OthersKept ==
    ASSUME Typed, NEW s \in Clients, Open(s) \/ Handle(s) \/ Read(s) \/ Disconnect(s)
    PROVE  /\ \A q \in Clients \ {s} : stream'[q] = stream[q] /\ client'[q] = client[q]
           /\ storing' = storing /\ store' = store /\ updates' = updates /\ setup' = setup
           /\ channel'.kept = channel.kept /\ channel'.last = channel.last
<1> USE DEF Typed, fetch
<1>1. \A pc : Goto(s, pc) => \A q \in Clients \ {s} : stream'[q] = stream[q]
  BY Zenon DEF Goto
<1>2. \A payload : Sent(s, payload) \/ Gone(s) =>
                    \A q \in Clients \ {s} : client'[q] = client[q]
  BY Zenon DEF Sent, Queue, Gone
<1>3. CASE Open(s)
  BY <1>1, <1>3, Zenon DEF Open
<1>4. CASE Subscribe(s)
  BY <1>1, <1>4, Zenon DEF Subscribe
<1>5. CASE Start(s)
  BY <1>1, <1>2, <1>5, Zenon DEF Start
<1>6. CASE Send(s)
  BY <1>1, <1>2, <1>6, Zenon DEF Send
<1>7. CASE Beat(s)
  BY <1>1, <1>2, <1>7, Zenon DEF Beat
<1>8. CASE Quiet(s)
  BY <1>1, <1>8, Zenon DEF Quiet
<1>9. CASE ReadInit(s) \/ Receive(s) \/ Lagged(s)
  BY <1>9, Zenon DEF ReadInit, Receive, Lagged
<1>10. CASE End(s)
  BY <1>10, Zenon DEF End
<1>11. CASE Read(s) \/ Disconnect(s)
  BY <1>11, Zenon DEF Read, Disconnect
<1> QED
  BY <1>3, <1>4, <1>5, <1>6, <1>7, <1>8, <1>9, <1>10, <1>11, Zenon DEF Handle

\* The fields of a call that is opened, ended or has lost its client.
LEMMA FreshFields ==
    ASSUME Typed, NEW s \in Clients
    PROVE  /\ Open(s) => client'[s].connected
           /\ End(s) \/ Disconnect(s) => ~client'[s].connected
           /\ Open(s) \/ End(s) \/ Disconnect(s) =>
                client'[s].queue = Nothing /\ client'[s].seen = Nothing /\ ~client'[s].updated
           /\ End(s) => /\ stream'[s].pc = "idle" /\ stream'[s].lcut = Nothing
                        /\ stream'[s].behind = 0
<1>1. Open(s) => client'[s] = [NoClient EXCEPT !.connected = TRUE]
  BY Zenon DEF Open, Typed
<1>2. End(s) \/ Disconnect(s) => client'[s] = NoClient
  BY Zenon DEF End, Disconnect, Typed
<1>3. End(s) => stream'[s] = NoStream
  BY Zenon DEF End, Typed
<1> QED
  BY <1>1, <1>2, <1>3 DEF NoClient, NoStream

LEMMA ReadInitFields ==
    ASSUME Typed, NEW s \in Clients
    PROVE  /\ ReadInit(s) => /\ stream'[s].pc = "subscribe" /\ stream'[s].lcut = store
                             /\ stream'[s].behind = stream[s].behind
           /\ Lagged(s) => /\ stream'[s].pc = stream[s].pc /\ stream'[s].lcut = stream[s].lcut
                           /\ stream'[s].behind = 0
<1>1. stream[s] \in StreamRecord
  BY Zenon DEF Typed
<1>2. ReadInit(s) => stream'[s] = [stream[s] EXCEPT !.pc = "subscribe", !.lcut = store]
  BY Zenon DEF ReadInit, Typed
<1>3. Lagged(s) => stream'[s] = [stream[s] EXCEPT !.behind = 0]
  BY Zenon DEF Lagged, Typed
<1> QED
  BY <1>1, <1>2, <1>3, Zenon DEF StreamRecord

LEMMA HonestCall ==
    ASSUME Typed, NEW s \in Clients, Honest(s), Open(s) \/ Handle(s) \/ Read(s) \/ Disconnect(s)
    PROVE  Honest(s)'
<1> USE DEF Honest
<1>1. CASE Open(s)
  BY <1>1, GotoFields, FreshFields, Zenon DEF Open
<1>2. CASE ReadInit(s)
  <2>1. store # Nothing /\ client' = client /\ stream[s].pc = "init"
    BY <1>2, Numbers, Zenon DEF Typed, ReadInit
  <2> QED
    BY <1>2, <2>1, ReadInitFields, Zenon
<1>3. CASE Subscribe(s)
  <2>1. Goto(s, "start") /\ client' = client /\ stream[s].pc = "subscribe"
    BY <1>3, Zenon DEF Subscribe
  <2> QED
    BY <2>1, GotoFields, Zenon
<1>4. CASE Start(s)
  <2>1. Goto(s, "listen") /\ stream[s].pc = "start"
    BY <1>4, Zenon DEF Start
  <2>2. CASE Sent(s, TRUE)
    <3>1. stream'[s].pc = "listen" /\ stream'[s].lcut = stream[s].lcut
      BY <2>1, <2>2, GotoFields, Zenon
    <3>2. /\ client[s].connected /\ client[s].queue = Nothing
          /\ client'[s].queue = stream[s].lcut /\ client'[s].seen = client[s].seen
      BY <2>2, SentFields, Zenon
    <3>3. client'[s].connected /\ client'[s].payload
      BY <2>2, <3>2, SentFields, Zenon
    <3> QED
      BY <2>1, <3>1, <3>2, <3>3, Zenon
  <2>3. CASE Gone(s)
    BY <2>1, <2>3, GotoFields, Zenon DEF Gone
  <2> QED
    BY <1>4, <2>2, <2>3, Zenon DEF Start
<1>5. CASE Receive(s)
  <2>1. client' = client /\ stream[s].pc = "listen" /\ channel.kept # Nothing
    BY <1>5, Numbers DEF Receive, Typed, Nothing
  <2> QED
    BY <1>5, <2>1, ReceiveFields, Zenon
<1>6. CASE Lagged(s)
  <2>1. client' = client
    BY <1>6, Zenon DEF Lagged
  <2> QED
    BY <1>6, <2>1, ReadInitFields, Zenon
<1>7. CASE Send(s)
  <2>1. stream[s].pc = "send"
    BY <1>7, Zenon DEF Send
  <2>2. CASE Sent(s, TRUE) /\ Goto(s, "listen")
    <3>1. stream'[s].pc = "listen" /\ stream'[s].lcut = stream[s].lcut
      BY <2>1, <2>2, GotoFields, Zenon
    <3>2. /\ client[s].connected /\ client[s].queue = Nothing
          /\ client'[s].queue = stream[s].lcut /\ client'[s].seen = client[s].seen
      BY <2>2, SentFields, Zenon
    <3>3. client'[s].connected /\ client'[s].payload
      BY <2>2, <3>2, SentFields, Zenon
    <3> QED
      BY <2>1, <3>1, <3>2, <3>3, Zenon
  <2>3. CASE Gone(s) /\ Goto(s, "close")
    BY <2>1, <2>3, GotoFields, Zenon DEF Gone
  <2> QED
    BY <1>7, <2>2, <2>3, Zenon DEF Send
<1>8. CASE Quiet(s)
  <2>1. Goto(s, "beat") /\ client' = client /\ stream[s].pc = "listen"
    BY <1>8, Zenon DEF Quiet
  <2> QED
    BY <2>1, GotoFields
<1>9. CASE Beat(s)
  <2>1. stream[s].pc = "beat"
    BY <1>9, Zenon DEF Beat
  <2>2. CASE Sent(s, FALSE) /\ Goto(s, "listen")
    <3>1. stream'[s].pc = "listen" /\ stream'[s].lcut = stream[s].lcut
      BY <2>1, <2>2, GotoFields, Zenon
    <3>2. /\ client[s].connected /\ client[s].queue = Nothing
          /\ client'[s].queue = stream[s].lcut /\ client'[s].seen = client[s].seen
      BY <2>2, SentFields, Zenon
    <3>3. client'[s].connected /\ ~client'[s].payload
      BY <2>2, <3>2, SentFields, Zenon
    <3> QED
      BY <2>1, <3>1, <3>2, <3>3, Zenon
  <2>3. CASE Gone(s) /\ Goto(s, "close")
    BY <2>1, <2>3, GotoFields, Zenon DEF Gone
  <2> QED
    BY <1>9, <2>2, <2>3, Zenon DEF Beat
<1>10. CASE End(s)
  BY <1>10, FreshFields, Zenon
<1>11. CASE Read(s)
  <2>1. stream' = stream /\ client[s].connected /\ client[s].queue # Nothing
    BY <1>11, Zenon DEF Read
  <2> QED
    BY <1>11, <2>1, ReadFields, Zenon
<1>12. CASE Disconnect(s)
  <2>1. stream' = stream
    BY <1>12, Zenon DEF Disconnect
  <2> QED
    BY <1>12, <2>1, FreshFields, Zenon
<1> QED
  BY <1>1, <1>2, <1>3, <1>4, <1>5, <1>6, <1>7, <1>8, <1>9, <1>10, <1>11, <1>12, Zenon DEF Handle

\* A broadcast, a fetch and a shutdown leave the clients, and the versions the
\* streams are at, alone.
LEMMA ServerStep ==
    ASSUME Typed, Notify \/ StoreUpdate \/ Fallback \/ Shutdown \/ (\E v \in Versions : Deliver(v))
    PROVE  /\ client' = client
           /\ \A s \in Clients : stream'[s].pc = stream[s].pc /\ stream'[s].lcut = stream[s].lcut
<1>1. CASE Notify \/ StoreUpdate \/ Fallback
  BY <1>1, Zenon DEF Notify, StoreUpdate, Fallback
<1>2. CASE Shutdown
  <2>1. Close \in 0..MaxVersion /\ channel.last \in 0..MaxVersion
    BY Numbers DEF Close, Typed
  <2> QED
    BY <1>2, <2>1, BroadcastTyped, Zenon DEF Shutdown
<1>3. ASSUME NEW v \in Versions, Deliver(v)
      PROVE  /\ client' = client
             /\ \A s \in Clients : stream'[s].pc = stream[s].pc /\ stream'[s].lcut = stream[s].lcut
  <2>1. CASE IsNewer(v)
    BY <1>3, <2>1, Numbers, BroadcastTyped, Zenon DEF Deliver
  <2>2. CASE ~IsNewer(v)
    BY <1>3, <2>2, Zenon DEF Deliver
  <2> QED
    BY <2>1, <2>2, Zenon
<1> QED
  BY <1>1, <1>2, <1>3, Zenon

LEMMA HonestStep == Typed /\ HonestInv /\ [Next]_vars => HonestInv'
<1> SUFFICES ASSUME Typed, HonestInv, [Next]_vars, NEW q \in Clients PROVE Honest(q)'
  BY Zenon DEF HonestInv
<1>1. Honest(q)
  BY Zenon DEF HonestInv
<1>2. ASSUME NEW s \in Clients, Open(s) \/ Handle(s) \/ Read(s) \/ Disconnect(s)
      PROVE  Honest(q)'
  <2>1. CASE q = s
    BY <1>1, <1>2, <2>1, HonestCall, Zenon
  <2>2. CASE q # s
    <3>1. stream'[q] = stream[q] /\ client'[q] = client[q]
      BY <1>2, <2>2, OthersKept, Zenon
    <3> QED
      BY <1>1, <3>1, Zenon DEF Honest
  <2> QED
    BY <2>1, <2>2, Zenon
<1>3. CASE Notify \/ StoreUpdate \/ Fallback \/ Shutdown \/ (\E v \in Versions : Deliver(v))
  <2>1. client' = client /\ stream'[q].pc = stream[q].pc /\ stream'[q].lcut = stream[q].lcut
    BY <1>3, ServerStep, Zenon
  <2> QED
    BY <1>1, <2>1, Zenon DEF Honest
<1>4. CASE UNCHANGED vars
  BY <1>1, <1>4, Zenon DEF Honest, vars
<1> QED
  BY <1>2, <1>3, <1>4, Zenon DEF Next

LEMMA HonestInit == Init => HonestInv
<1> SUFFICES ASSUME Init, NEW s \in Clients PROVE Honest(s)
  BY Zenon DEF HonestInv
<1>1. stream[s] = NoStream /\ client[s] = NoClient
  BY Zenon DEF Init
<1> QED
  BY <1>1 DEF Honest, NoStream, NoClient

LEMMA CallFieldTypes ==
    ASSUME Typed, NEW s \in Clients
    PROVE  /\ stream[s].lcut \in Int /\ stream[s].behind \in 0..2
           /\ client[s].queue \in Int /\ client[s].seen \in Int
           /\ stream[s].lcut >= Nothing
<1>1. stream[s] \in StreamRecord /\ client[s] \in ClientRecord
  BY Zenon DEF Typed
<1>2. Versions \cup {Nothing} \subseteq Int /\ \A v \in Versions \cup {Nothing} : v >= Nothing
  BY Numbers DEF Versions, Nothing
<1>3. /\ stream[s].lcut \in Versions \cup {Nothing} /\ stream[s].behind \in 0..2
      /\ client[s].queue \in Versions \cup {Nothing} /\ client[s].seen \in Versions \cup {Nothing}
  BY <1>1, Zenon DEF StreamRecord, ClientRecord
<1> QED
  BY <1>2, <1>3, Zenon

LEMMA NewestFacts ==
    ASSUME Typed
    PROVE  /\ Newest \in Versions /\ Newest \in Int
           /\ store \in Int /\ store <= Newest /\ Nothing <= store
           /\ storing = Nothing => Newest = store
           /\ storing # Nothing => storing \in Int /\ storing <= Newest
  BY Numbers DEF Typed, Newest, Versions, Nothing

LEMMA AscendingCall ==
    ASSUME Typed, AscendingInv, NEW s \in Clients, Honest(s),
           Open(s) \/ Handle(s) \/ Read(s) \/ Disconnect(s)
    PROVE  Ascending(s)'
<1> DEFINE kept == channel.kept
<1>0. /\ Newest \in Int /\ store \in Int /\ kept \in 0..MaxVersion /\ store <= Newest
      /\ kept <= Newest /\ Ascending(s) /\ Nothing \in Int /\ Nothing <= store /\ MaxVersion \in Nat
  BY Numbers, NewestFacts DEF Typed, AscendingInv, Nothing
<1>f. Newest' = Newest /\ channel'.kept = kept
  BY OthersKept, Zenon DEF Newest
<1>g. /\ stream[s].lcut \in Int /\ stream[s].behind \in 0..2 /\ client[s].queue \in Int
      /\ client[s].seen \in Int /\ stream[s].lcut >= Nothing
  BY CallFieldTypes, Zenon
<1> HIDE DEF kept
<1>h. ASSUME stream'[s].lcut = stream[s].lcut, stream'[s].behind \in {0, stream[s].behind},
             stream'[s].pc \in {"idle", "init", "subscribe"} => stream'[s].behind = 0,
             client'[s].seen = client[s].seen,
             client'[s].queue \in {Nothing, client[s].queue, stream[s].lcut}
      PROVE  Ascending(s)'
  BY <1>0, <1>f, <1>g, <1>h DEF Ascending, kept
<1>i. ASSUME NEW payload, Sent(s, payload) \/ Gone(s)
      PROVE  /\ client'[s].seen = client[s].seen
             /\ client'[s].queue \in {Nothing, client[s].queue, stream[s].lcut}
  BY <1>i, SentFields, Zenon DEF Gone
<1>1. CASE Open(s)
  <2>1. stream[s].pc = "idle" /\ Goto(s, "init")
    BY <1>1, Zenon DEF Open
  <2>2. stream'[s].lcut = stream[s].lcut /\ stream'[s].behind = stream[s].behind
    BY <2>1, GotoFields, Zenon
  <2>3. client'[s].queue = Nothing /\ client'[s].seen = Nothing
    BY <1>1, FreshFields, Zenon
  <2> QED
    BY <1>0, <1>f, <1>g, <2>1, <2>2, <2>3 DEF Ascending
<1>2. CASE ReadInit(s)
  <2>1. stream[s].pc = "init" /\ client' = client
    BY <1>2, Zenon DEF ReadInit
  <2>2. client[s].queue = Nothing /\ client[s].seen = Nothing
    BY <2>1, Zenon DEF Honest
  <2>3. stream'[s].lcut = store /\ stream'[s].behind = stream[s].behind
    BY <1>2, ReadInitFields, Zenon
  <2> QED
    BY <1>0, <1>f, <1>g, <2>1, <2>2, <2>3 DEF Ascending
<1>3. CASE Receive(s)
  <2>1. client' = client /\ stream[s].behind > 0
    BY <1>3 DEF Receive
  <2>2. CASE kept = Close
    BY <1>3, <1>h, <2>1, <2>2, ReceiveFields, Zenon DEF kept
  <2>3. CASE kept # Close
    <3>1. /\ stream'[s].pc = "send" /\ stream'[s].lcut = kept /\ stream'[s].behind = 0
          /\ kept >= stream[s].lcut
      BY <1>0, <1>3, <2>1, <2>3, ReceiveFields, Zenon DEF kept, Ascending
    <3> QED
      BY <1>0, <1>f, <1>g, <2>1, <3>1 DEF Ascending
  <2> QED
    BY <2>2, <2>3, Zenon
<1>4. CASE Lagged(s)
  <2>1. client' = client
    BY <1>4, Zenon DEF Lagged
  <2> QED
    BY <1>4, <1>h, <2>1, ReadInitFields, Zenon
<1>5. CASE Subscribe(s) \/ Quiet(s)
  <2>1. client' = client /\ (Goto(s, "start") \/ Goto(s, "beat"))
    BY <1>5, Zenon DEF Subscribe, Quiet
  <2> QED
    BY <1>h, <2>1, GotoFields
<1>6. CASE Start(s) \/ Send(s) \/ Beat(s)
  <2>1. Goto(s, "listen") \/ Goto(s, "close")
    BY <1>6, Zenon DEF Start, Send, Beat
  <2>2. Sent(s, TRUE) \/ Sent(s, FALSE) \/ Gone(s)
    BY <1>6, Zenon DEF Start, Send, Beat
  <2>3. /\ stream'[s].pc \in {"listen", "close"} /\ stream'[s].lcut = stream[s].lcut
        /\ stream'[s].behind = stream[s].behind
    BY <2>1, GotoFields, Zenon
  <2>4. /\ client'[s].seen = client[s].seen
        /\ client'[s].queue \in {Nothing, client[s].queue, stream[s].lcut}
    BY <1>i, <2>2, Zenon
  <2> QED
    BY <1>h, <2>3, <2>4, Zenon
<1>7. CASE End(s)
  <2>1. /\ client'[s].queue = Nothing /\ client'[s].seen = Nothing
        /\ stream'[s].lcut = Nothing /\ stream'[s].behind = 0
    BY <1>7, FreshFields, Zenon
  <2> QED
    BY <1>0, <1>f, <2>1 DEF Ascending
<1>8. CASE Read(s)
  <2>1. stream' = stream /\ client[s].queue # Nothing
    BY <1>8, Zenon DEF Read
  <2>2. client'[s].queue = Nothing /\ client'[s].seen \in {client[s].queue, client[s].seen}
    BY <1>8, ReadFields, Zenon
  <2> QED
    BY <1>0, <1>f, <1>g, <2>1, <2>2, Zenon DEF Ascending, kept
<1>9. CASE Disconnect(s)
  <2>1. stream' = stream /\ client'[s].queue = Nothing /\ client'[s].seen = Nothing
    BY <1>9, FreshFields, Zenon DEF Disconnect
  <2> QED
    BY <1>0, <1>f, <1>g, <2>1, Zenon DEF Ascending, kept
<1> QED
  BY <1>1, <1>2, <1>3, <1>4, <1>5, <1>6, <1>7, <1>8, <1>9, Zenon DEF Handle

LEMMA AscendingServer ==
    ASSUME Typed, Typed', AscendingInv, setup.prompt, ~setup.stale,
           Notify \/ StoreUpdate \/ Fallback \/ Shutdown \/ (\E v \in Versions : Deliver(v))
    PROVE  AscendingInv'
<1>0. /\ Newest \in Int /\ channel.kept \in 0..MaxVersion /\ MaxVersion \in Nat
      /\ client' = client
      /\ \A s \in Clients : stream'[s].pc = stream[s].pc /\ stream'[s].lcut = stream[s].lcut
  BY Numbers, NewestFacts, ServerStep DEF Typed
<1>g. \A s \in Clients : /\ stream[s].lcut \in Int /\ stream[s].behind \in 0..2
                         /\ stream[s].lcut <= Newest
  BY CallFieldTypes, Zenon DEF AscendingInv, Ascending
<1>n. Newest' \in Int
  BY Numbers DEF Typed, Newest, Versions, Nothing
<1>1. CASE Notify \/ Fallback \/ StoreUpdate
  <2>1. channel' = channel /\ stream' = stream
    BY <1>1, Zenon DEF Notify, Fallback, StoreUpdate
  <2>2. Newest' >= Newest /\ updates' \subseteq {Newest'}
    <3>1. CASE Notify
      <4>1. storing = Nothing /\ updates = {}
        BY <3>1, Zenon DEF Notify, Polled
      <4>2. PICK v \in Versions : /\ v >= store \/ setup.stale
                                  /\ storing' = v /\ updates' \subseteq {v}
        BY <3>1, <4>1, Zenon DEF Notify
      <4>3. v >= store /\ store' = store /\ v \in Int
        BY <3>1, <4>2, Numbers DEF Notify, Versions
      <4>4. Newest' = v /\ Newest = store
        BY <4>1, <4>2, <4>3, NewestFacts DEF Newest
      <4> QED
        BY <4>2, <4>3, <4>4, Zenon
    <3>2. CASE Fallback
      <4>1. storing = Nothing /\ storing' = Nothing /\ updates' = {} /\ store' > store
        BY <3>2 DEF Fallback, Polled
      <4>2. Newest' = store' /\ Newest = store /\ store \in Int /\ store' \in Int
        BY <4>1, Numbers, NewestFacts DEF Newest, Typed, Versions, Nothing
      <4> QED
        BY <4>1, <4>2
    <3>3. CASE StoreUpdate
      <4>1. Newest' = Newest /\ updates' = updates
        BY <3>3, Numbers DEF StoreUpdate, Newest, Typed, Versions, Nothing
      <4> QED
        BY <1>0, <4>1 DEF AscendingInv
    <3> QED
      BY <1>1, <3>1, <3>2, <3>3, Zenon
  <2> QED
    BY <1>0, <1>g, <1>n, <2>1, <2>2 DEF AscendingInv, Ascending
<1>3. ASSUME NEW m \in {Close, Newest}, Newest' = Newest, updates' \subseteq updates,
             channel'.kept \in {channel.kept, m},
             \A s \in Clients : stream'[s].behind # stream[s].behind =>
               Subscribed(s) /\ channel'.kept = m
      PROVE  AscendingInv'
  <2>a. channel.kept <= Newest /\ updates \subseteq {Newest}
    BY Zenon DEF AscendingInv
  <2>b. Close <= Newest /\ Newest <= Newest
    BY <1>0, NewestFacts, Numbers DEF Close, Versions
  <2>c. channel'.kept <= Newest
    BY <1>3, <2>a, <2>b, Zenon
  <2>1. channel'.kept <= Newest' /\ updates' \subseteq {Newest'}
    BY <1>3, <2>a, <2>c, Zenon
  <2>2. ASSUME NEW s \in Clients
        PROVE  Ascending(s)'
    <3>1. Ascending(s)
      BY Zenon DEF AscendingInv
    <3>2. stream'[s].pc \in {"idle", "init", "subscribe"} => stream'[s].behind = 0
      BY <1>0, <1>3, <3>1, Zenon DEF Ascending, Subscribed
    <3>3. stream'[s].behind > 0 => channel'.kept = Close \/ channel'.kept >= stream'[s].lcut
      <4>1. CASE channel'.kept = m
        BY <1>0, <1>3, <1>g, <4>1, Zenon
      <4>2. CASE channel'.kept # m
        <5>1. stream'[s].behind = stream[s].behind /\ channel'.kept = channel.kept
          BY <1>3, <4>2, Zenon
        <5> QED
          BY <1>0, <3>1, <5>1, Zenon DEF Ascending
      <4> QED
        BY <4>1, <4>2, Zenon
    <3> QED
      BY <1>0, <1>3, <1>g, <3>1, <3>2, <3>3, Zenon DEF Ascending
  <2> QED
    BY <2>1, <2>2, Zenon DEF AscendingInv
<1>4. CASE Shutdown
  <2>1. Close \in 0..MaxVersion /\ channel.last \in 0..MaxVersion /\ Broadcast(Close, channel.last)
    BY <1>4, Numbers DEF Close, Typed, Shutdown
  <2>2. /\ channel'.kept \in {channel.kept, Close}
        /\ \A s \in Clients : stream'[s].behind # stream[s].behind =>
             Subscribed(s) /\ channel'.kept = Close
    BY <2>1, BroadcastTyped, Zenon
  <2> QED
    BY <1>3, <1>4, <2>2, Zenon DEF Shutdown, fetch, Newest
<1>5. ASSUME NEW v \in Versions, Deliver(v)
      PROVE  AscendingInv'
  <2>1. v = Newest
    BY <1>5, Zenon DEF Deliver, AscendingInv
  <2>2. CASE IsNewer(v)
    <3>1. v \in 0..MaxVersion /\ Broadcast(v, v)
      BY <1>5, <2>2, Numbers, Zenon DEF Deliver
    <3>2. /\ channel'.kept \in {channel.kept, v}
          /\ \A s \in Clients : stream'[s].behind # stream[s].behind =>
               Subscribed(s) /\ channel'.kept = v
      BY <3>1, BroadcastTyped, Zenon
    <3> QED
      BY <1>3, <1>5, <2>1, <3>2, Zenon DEF Deliver, fetch, Newest
  <2>3. CASE ~IsNewer(v)
    BY <1>3, <1>5, <2>3, Zenon DEF Deliver, fetch, Newest
  <2> QED
    BY <2>2, <2>3, Zenon
<1> QED
  BY <1>1, <1>4, <1>5, Zenon

PromptInv == setup.prompt /\ ~setup.stale => AscendingInv

LEMMA AscendingStep == Typed /\ HonestInv /\ PromptInv /\ [Next]_vars => PromptInv'
<1> SUFFICES ASSUME Typed, HonestInv, PromptInv, [Next]_vars,
                    setup'.prompt, ~setup'.stale
             PROVE  AscendingInv'
  BY Zenon DEF PromptInv
<1>1. ASSUME NEW s \in Clients, Open(s) \/ Handle(s) \/ Read(s) \/ Disconnect(s)
      PROVE  AscendingInv'
  <2>1. /\ \A q \in Clients \ {s} : stream'[q] = stream[q] /\ client'[q] = client[q]
        /\ Newest' = Newest /\ updates' = updates
        /\ channel'.kept = channel.kept /\ setup' = setup
    BY <1>1, OthersKept, Zenon DEF Newest
  <2>2. AscendingInv
    BY <2>1, Zenon DEF PromptInv
  <2>3. Ascending(s)'
    BY <1>1, <2>2, AscendingCall, Zenon DEF HonestInv
  <2>4. \A q \in Clients \ {s} : Ascending(q)'
    BY <2>1, <2>2, Zenon DEF AscendingInv, Ascending
  <2> QED
    BY <2>1, <2>2, <2>3, <2>4, Zenon DEF AscendingInv
<1>2. CASE Notify \/ StoreUpdate \/ Fallback \/ Shutdown \/ (\E v \in Versions : Deliver(v))
  <2>1. setup' = setup
    BY <1>2, Zenon DEF Notify, StoreUpdate, Fallback, Shutdown, Deliver
  <2> QED
    BY <1>2, <2>1, AscendingServer, StepTyped, Zenon DEF PromptInv
<1>3. CASE UNCHANGED vars
  BY <1>3, Zenon DEF vars, fetch, Newest, PromptInv, AscendingInv, Ascending
<1> QED
  BY <1>1, <1>2, <1>3, Zenon DEF Next

LEMMA AscendingInit == Init => PromptInv
<1> SUFFICES ASSUME Init PROVE AscendingInv
  BY Zenon DEF PromptInv
<1>1. \A s \in Clients : stream[s] = NoStream /\ client[s] = NoClient
  BY Zenon DEF Init
<1>2. \A s \in Clients : Ascending(s)
  BY <1>1 DEF Ascending, NoStream, NoClient, Nothing, Newest, Init
<1> QED
  BY <1>2 DEF Init, AscendingInv, Newest, Nothing

-----------------------------------------------------------------------------
(* The updates of a stream, whatever the edges and the observers do *)

\* last_updated bounds the updates that are on their way: the one the client read
\* last, the one in its queue and the one the task holds, in this order.
Chained(s) ==
  /\ client[s].updated => client[s].seen # Nothing /\ client[s].seen <= channel.last
  /\ client[s].queue # Nothing /\ client[s].payload /\ client[s].seen # Nothing =>
       /\ client[s].queue <= channel.last
       /\ client[s].updated => client[s].seen <= client[s].queue
  /\ stream[s].pc = "send" =>
       /\ stream[s].lcut <= channel.last
       /\ client[s].updated => client[s].seen <= stream[s].lcut
       /\ client[s].queue # Nothing /\ client[s].payload /\ client[s].seen # Nothing =>
            client[s].queue <= stream[s].lcut

ChainInv ==
  /\ channel.kept \in {Close, channel.last}
  /\ \A s \in Clients : Chained(s)

LEMMA ChainCall ==
    ASSUME Typed, ChainInv, NEW s \in Clients, Honest(s),
           Open(s) \/ Handle(s) \/ Read(s) \/ Disconnect(s)
    PROVE  Chained(s)'
<1>0. Chained(s) /\ channel'.last = channel.last
  BY OthersKept, Zenon DEF ChainInv
<1>1. CASE Open(s) \/ End(s)
  <2>1. client'[s].queue = Nothing /\ client'[s].seen = Nothing /\ ~client'[s].updated
    BY <1>1, FreshFields, Zenon
  <2>2. stream'[s].pc # "send"
    <3>1. CASE Open(s)
      BY <3>1, GotoFields, Zenon DEF Open
    <3>2. CASE End(s)
      BY <3>2, FreshFields, Zenon
    <3> QED
      BY <1>1, <3>1, <3>2, Zenon
  <2> QED
    BY <2>1, <2>2, Zenon DEF Chained
<1>2. CASE Disconnect(s)
  <2>1. /\ client'[s].queue = Nothing /\ client'[s].seen = Nothing /\ ~client'[s].updated
        /\ stream' = stream
    BY <1>2, FreshFields, Zenon DEF Disconnect
  <2> QED
    BY <1>0, <2>1, Zenon DEF Chained
<1>3. CASE ReadInit(s) \/ Subscribe(s) \/ Lagged(s) \/ Quiet(s)
  <2>1. client' = client
    BY <1>3, Zenon DEF ReadInit, Subscribe, Lagged, Quiet
  <2>2. stream'[s].pc # "send"
    <3>1. CASE ReadInit(s)
      BY <3>1, ReadInitFields, Zenon
    <3>2. CASE Subscribe(s)
      BY <3>2, GotoFields, Zenon DEF Subscribe
    <3>3. CASE Lagged(s)
      BY <3>3, ReadInitFields, Zenon DEF Lagged
    <3>4. CASE Quiet(s)
      BY <3>4, GotoFields, Zenon DEF Quiet
    <3> QED
      BY <1>3, <3>1, <3>2, <3>3, <3>4, Zenon
  <2> QED
    BY <1>0, <2>1, <2>2, Zenon DEF Chained
<1>4. CASE Receive(s)
  <2>1. client' = client
    BY <1>4, Zenon DEF Receive
  <2>2. stream'[s].pc = "send" => stream'[s].lcut = channel.last
    BY <1>4, ReceiveFields, Zenon DEF ChainInv
  <2>3. channel.last <= channel.last
    BY Numbers DEF Typed
  <2> QED
    BY <1>0, <2>1, <2>2, <2>3, Zenon DEF Chained
<1>5. CASE Start(s) \/ Send(s) \/ Beat(s)
  <2>1. stream'[s].pc # "send"
    <3>1. Goto(s, "listen") \/ Goto(s, "close")
      BY <1>5, Zenon DEF Start, Send, Beat
    <3>2. stream'[s].pc \in {"listen", "close"}
      BY <3>1, GotoFields, Zenon
    <3> QED
      BY <3>2
  <2>2. CASE Gone(s)
    BY <1>0, <2>1, <2>2, Zenon DEF Gone, Chained
  <2>3. ASSUME NEW payload, Sent(s, payload),
               payload => client[s].seen = Nothing \/ stream[s].pc = "send"
        PROVE  Chained(s)'
    <3>1. /\ client'[s].queue = stream[s].lcut /\ client'[s].payload = payload
          /\ client'[s].seen = client[s].seen /\ client'[s].updated = client[s].updated
      BY <2>3, SentFields, Zenon
    <3> QED
      BY <1>0, <2>1, <2>3, <3>1, Zenon DEF Chained
  <2>4. Start(s) => client[s].seen = Nothing
    BY Zenon DEF Start, Honest
  <2>5. Sent(s, TRUE) \/ Gone(s) \/ Sent(s, FALSE)
    BY <1>5, Zenon DEF Start, Send, Beat
  <2> QED
    BY <1>5, <2>2, <2>3, <2>4, <2>5, Zenon DEF Start, Send, Beat
<1>6. CASE Read(s)
  <2>1. stream' = stream /\ client[s].queue # Nothing
    BY <1>6, Zenon DEF Read
  <2>2. client'[s].queue = Nothing
    BY <1>6, ReadFields, Zenon
  <2>3. CASE client[s].payload
    <3>1. client'[s].seen = client[s].queue /\ client'[s].updated = (client[s].seen # Nothing)
      BY <1>6, <2>3, ReadFields, Zenon
    <3> QED
      BY <1>0, <2>1, <2>2, <2>3, <3>1, Zenon DEF Chained
  <2>4. CASE ~client[s].payload
    <3>1. client'[s].seen = client[s].seen /\ client'[s].updated = client[s].updated
      BY <1>6, <2>4, ReadFields, Zenon
    <3> QED
      BY <1>0, <2>1, <2>2, <3>1, Zenon DEF Chained
  <2> QED
    BY <2>3, <2>4, Zenon
<1> QED
  BY <1>1, <1>2, <1>3, <1>4, <1>5, <1>6, Zenon DEF Handle

\* last_updated only grows, and what the channel keeps is its version or Close.
LEMMA ChainServer ==
    ASSUME Typed, ChainInv,
           Notify \/ StoreUpdate \/ Fallback \/ Shutdown \/ (\E v \in Versions : Deliver(v))
    PROVE  ChainInv'
<1>1. channel'.kept \in {Close, channel'.last} /\ channel'.last \in Int /\ channel.last \in Int
      /\ channel'.last >= channel.last
  <2>0. channel.last \in 0..MaxVersion /\ channel.kept \in {Close, channel.last} /\ MaxVersion \in Nat
    BY Numbers DEF Typed, ChainInv
  <2>1. CASE channel' = channel
    BY <2>0, <2>1
  <2>2. CASE Shutdown
    <3>1. Close \in 0..MaxVersion /\ Broadcast(Close, channel.last)
      BY <2>0, <2>2 DEF Close, Shutdown
    <3>2. channel' = channel \/ (channel'.kept = Close /\ channel'.last = channel.last)
      BY <2>0, <3>1, BroadcastTyped, Zenon
    <3> QED
      BY <2>0, <2>1, <3>2
  <2>3. ASSUME NEW v \in Versions, Deliver(v), IsNewer(v)
        PROVE  /\ channel'.kept \in {Close, channel'.last} /\ channel'.last \in Int
               /\ channel'.last >= channel.last
    <3>1. v \in 0..MaxVersion /\ Broadcast(v, v) /\ v > channel.last
      BY <2>3, Numbers, Zenon DEF Deliver, IsNewer
    <3>2. channel' = channel \/ (channel'.kept = v /\ channel'.last = v)
      BY <3>1, BroadcastTyped, Zenon
    <3> QED
      BY <2>0, <2>1, <3>1, <3>2
  <2>4. Notify \/ StoreUpdate \/ Fallback => channel' = channel
    BY Zenon DEF Notify, StoreUpdate, Fallback
  <2>5. \A v \in Versions : Deliver(v) /\ ~IsNewer(v) => channel' = channel
    BY Zenon DEF Deliver
  <2> QED
    BY <2>0, <2>1, <2>2, <2>3, <2>4, <2>5
<1>2. ASSUME NEW s \in Clients
      PROVE  Chained(s)'
  <2>1. /\ client'[s] = client[s]
        /\ stream'[s].pc = stream[s].pc /\ stream'[s].lcut = stream[s].lcut
    BY ServerStep, Zenon
  <2>2. Chained(s)
    BY Zenon DEF ChainInv
  <2>3. \A x \in Int : x <= channel.last => x <= channel'.last
    BY <1>1
  <2>4. stream[s].lcut \in Int /\ client[s].queue \in Int /\ client[s].seen \in Int
    BY CallFieldTypes, Zenon
  <2> QED
    BY <2>1, <2>2, <2>3, <2>4, Zenon DEF Chained
<1> QED
  BY <1>1, <1>2, Zenon DEF ChainInv

LEMMA ChainStep == Typed /\ HonestInv /\ ChainInv /\ [Next]_vars => ChainInv'
<1> SUFFICES ASSUME Typed, HonestInv, ChainInv, [Next]_vars PROVE ChainInv'
  BY Zenon
<1>1. ASSUME NEW s \in Clients, Open(s) \/ Handle(s) \/ Read(s) \/ Disconnect(s)
      PROVE  ChainInv'
  <2>1. /\ \A q \in Clients \ {s} : stream'[q] = stream[q] /\ client'[q] = client[q]
        /\ channel'.kept = channel.kept /\ channel'.last = channel.last
    BY <1>1, OthersKept, Zenon
  <2>2. Chained(s)'
    BY <1>1, ChainCall, Zenon DEF HonestInv
  <2>3. \A q \in Clients \ {s} : Chained(q)'
    BY <2>1, Zenon DEF ChainInv, Chained
  <2> QED
    BY <2>1, <2>2, <2>3, Zenon DEF ChainInv
<1>2. CASE UNCHANGED vars
  BY <1>2, Zenon DEF vars, ChainInv, Chained
<1> QED
  BY <1>1, <1>2, ChainServer, Zenon DEF Next

LEMMA ChainInit == Init => ChainInv
<1> SUFFICES ASSUME Init PROVE ChainInv
  BY Zenon
<1>1. channel.kept = 0
  BY Zenon DEF Init
<1>2. \A s \in Clients : stream[s] = NoStream /\ client[s] = NoClient
  BY Zenon DEF Init
<1>3. \A s \in Clients : Chained(s)
  BY <1>2 DEF Chained, NoStream, NoClient, Nothing
<1> QED
  BY <1>1, <1>3 DEF ChainInv, Close

LEMMA StreamAlways == Spec => [](Typed /\ HonestInv /\ PromptInv /\ ChainInv)
  BY InitTyped, StepTyped, HonestInit, HonestStep, AscendingInit, AscendingStep, ChainInit,
     ChainStep, PTL DEF Spec

\* A heartbeat that is in a client's queue names the version whose payload the
\* client read last, whatever the order of broadcasts, lags, sends and reads: the
\* task only falls silent after its payload has been put into the queue, and the
\* queue has room for one.
THEOREM HeartbeatsHonest == Spec => []HeartbeatHonest
<1>1. HonestInv => HeartbeatHonest
  BY Zenon DEF HonestInv, Honest, HeartbeatHonest
<1> QED
  BY <1>1, StreamAlways, PTL

\* A client never reads an older update after a newer one on the same stream, across
\* lags and resubscriptions, whichever edge answers the polls and in whatever order
\* the asynchronous observers of the fetches come to the channel; and as long as the
\* edges are up to date and the observers prompt, no update is behind the first
\* payload either, backups that were stored without a broadcast included.
THEOREM NeverBack == Spec => StreamForward
<1>1. ASSUME Typed, HonestInv, PromptInv, ChainInv, [Next]_vars
      PROVE  [\A s \in Clients :
                /\ client[s].seen # Nothing /\ client'[s].seen # Nothing
                /\ client[s].updated \/ (setup.prompt /\ ~setup.stale)
                => client'[s].seen >= client[s].seen]_vars
  <2> SUFFICES ASSUME NEW s \in Clients, client[s].seen # Nothing, client'[s].seen # Nothing,
                      client[s].updated \/ (setup.prompt /\ ~setup.stale)
               PROVE  client'[s].seen >= client[s].seen
    BY Zenon
  <2>1. client[s].queue \in Int /\ client[s].seen \in Int
    BY <1>1, CallFieldTypes, Zenon
  <2>4. client[s].queue # Nothing /\ client[s].payload => client[s].seen <= client[s].queue
    <3>1. CASE client[s].updated
      BY <1>1, <3>1, Zenon DEF ChainInv, Chained
    <3>2. CASE setup.prompt /\ ~setup.stale
      BY <1>1, <3>2, Zenon DEF PromptInv, AscendingInv, Ascending
    <3> QED
      BY <3>1, <3>2, Zenon
  <2>2. client'[s].seen = client[s].seen \/
          (client[s].payload /\ client[s].queue # Nothing /\ client'[s].seen = client[s].queue)
    <3>1. ASSUME NEW q \in Clients, Open(q) \/ Handle(q) \/ Read(q) \/ Disconnect(q), q # s
          PROVE  client'[s].seen = client[s].seen
      BY <1>1, <3>1, OthersKept, Zenon
    <3>2. CASE Open(s) \/ End(s) \/ Disconnect(s)
      BY <1>1, <3>2, FreshFields, Zenon
    <3>3. CASE Start(s) \/ Send(s) \/ Beat(s)
      <4>1. Sent(s, TRUE) \/ Sent(s, FALSE) \/ Gone(s)
        BY <3>3, Zenon DEF Start, Send, Beat
      <4> QED
        BY <1>1, <4>1, SentFields, Zenon DEF Gone
    <3>4. CASE ReadInit(s) \/ Subscribe(s) \/ Receive(s) \/ Lagged(s) \/ Quiet(s)
      BY <3>4, Zenon DEF ReadInit, Subscribe, Receive, Lagged, Quiet
    <3>5. CASE Read(s)
      BY <1>1, <3>5, ReadFields, Zenon DEF Read
    <3>6. CASE Notify \/ StoreUpdate \/ Fallback \/ Shutdown \/ (\E v \in Versions : Deliver(v))
      BY <1>1, <3>6, ServerStep, Zenon
    <3>7. CASE UNCHANGED vars
      BY <3>7, Zenon DEF vars
    <3> QED
      BY <1>1, <3>1, <3>2, <3>3, <3>4, <3>5, <3>6, <3>7, Zenon DEF Next, Handle
  <2> QED
    BY <2>1, <2>2, <2>4
<1> QED
  BY <1>1, StreamAlways, PTL DEF Spec, StreamForward
=============================================================================
