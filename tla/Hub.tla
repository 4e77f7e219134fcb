--------------------------------- MODULE Hub ---------------------------------
(***************************************************************************)
(* Packages hub and wshub on the server: the hub's goroutine routes the    *)
(* messages of all connections to a service, which answers on the          *)
(* connection's own channel.  All channels are bounded, and a send to a    *)
(* full one blocks its goroutine.                                          *)
(*                                                                         *)
(* A websocket connection has two goroutines, a reader that sends to the   *)
(* hub and a writer that drains its channel; they end apart.  A one-off    *)
(* caller (hub.Req) sends one request and waits for the answer or for its  *)
(* timeout.  The service stands for the event server: it handles its input *)
(* one message at a time, and a timer makes it send an update to some of   *)
(* its subscribers now and then.  It keeps them by the id of their         *)
(* connection, and one-off callers share theirs.  Contents, tokens and     *)
(* users are left out, and so are topics and monitors: of them the model   *)
(* keeps which client holds too much for its signoff to drop it.           *)
(***************************************************************************)
EXTENDS Integers, FiniteSets, SequencesExt

CONSTANTS Clients,   \* websocket connections, each used once
          Callers,   \* one-off connections of hub.Req
          MsgCap,    \* capacity of the hub's channel (128)
          InputCap,  \* capacity of the service's input (64)
          ConnCap    \* capacity of a websocket connection's channel (32)

ASSUME CapsAssumption ==
    /\ Clients \cap Callers = {}
    /\ MsgCap \in Nat \ {0} /\ InputCap \in Nat \ {0} /\ ConnCap \in Nat \ {0}

Conns  == Clients \cup Callers
Cap(c) == IF c \in Callers THEN 1 ELSE ConnCap

VARIABLES msgs,    \* the hub's channel
          routing, \* the message the hub is routing, if any
          parting, \* the connection the hub is sending nil to, if any
          running, \* the hub's goroutine has not returned
          conns,   \* the hub's connections
          input,   \* the service's input channel
          sends,   \* what the service has yet to send: answers and updates
          subs,    \* connections the service sends updates to
          stays,   \* those of them that a signoff does not drop
          left,    \* connections whose signoff the service handled
          ch,      \* the channel of each connection
          reader,  \* what the reader or caller of each connection does
          writer,  \* what the writer of each client does
          closed   \* clients whose websocket is closed

hubVars  == <<msgs, routing, parting, running, conns>>
servVars == <<input, sends, subs, stays, left>>
vars == <<hubVars, servVars, ch, reader, writer, closed>>

Subjs == {"_signon", "req", "_signoff"}
Msgs  == [from : Conns, subj : Subjs]
Bcast == [subj |-> "_bcast"]
Outs  == [to : Conns, msg : {"res", "update"}]

Init ==
    /\ msgs = << >> /\ routing = {} /\ parting = {} /\ running = TRUE /\ conns = {}
    /\ input = << >> /\ sends = << >> /\ subs = {} /\ stays = {} /\ left = {}
    /\ ch = [c \in Conns |-> << >>]
    /\ reader = [c \in Conns |-> "new"]
    /\ writer = [c \in Clients |-> "none"]
    /\ closed = {}

\* Mutant of Room: the sender does not wait.
NoLimit == TRUE

\* The hub's channel takes another message.
Room == Len(msgs) < MsgCap

\* Sends to the hub, of the goroutine that is at the state at and goes on to next.
Route(c, at, subj, next) ==
    /\ reader[c] = at
    /\ Room
    /\ msgs' = Append(msgs, [from |-> c, subj |-> subj])
    /\ reader' = [reader EXCEPT ![c] = next]

Put(c, m) == Len(ch[c]) < Cap(c) /\ ch' = [ch EXCEPT ![c] = Append(@, m)]

-----------------------------------------------------------------------------
(* ServeHTTP and readAll of a client. *)

\* The connection is announced before its writer starts.
SignOn(c) ==
    /\ Route(c, "new", "_signon", "read")
    /\ writer' = [writer EXCEPT ![c] = "run"]
    /\ UNCHANGED <<routing, parting, running, conns, servVars, ch, closed>>

ReadMsg(c) ==
    /\ reader[c] = "read" /\ c \notin closed
    /\ reader' = [reader EXCEPT ![c] = "send"]
    /\ UNCHANGED <<hubVars, servVars, ch, writer, closed>>

PassOn(c) ==
    /\ Route(c, "send", "req", "read")
    /\ UNCHANGED <<routing, parting, running, conns, servVars, ch, writer, closed>>

\* The client goes away, sends a private message, or the writer closed the socket.
ReadEnds(c) ==
    /\ reader[c] = "read"
    /\ reader' = [reader EXCEPT ![c] = "signoff"]
    /\ closed' \in {closed, closed \cup {c}}
    /\ UNCHANGED <<hubVars, servVars, ch, writer>>

SignOff(c) ==
    /\ Route(c, "signoff", "_signoff", "done")
    /\ UNCHANGED <<routing, parting, running, conns, servVars, ch, writer, closed>>

(* writeAll of a client. *)

\* Mutant of Write: one goroutine reads and writes, and waits to send.
WriteBetweenReads(c) ==
    /\ writer[c] = "run" /\ ch[c] # << >> /\ reader[c] # "send"
    /\ ch' = [ch EXCEPT ![c] = Tail(@)]
    /\ \/ Head(ch[c]) = "msg" /\ UNCHANGED <<writer, closed>>
       \/ writer' = [writer EXCEPT ![c] = "done"] /\ closed' = closed \cup {c}
    /\ UNCHANGED <<hubVars, servVars, reader>>

\* nil ends the writer, and so does a failing write; both close the socket.
Write(c) ==
    /\ writer[c] = "run" /\ ch[c] # << >>
    /\ ch' = [ch EXCEPT ![c] = Tail(@)]
    /\ \/ Head(ch[c]) = "msg" /\ UNCHANGED <<writer, closed>>
       \/ writer' = [writer EXCEPT ![c] = "done"] /\ closed' = closed \cup {c}
    /\ UNCHANGED <<hubVars, servVars, reader>>

\* A ping fails, or the context was cancelled when ServeHTTP returned.
WriterEnds(c) ==
    /\ writer[c] = "run"
    /\ writer' = [writer EXCEPT ![c] = "done"]
    /\ closed' = closed \cup {c}
    /\ UNCHANGED <<hubVars, servVars, ch, reader>>

(* hub.Req of a one-off caller. *)

CallerSends(c) ==
    /\ Route(c, "new", "req", "wait")
    /\ UNCHANGED <<routing, parting, running, conns, servVars, ch, writer, closed>>

\* Mutant of CallerReturns: it has no timeout.
CallerWaits(c) ==
    /\ reader[c] = "wait" /\ ch[c] # << >>
    /\ reader' = [reader EXCEPT ![c] = "done"]
    /\ ch' = [ch EXCEPT ![c] = Tail(@)]
    /\ UNCHANGED <<hubVars, servVars, writer, closed>>

CallerReturns(c) ==
    /\ reader[c] = "wait"
    /\ reader' = [reader EXCEPT ![c] = "done"]
    /\ \/ ch[c] # << >> /\ ch' = [ch EXCEPT ![c] = Tail(@)]
       \/ UNCHANGED ch    \* timeout
    /\ UNCHANGED <<hubVars, servVars, writer, closed>>

-----------------------------------------------------------------------------
(* Hub.Run. *)

\* The service's router lets signoffs and requests through.
Take ==
    /\ running /\ routing = {} /\ parting = {} /\ msgs # << >>
    /\ msgs' = Tail(msgs)
    /\ LET m == Head(msgs)
       IN  IF m.subj = "_signon"
           THEN conns' = conns \cup {m.from} /\ UNCHANGED routing
           ELSE routing' = {m} /\ UNCHANGED conns
    /\ UNCHANGED <<parting, running, servVars, ch, reader, writer, closed>>

\* Mutants of Leaves: the hub takes every message for the last, or none.
LeavesAlways(m) == m.from \in Clients
LeavesNever(m)  == FALSE

Leaves(m) == m.subj = "_signoff"

Deliver(m) ==
    /\ m \in routing /\ Len(input) < InputCap
    /\ input' = Append(input, m)
    /\ routing' = {}
    /\ IF Leaves(m)
       THEN conns' = conns \ {m.from} /\ parting' = {m.from}
       ELSE UNCHANGED <<conns, parting>>
    /\ UNCHANGED <<msgs, running, sends, subs, stays, left, ch, reader, writer, closed>>

Part(c) ==
    /\ c \in parting
    /\ Put(c, "nil")
    /\ parting' = {}
    /\ UNCHANGED <<msgs, routing, running, conns, servVars, reader, writer, closed>>

\* The host cancels the hub's context or sends it nil.
HubStops ==
    /\ running /\ routing = {} /\ parting = {}
    /\ running' = FALSE
    /\ UNCHANGED <<msgs, routing, parting, conns, servVars, ch, reader, writer, closed>>

-----------------------------------------------------------------------------
(* The service: Server.Run and Services.Handle. *)

Answer(c) == [to |-> c, msg |-> "res"]
Update(c) == [to |-> c, msg |-> "update"]

\* The connections with the id of c, and the one of them the service keeps when
\* c subscribes: who came first.
Same(c)   == IF c \in Callers THEN Callers ELSE {c}
Stored(c) == IF subs \cap Same(c) = {} THEN {c} ELSE subs \cap Same(c)

\* Topics or a monitor are asked for; from then on c may hold a monitor or more
\* than two topics.
Subscribes(c) ==
    /\ subs' = subs \cup Stored(c)
    /\ stays' \in {stays, stays \cup ({c} \cap Clients)}

\* Topics or a monitor are given up, some or all that c's id holds, or nothing is
\* asked of the registry.
GivesUp(c) ==
    /\ subs' \in {subs, subs \ Same(c)}
    /\ stays' \in {stays, stays \ {c}} /\ stays' \subseteq subs'

\* Mutant of Replies: an error is sent besides the reply.
RepliesTwice(m) == {<< >>, <<Answer(m.from)>>, <<Answer(m.from), Answer(m.from)>>}

\* A service replies at most once.
Replies(m) == {<< >>, <<Answer(m.from)>>}

\* What waits for the subscriber with the publisher's id is flushed to it before
\* the publication is answered (evt/srv.go:83).
Flushes(m) == {<<Update(d), Answer(m.from)>> : d \in subs \cap Same(m.from)}

\* Mutant of Others: a connection that signed off is kept.
Everyone(c) == subs

\* A signoff gives up all topics by a loop that ends before the third, and no
\* monitor; a connection that has one of them left is kept.
Others(c) == subs \ ({c} \ stays)

Handle ==
    /\ sends = << >> /\ input # << >>
    /\ input' = Tail(input)
    /\ LET m == Head(input)
       IN  \/ /\ m = Bcast
              /\ \E cs \in SUBSET subs : sends' \in SetToSeqs({Update(c) : c \in cs})
              /\ UNCHANGED <<subs, stays, left>>
           \/ /\ m.subj = "req"
              /\ \/ sends' \in Replies(m) /\ (Subscribes(m.from) \/ GivesUp(m.from))
                 \/ sends' \in Flushes(m) /\ UNCHANGED <<subs, stays>>
              /\ UNCHANGED left
           \/ /\ m.subj = "_signoff"
              /\ subs' = Others(m.from)
              /\ left' = left \cup {m.from}
              /\ UNCHANGED <<sends, stays>>
    /\ UNCHANGED <<hubVars, ch, reader, writer, closed>>

Reply ==
    /\ sends # << >>
    /\ Put(Head(sends).to, "msg")
    /\ sends' = Tail(sends)
    /\ UNCHANGED <<hubVars, input, subs, stays, left, reader, writer, closed>>

\* The throttled timer has one broadcast on its way at a time.
TimerFires ==
    /\ Len(input) < InputCap /\ Bcast \notin ToSet(input)
    /\ input' = Append(input, Bcast)
    /\ UNCHANGED <<hubVars, sends, subs, stays, left, ch, reader, writer, closed>>

-----------------------------------------------------------------------------
Next ==
    \/ \E c \in Clients : \/ SignOn(c) \/ ReadMsg(c) \/ PassOn(c) \/ ReadEnds(c) \/ SignOff(c)
                          \/ Write(c) \/ WriterEnds(c)
    \/ \E c \in Callers : CallerSends(c) \/ CallerReturns(c)
    \/ Take \/ (\E m \in Msgs : Deliver(m)) \/ (\E c \in Conns : Part(c)) \/ HubStops
    \/ Handle \/ Reply \/ TimerFires

\* Goroutines run on; a goroutine that waits to send on a channel is served in
\* its turn.  A reader notices a closed socket, a writer its cancelled context.
Fairness ==
    /\ \A c \in Clients : /\ SF_vars(PassOn(c)) /\ SF_vars(SignOff(c)) /\ WF_vars(Write(c))
                          /\ WF_vars(c \in closed /\ ReadEnds(c))
                          /\ WF_vars(reader[c] = "done" /\ WriterEnds(c))
    /\ \A c \in Callers : SF_vars(CallerSends(c)) /\ WF_vars(CallerReturns(c))
    /\ WF_vars(Take) /\ SF_vars(\E m \in Msgs : Deliver(m)) /\ SF_vars(\E c \in Conns : Part(c))
    /\ WF_vars(Handle) /\ SF_vars(Reply)

Spec     == Init /\ [][Next]_vars
FairSpec == Spec /\ Fairness

-----------------------------------------------------------------------------
Readers == {"new", "read", "send", "signoff", "wait", "done"}

\* The channels keep their capacity, the goroutines their states.
TypeOK ==
    /\ msgs \in Seq(Msgs) /\ Len(msgs) <= MsgCap
    /\ routing \subseteq Msgs /\ Cardinality(routing) <= 1
    /\ parting \subseteq Clients /\ Cardinality(parting) <= 1
    /\ running \in BOOLEAN /\ conns \subseteq Clients
    /\ input \in Seq(Msgs \cup {Bcast}) /\ Len(input) <= InputCap
    /\ sends \in Seq(Outs) /\ subs \subseteq Conns
    /\ stays \subseteq subs \cap Clients /\ left \subseteq Clients
    /\ ch \in [Conns -> Seq({"msg", "nil"})] /\ \A c \in Conns : Len(ch[c]) <= Cap(c)
    /\ reader \in [Conns -> Readers] /\ writer \in [Clients -> {"none", "run", "done"}]
    /\ closed \subseteq Clients

\* What a connection sent that the service has yet to take.
OnTheWay == ToSet(msgs) \cup routing \cup (ToSet(input) \ {Bcast})

\* A signoff is the last the service hears of a connection, so nothing brings it
\* back into the registry: who the service goes on sending to are those whose
\* signoff left a monitor or a topic behind (subs.go:147), nobody else.
SignoffLast ==
    \A c \in left :
        /\ \A m \in OnTheWay : m.from # c
        /\ c \in subs \/ (\E o \in ToSet(sends) : o.to = c) => c \in stays

\* The hub knows every client whose message it routes, and keeps no other: a
\* connection it knows still has its signoff to come.
ConnsKnown ==
    /\ \A m \in routing : m.from \in Clients => m.from \in conns
    /\ \A c \in conns : reader[c] = "done" =>
           [from |-> c, subj |-> "_signoff"] \in ToSet(msgs) \cup routing

\* The hub's nil is sent once and only after the signoff (conn.go:26-28), so a
\* writer never drops what its reader asked for by taking an early nil.
NilAfterSignoff ==
    \A c \in Clients : \A i \in DOMAIN ch[c] :
        ch[c][i] = "nil" =>
            /\ reader[c] = "done" /\ c \notin conns \cup parting
            /\ \A j \in DOMAIN ch[c] : ch[c][j] = "nil" => j = i

\* The answer to a one-off request finds its caller's one place free, however
\* late it comes and though a caller that subscribed is sent updates as well: the
\* service never waits with an answer for a caller that is gone.
LateReplyFits ==
    sends # << >> /\ Head(sends).msg = "res" /\ Head(sends).to \in Callers =>
        ch[Head(sends).to] = << >>

\* Somebody waits to send to a connection that is full and nobody drains: its
\* writer ended, or it is a one-off caller that returned.
Abandoned(d) ==
    /\ Len(ch[d]) = Cap(d)
    /\ IF d \in Callers THEN reader[d] = "done" ELSE writer[d] = "done"
    /\ d \in parting \/ (sends # << >> /\ Head(sends).to = d)
Halted == ~running \/ \E d \in Conns : Abandoned(d)

\* As long as the hub runs, every message read is passed on unless some goroutine
\* waits for an abandoned connection: hub, service and connections never wait for
\* each other in a circle.
MessagesFlow ==
    \A c \in Clients : reader[c] = "send" ~> reader[c] # "send" \/ Halted

\* With the same exception a one-off request returns (conn.go:49-50).
RequestsReturn ==
    \A c \in Callers : reader[c] # "done" ~> reader[c] = "done" \/ Halted

=============================================================================
