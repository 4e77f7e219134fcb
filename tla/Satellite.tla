------------------------------ MODULE Satellite ------------------------------
(***************************************************************************)
(* A satellite (evt/sat.go) on its reconnecting websocket client           *)
(* (wshub/cli.go): the client's connections one after the other, the hub   *)
(* on the satellite's side that routes what they receive, the satellite's  *)
(* goroutine with its two inputs, and the event server at the other end.   *)
(*                                                                         *)
(* All connections share the client's channel.  The server is what         *)
(* EventFeed promises, for one connection and without topics: it appends   *)
(* events, answers, and sends updates.  An event is the revision it has in *)
(* the server's ledger.  The replica belongs to the host; it is the set of *)
(* events it was given and the latest revision.                            *)
(***************************************************************************)
EXTENDS Integers, FiniteSets, SequencesExt

CONSTANTS Requests,   \* publications of local connections
          MaxEvents,  \* events of the server's ledger
          MaxDials,   \* connections made
          CliCap,     \* capacity of the client's channel (32)
          HubCap,     \* capacity of the hub's channel (128)
          RemoteCap,  \* capacity of the satellite's remote input (64)
          LocalCap    \* capacity of the satellite's local input (64)

ASSUME SatelliteAssumption ==
    /\ MaxEvents \in Nat /\ MaxDials \in Nat
    /\ {CliCap, HubCap, RemoteCap, LocalCap} \subseteq Nat \ {0}
    /\ "other" \notin Requests

VARIABLES send,      \* the client's channel
          dial,      \* connections made so far; the last one is the current one
          reader,    \* what the goroutine of the client does
          open,      \* the current connection's socket is open
          writers,   \* connections whose writer runs
          up, down,  \* what the current connection carries to and from the server
          hubq,      \* the hub's channel
          parting,   \* the hub is sending nil after a signoff
          remote,    \* the satellite's remote input
          input,     \* the satellite's local input
          todo,      \* what the satellite's goroutine has yet to send in its handler
          status,    \* whether the times of the last signon and signoff are set
          toks,      \* forwarded requests without an answer
          replica,   \* events and revision of the replicated ledger
          answers,   \* the answers each request got
          log,       \* the server's ledger: the request an event is from, or Other
          subbed,    \* the server has a subscriber for the current connection
          bufr,      \* the subscriber's buffered events
          mark,      \* the subscriber's revision
          replied    \* events the server sent in answers

cliVars  == <<send, dial, reader, open, writers, up, down>>
hubVars  == <<hubq, parting>>
satVars  == <<remote, input, todo, status, toks, replica, answers>>
servVars == <<log, subbed, bufr, mark, replied>>
vars     == <<cliVars, hubVars, satVars, servVars>>

Other    == "other"
Nil      == [subj |-> "nil"]
Signon   == [subj |-> "_signon"]
Signoff  == [subj |-> "_signoff"]
Stat     == [subj |-> "evt.stat"]
Pub(q)   == [subj |-> "evt.pub", req |-> q]
Sat(r)   == [subj |-> "evt.sat", rev |-> r]
PubAnswer(q, res) == [subj |-> "evt.pub", req |-> q, res |-> res]
SatAnswer         == [subj |-> "evt.sat"]
Update(r, evs)    == [subj |-> "evt.update", rev |-> r, evs |-> evs]

Init ==
    /\ send = << >> /\ dial = 0 /\ reader = "down" /\ open = FALSE /\ writers = {}
    /\ up = << >> /\ down = << >> /\ hubq = << >> /\ parting = FALSE
    /\ remote = << >> /\ input = << >> /\ todo = << >> /\ toks = {}
    /\ status = [on |-> FALSE, off |-> FALSE]
    /\ replica = [evs |-> {}, rev |-> 0]
    /\ answers = [q \in Requests |-> << >>]
    /\ log = << >> /\ subbed = FALSE /\ bufr = {} /\ mark = 0 /\ replied = {}

Rev == Len(log)

\* Mutant of Chan: the sender does not wait.
ChanAlways(m) == send' = Append(send, m)

\* Sends to the client's channel.
Chan(m) == Len(send) < CliCap /\ send' = Append(send, m)

\* The connection ends: the server may have received a part of what was on its
\* way, what it sent is lost, and it hears the signoff.
Hangs ==
    /\ open' = FALSE
    /\ down' = << >>
    /\ \E n \in 0..Len(up) : up' = SubSeq(up, 1, n)

-----------------------------------------------------------------------------
(* The client: RunWithBackoff, run, readAll and writeAll. *)

\* The server knows nothing of a new connection; what it had received on the
\* last one is handled by then.
Dial ==
    /\ reader = "down" /\ dial < MaxDials /\ up = << >>
    /\ dial' = dial + 1 /\ reader' = "signon" /\ open' = TRUE
    /\ subbed' = FALSE /\ bufr' = {} /\ mark' = 0
    /\ UNCHANGED <<send, writers, up, down, hubVars, satVars, log, replied>>

\* Mutant of Announce: a message is dropped when the hub's channel is full.
AnnounceMaybe(m) ==
    IF Len(hubq) < HubCap THEN hubq' = Append(hubq, m) ELSE UNCHANGED hubq

\* Sends to the hub's channel.
Announce(m) == Len(hubq) < HubCap /\ hubq' = Append(hubq, m)

SignsOn ==
    /\ reader = "signon" /\ Announce(Signon)
    /\ reader' = "read" /\ writers' = writers \cup {dial}
    /\ UNCHANGED <<send, dial, open, up, down, parting, satVars, servVars>>

Reads ==
    /\ reader = "read" /\ open /\ down # << >>
    /\ Announce(Head(down))
    /\ down' = Tail(down)
    /\ UNCHANGED <<send, dial, reader, open, writers, up, parting, satVars, servVars>>

\* The server or the network closes the connection, or its writer did.
ReadEnds ==
    /\ reader = "read"
    /\ reader' = "nil"
    /\ IF open THEN Hangs ELSE UNCHANGED <<open, up, down>>
    /\ UNCHANGED <<send, dial, writers, hubVars, satVars, servVars>>

SendsNil ==
    /\ reader = "nil" /\ Chan(Nil)
    /\ reader' = "signoff"
    /\ UNCHANGED <<dial, open, writers, up, down, hubVars, satVars, servVars>>

SignsOff ==
    /\ reader = "signoff" /\ Announce(Signoff)
    /\ reader' = "down"
    /\ UNCHANGED <<send, dial, open, writers, up, down, parting, satVars, servVars>>

\* A writer takes the next message, whichever connection it was meant for.
Writes(d) ==
    /\ d \in writers /\ send # << >> /\ Head(send) # Nil
    /\ send' = Tail(send)
    /\ IF d = dial /\ open THEN up' = Append(up, Head(send)) ELSE UNCHANGED up    \* lost
    /\ UNCHANGED <<dial, reader, open, writers, down, hubVars, satVars, servVars>>

\* nil ends a writer, a failing write or its cancelled context too; the socket
\* is closed with it.
WriterEnds(d) ==
    /\ d \in writers
    /\ \/ send # << >> /\ Head(send) = Nil /\ send' = Tail(send)
       \/ (d # dial \/ reader = "down") /\ UNCHANGED send
       \/ send # << >> /\ Head(send) # Nil /\ send' = Tail(send)
    /\ writers' = writers \ {d}
    /\ IF d = dial /\ open THEN Hangs ELSE UNCHANGED <<open, up, down>>
    /\ UNCHANGED <<dial, reader, hubVars, satVars, servVars>>

-----------------------------------------------------------------------------
(* Hub.Run with CliRouter. *)

\* Mutant of Leaves: it looks at the prefix the router matches.
LeavesSign(m) == m \in {Signon, Signoff}

Leaves(m) == m = Signoff

\* The router's prefixes let all messages through.
Routes ==
    /\ ~parting /\ hubq # << >> /\ Len(remote) < RemoteCap
    /\ remote' = Append(remote, Head(hubq))
    /\ hubq' = Tail(hubq)
    /\ parting' = Leaves(Head(hubq))
    /\ UNCHANGED <<cliVars, input, todo, status, toks, replica, answers, servVars>>

\* The hub's own nil for a connection that signed off.
Parts ==
    /\ parting /\ Chan(Nil)
    /\ parting' = FALSE
    /\ UNCHANGED <<dial, reader, open, writers, up, down, hubq, satVars, servVars>>

-----------------------------------------------------------------------------
(* The satellite. *)

isOnline == ~status.off /\ status.on

\* A local connection asks to publish.  Router lets only signoffs through
\* (sat.go:39-43): the host puts requests into the exported Input itself.
Asks(q) ==
    /\ Len(input) < LocalCap
    /\ answers[q] = << >> /\ q \notin toks /\ Pub(q) \notin ToSet(input)
    /\ input' = Append(input, Pub(q))
    /\ UNCHANGED <<cliVars, hubVars, remote, todo, status, toks, replica, answers, servVars>>

\* Mutant of pub: a request that is refused is forwarded all the same.
pubBoth(q) ==
    /\ toks' = toks \cup {q} /\ todo' = <<Pub(q)>>
    /\ answers' = [answers EXCEPT ![q] = Append(@, IF isOnline THEN "error" ELSE "null")]

\* Publishes nothing itself: New leaves auth nil.  A request is forwarded while
\* the satellite is not online (sat.go:89).  PubFunc wraps the nil it returns
\* in a reply, so the requester is answered with null at once.
pub(q) ==
    IF isOnline
    THEN /\ answers' = [answers EXCEPT ![q] = Append(@, "error")]
         /\ UNCHANGED <<toks, todo>>
    ELSE /\ toks' = toks \cup {q}
         /\ todo' = <<Pub(q)>>
         /\ answers' = [answers EXCEPT ![q] = Append(@, "null")]

\* Nothing serves evt.stat: it is logged as unknown.
HandlesLocal ==
    /\ todo = << >> /\ input # << >>
    /\ input' = Tail(input)
    /\ LET m == Head(input)
       IN  IF m = Stat THEN UNCHANGED <<toks, todo, answers>> ELSE pub(m.req)
    /\ UNCHANGED <<cliVars, hubVars, remote, status, replica, servVars>>

\* Mutant of Connected: the time of the last signoff is kept.
ConnectedAgain == [status EXCEPT !.on = TRUE]

Connected    == [on |-> TRUE, off |-> FALSE]
Disconnected == [status EXCEPT !.off = TRUE]

\* The event ledger's side of Replicate.
Replicate(r, evs) ==
    replica' = [evs |-> replica.evs \cup evs,
                rev |-> IF r > replica.rev THEN r ELSE replica.rev]

\* TokMap.Respond; the answer is passed on as it came.
Respond(q, res) ==
    IF q \in toks
    THEN toks' = toks \ {q} /\ answers' = [answers EXCEPT ![q] = Append(@, res)]
    ELSE UNCHANGED <<toks, answers>>

\* An update is decoded from the message's body.  Answers have theirs inside
\* "res" or "err" (msg.go:95): they decode to an update with nothing in it.
handleRemote ==
    /\ todo = << >> /\ remote # << >>
    /\ remote' = Tail(remote)
    /\ LET m == Head(remote)
       IN  \/ /\ m = Signoff
              /\ status' = Disconnected /\ todo' = <<Stat>>
              /\ UNCHANGED <<toks, replica, answers>>
           \/ /\ m = Signon
              /\ status' = Connected /\ todo' = <<Sat(replica.rev), Stat>>
              /\ UNCHANGED <<toks, replica, answers>>
           \/ /\ m.subj = "evt.update"
              /\ Replicate(m.rev, m.evs)
              /\ UNCHANGED <<toks, todo, status, answers>>
           \/ /\ m = SatAnswer
              /\ Replicate(0, {})
              /\ UNCHANGED <<toks, todo, status, answers>>
           \/ /\ m.subj = "evt.pub"
              /\ Replicate(0, {})
              /\ Respond(m.req, m.res)
              /\ UNCHANGED <<todo, status>>
    /\ UNCHANGED <<cliVars, hubVars, input, servVars>>

\* The goroutine waits to send on the client's channel, or on its own input.
Sends ==
    /\ todo # << >>
    /\ todo' = Tail(todo)
    /\ IF Head(todo) = Stat
       THEN /\ Len(input) < LocalCap
            /\ input' = Append(input, Stat)
            /\ UNCHANGED send
       ELSE Chan(Head(todo)) /\ UNCHANGED input
    /\ UNCHANGED <<dial, reader, open, writers, up, down, hubVars, remote, status, toks,
                   replica, answers, servVars>>

-----------------------------------------------------------------------------
(* The event server. *)

\* Sends to the current connection, unless that ended.
Answers(ms) == down' = IF open THEN down \o ms ELSE down

\* The history since r is the answer; a second evt.sat is refused.
ServesSat(r) ==
    /\ Answers(<<SatAnswer>>)
    /\ IF subbed
       THEN UNCHANGED <<subbed, bufr, mark, replied>>
       ELSE /\ subbed' = TRUE /\ bufr' = {} /\ mark' = Rev
            /\ replied' = replied \cup (r + 1)..Rev
    /\ UNCHANGED log

\* The sender's buffer is flushed before the answer, and its own event is in
\* the answer only; or the publication fails.
ServesPub(q) ==
    \/ /\ Answers(<<PubAnswer(q, "err")>>)
       /\ UNCHANGED servVars
    \/ /\ Rev < MaxEvents
       /\ log' = Append(log, q)
       /\ Answers(IF bufr = {} THEN <<PubAnswer(q, "res")>>
                  ELSE <<Update(Rev, bufr), PubAnswer(q, "res")>>)
       /\ bufr' = {} /\ mark' = Rev + 1 /\ replied' = replied \cup {Rev + 1}
       /\ UNCHANGED subbed

Serves ==
    /\ up # << >>
    /\ up' = Tail(up)
    /\ LET m == Head(up)
       IN  IF m.subj = "evt.sat" THEN ServesSat(m.rev) ELSE ServesPub(m.req)
    /\ UNCHANGED <<send, dial, reader, open, writers, hubVars, satVars>>

\* Another client publishes.
Publishes ==
    /\ Rev < MaxEvents
    /\ log' = Append(log, Other)
    /\ bufr' = IF subbed THEN bufr \cup {Rev + 1} ELSE bufr
    /\ UNCHANGED <<cliVars, hubVars, satVars, subbed, mark, replied>>

Broadcasts ==
    /\ subbed /\ open /\ Rev > mark
    /\ down' = Append(down, Update(Rev, bufr))
    /\ bufr' = {} /\ mark' = Rev
    /\ UNCHANGED <<send, dial, reader, open, writers, up, hubVars, satVars, log, subbed, replied>>

-----------------------------------------------------------------------------
Next ==
    \/ Dial \/ SignsOn \/ Reads \/ ReadEnds \/ SendsNil \/ SignsOff
    \/ \E d \in 1..MaxDials : Writes(d) \/ WriterEnds(d)
    \/ Routes \/ Parts
    \/ \E q \in Requests : Asks(q)
    \/ HandlesLocal \/ handleRemote \/ Sends
    \/ Serves \/ Publishes \/ Broadcasts

Spec == Init /\ [][Next]_vars

-----------------------------------------------------------------------------
Ups     == {Pub(q) : q \in Requests} \cup {Sat(r) : r \in 0..MaxEvents}
Downs   == {PubAnswer(q, res) : q \in Requests, res \in {"res", "err"}}
               \cup {SatAnswer} \cup {Update(r, e) : r \in 0..MaxEvents, e \in SUBSET (1..MaxEvents)}
Routed  == Downs \cup {Signon, Signoff}

\* The channels keep their capacity, and what they carry is what is meant for them.
TypeOK ==
    /\ send \in Seq(Ups \cup {Nil}) /\ Len(send) <= CliCap
    /\ dial \in 0..MaxDials /\ open \in BOOLEAN /\ writers \subseteq 1..dial
    /\ reader \in {"down", "signon", "read", "nil", "signoff"}
    /\ up \in Seq(Ups) /\ down \in Seq(Downs)
    /\ hubq \in Seq(Routed) /\ Len(hubq) <= HubCap /\ parting \in BOOLEAN
    /\ remote \in Seq(Routed) /\ Len(remote) <= RemoteCap
    /\ input \in Seq({Pub(q) : q \in Requests} \cup {Stat}) /\ Len(input) <= LocalCap
    /\ todo \in Seq(Ups \cup {Stat}) /\ Len(todo) <= 2
    /\ status \in [on : BOOLEAN, off : BOOLEAN]
    /\ toks \subseteq Requests
    /\ replica \in [evs : SUBSET (1..MaxEvents), rev : 0..MaxEvents]
    /\ answers \in [Requests -> Seq({"null", "error", "res", "err"})]
    /\ log \in Seq(Requests \cup {Other}) /\ Len(log) <= MaxEvents
    /\ subbed \in BOOLEAN /\ mark \in 0..MaxEvents
    /\ bufr \subseteq 1..MaxEvents /\ replied \subseteq 1..MaxEvents

\* What the updates of all connections leave out up to the replica's revision
\* is what the server sent in an answer: no event slips between a lost update,
\* the revision a reconnecting satellite asks from and its next update.
UpdatesComplete == \A e \in 1..replica.rev : e \in replica.evs \cup replied

\* A request is refused, or it is answered with null and then once with what
\* became of it, and only the answers say whether its event is in the ledger:
\* never twice, and not at all after a refusal.
AnswersTell ==
    \A q \in Requests :
        /\ answers[q] \in {<< >>, <<"error">>, <<"null">>, <<"null", "res">>, <<"null", "err">>}
        /\ Cardinality({e \in 1..Rev : log[e] = q}) <= 1
        /\ q \in ToSet(log) => answers[q] \in {<<"null">>, <<"null", "res">>}
        /\ answers[q] = <<"null", "res">> => q \in ToSet(log)

\* Once the satellite took all signons and signoffs, it is online just when its
\* client has announced a connection (sat.go:85, 120-125).
StatusFollows ==
    (\A m \in {Signon, Signoff} : m \notin ToSet(hubq) \cup ToSet(remote))
        => isOnline = (reader \in {"read", "nil", "signoff"})

\* A satellite replicates events (evt/README.md:28): its ledger has every event
\* of the server's up to its own revision.
ReplicatesEvents == \A e \in 1..replica.rev : e \in replica.evs

\* As long as a client has not reconnected no nil ends its writer early
\* (conn.go:26-28).  Later ones share the channel with what the client's and the
\* hub's nil for the last connection left there (cli.go:105-110, hub.go:57).
FirstWriterStays == dial = 1 /\ reader \in {"signon", "read"} => Nil \notin ToSet(send)
=============================================================================
