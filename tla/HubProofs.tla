------------------------------ MODULE HubProofs ------------------------------
(***************************************************************************)
(* Proofs about the hub, for all clients, callers and capacities: its      *)
(* state stays well typed, a signoff is the last of its connection, the    *)
(* hub knows whom it routes for, its nil comes after the signoff, and a    *)
(* late answer to a one-off caller finds room.                             *)
(*                                                                         *)
(* The invariant says where the messages of one connection can be.  They   *)
(* travel msgs, routing, input in this order; what a reader may still send *)
(* decides what can be behind them.                                        *)
(***************************************************************************)
EXTENDS Hub, SeqLemmas, FiniteSetTheorems

On(c)   == [from |-> c, subj |-> "_signon"]
Req(c)  == [from |-> c, subj |-> "req"]
Off(c)  == [from |-> c, subj |-> "_signoff"]
From(c) == {On(c), Req(c), Off(c)}

\* What is sent: one-off callers announce nothing.
Sent == {m \in Msgs : m.subj = "req" \/ m.from \in Clients}

\* The service has something to send to c.
Addressed(c) == \E o \in ToSet(sends) : o.to = c

\* The service received the signoff of c.
Heard(c) == Off(c) \in ToSet(input) \/ c \in left

\* What the types leave open: who sends what, and that the hub's goroutine is at
\* one message or nil at a time.
Sources ==
    /\ msgs \in Seq(Sent) /\ input \in Seq(Sent \cup {Bcast}) /\ routing \subseteq Sent
    /\ \A m, n \in routing : m = n
    /\ \A c, d \in parting : c = d
    /\ routing = {} \/ parting = {}
    /\ IsFiniteSet(subs)
    /\ \A q \in Callers : reader[q] \in {"new", "wait", "done"}
    /\ \A c \in Clients : reader[c] # "wait"

\* Nothing of a connection comes after its signoff, wherever that is.
Trails(c) ==
    /\ NoneAfter(msgs, Off(c), From(c)) /\ NoneAfter(input, Off(c), From(c))
    /\ Off(c) \in routing => ToSet(msgs) \cap From(c) = {}
    /\ Heard(c) => (ToSet(msgs) \cup routing) \cap From(c) = {}
    /\ c \in left => /\ ToSet(input) \cap From(c) = {}
                     /\ c \in subs \/ Addressed(c) => c \in stays
    /\ Heard(c) \/ Off(c) \in ToSet(msgs) \cup routing => reader[c] = "done"

\* The signon of a connection comes before the rest, so the hub knows the
\* connection until it routed its signoff.
Knows(c) ==
    /\ c \notin conns => FirstOf(msgs, On(c), From(c))
    /\ routing \cap From(c) # {} => c \in conns
    /\ reader[c] \in {"read", "send", "signoff"} => c \in conns \/ On(c) \in ToSet(msgs)
    /\ reader[c] = "done" /\ (c \in conns \/ On(c) \in ToSet(msgs)) =>
           Off(c) \in ToSet(msgs) \cup routing
    /\ Heard(c) => c \notin conns

\* A connection gets one nil, after the service received its signoff.
Nils(c) ==
    /\ c \in parting => "nil" \notin ToSet(ch[c])
    /\ c \in parting \/ "nil" \in ToSet(ch[c]) => Heard(c)
    /\ Once(ch[c], "nil")

\* The request of a one-off caller, or its answer, is in one place.  The service
\* does not know the caller before it handles the request, and it sends the answer
\* before anything else.
Asked(q) ==
    /\ reader[q] = "new" => Req(q) \notin OnTheWay
    /\ Once(msgs, Req(q)) /\ Once(input, Req(q)) /\ Once(sends, Answer(q))
    /\ Req(q) \in routing => Req(q) \notin ToSet(msgs)
    /\ Req(q) \in ToSet(input) => Req(q) \notin ToSet(msgs) \cup routing
    /\ reader[q] = "new" \/ Req(q) \in OnTheWay =>
           q \notin subs /\ ~Addressed(q) /\ ch[q] = << >>
    /\ Answer(q) \in ToSet(sends) => Update(q) \notin ToSet(sends) /\ ch[q] = << >>

HubInv ==
    /\ TypeOK /\ Sources
    /\ \A c \in Clients : Trails(c) /\ Knows(c) /\ Nils(c)
    /\ \A q \in Callers : Asked(q)

-----------------------------------------------------------------------------
(* Messages. *)

LEMMA MsgFacts ==
    /\ Bcast \notin Msgs /\ Bcast.subj = "_bcast"
    /\ \A m \in Msgs : /\ m.from \in Conns /\ m.subj \in Subjs
                       /\ m = [from |-> m.from, subj |-> m.subj]
    /\ \A c \in Conns, s \in Subjs :
           /\ [from |-> c, subj |-> s] \in Msgs
           /\ [from |-> c, subj |-> s].from = c /\ [from |-> c, subj |-> s].subj = s
<1>1. Bcast \notin Msgs
  <2> SUFFICES ASSUME Bcast \in Msgs PROVE FALSE
    OBVIOUS
  <2>1. DOMAIN Bcast = {"subj"} /\ DOMAIN Bcast = {"from", "subj"}
    BY DEF Bcast, Msgs
  <2> QED
    BY <2>1
<1> QED
  BY <1>1 DEF Bcast, Msgs

\* The three messages of a connection are told apart, from each other and from
\* those of any other connection.
LEMMA FromFacts ==
    ASSUME NEW c \in Conns
    PROVE  /\ From(c) \subseteq Msgs /\ Bcast \notin From(c)
           /\ On(c) # Req(c) /\ On(c) # Off(c) /\ Req(c) # Off(c)
           /\ \A m \in Msgs : /\ m \in From(c) <=> m.from = c
                              /\ m = Off(c) <=> m.from = c /\ m.subj = "_signoff"
                              /\ m = On(c) <=> m.from = c /\ m.subj = "_signon"
                              /\ m = Req(c) <=> m.from = c /\ m.subj = "req"
<1>1. From(c) \subseteq Msgs
  BY MsgFacts DEF From, On, Req, Off, Subjs
<1>2. On(c).subj = "_signon" /\ Req(c).subj = "req" /\ Off(c).subj = "_signoff"
  BY DEF On, Req, Off
<1>3. On(c).from = c /\ Req(c).from = c /\ Off(c).from = c
  BY DEF On, Req, Off
<1>4. \A m \in Msgs : m.from = c => m \in From(c)
  BY MsgFacts DEF From, On, Req, Off, Subjs
<1> QED
  BY <1>1, <1>2, <1>3, <1>4, MsgFacts DEF From

LEMMA SentFacts ==
    /\ Sent \subseteq Msgs
    /\ \A c \in Clients : From(c) \subseteq Sent
    /\ \A q \in Callers : Req(q) \in Sent
    /\ \A m \in Sent : m.from \in Callers => m = Req(m.from) /\ m.from \notin Clients
<1>1. Clients \subseteq Conns /\ Callers \subseteq Conns /\ Clients \cap Callers = {}
  BY CapsAssumption DEF Conns
<1>2. \A c \in Clients : From(c) \subseteq Sent
  <2> SUFFICES ASSUME NEW c \in Clients, NEW m \in From(c) PROVE m \in Sent
    OBVIOUS
  <2>1. m \in Msgs /\ m.from = c
    BY <1>1, FromFacts
  <2> QED
    BY <2>1 DEF Sent
<1>3. \A q \in Callers : Req(q) \in Sent
  <2> SUFFICES ASSUME NEW q \in Callers PROVE Req(q) \in Sent
    OBVIOUS
  <2>1. Req(q) \in Msgs /\ Req(q).subj = "req"
    BY <1>1, MsgFacts DEF Req, Subjs
  <2> QED
    BY <2>1 DEF Sent
<1>4. \A m \in Sent : m.from \in Callers => m = Req(m.from) /\ m.from \notin Clients
  <2> SUFFICES ASSUME NEW m \in Sent, m.from \in Callers
               PROVE  m = Req(m.from) /\ m.from \notin Clients
    OBVIOUS
  <2>1. m \in Msgs /\ m.from \notin Clients /\ m.subj = "req"
    BY <1>1 DEF Sent
  <2> QED
    BY <2>1, MsgFacts DEF Req
<1> QED
  BY <1>2, <1>3, <1>4 DEF Sent
-----------------------------------------------------------------------------
(* Types. *)

LEMMA ConnSets ==
    /\ Clients \subseteq Conns /\ Callers \subseteq Conns /\ Clients \cap Callers = {}
    /\ \A c \in Conns : Cap(c) \in Nat /\ Cap(c) >= 1
    /\ \A q \in Callers : Cap(q) = 1
  BY CapsAssumption DEF Conns, Cap

\* A channel takes what there is room for.
LEMMA PutType ==
    ASSUME TypeOK, NEW c \in Conns, NEW m \in {"msg", "nil"}, Put(c, m)
    PROVE  /\ ch' \in [Conns -> Seq({"msg", "nil"})]
           /\ \A d \in Conns : Len(ch'[d]) <= Cap(d)
           /\ ch'[c] = Append(ch[c], m) /\ \A d \in Conns \ {c} : ch'[d] = ch[d]
<1> DEFINE S == Seq({"msg", "nil"})
           s == Append(ch[c], m)
<1>1. ch \in [Conns -> S] /\ ch[c] \in S
  BY DEF TypeOK
<1>2. s \in S /\ Len(s) = Len(ch[c]) + 1 /\ Len(ch[c]) \in Nat
  BY <1>1, AppendProperties, LenProperties
<1>3. ch' = [ch EXCEPT ![c] = s] /\ Len(ch[c]) < Cap(c)
  BY DEF Put
<1> HIDE DEF s
<1>4. Len(s) <= Cap(c)
  BY <1>2, <1>3, ConnSets
<1>5. ch' \in [Conns -> S] /\ ch'[c] = s /\ \A d \in Conns \ {c} : ch'[d] = ch[d]
  BY <1>1, <1>2, <1>3
<1> HIDE DEF S
<1> QED
  BY <1>4, <1>5 DEF TypeOK, s, S

LEMMA DrainType ==
    ASSUME TypeOK, NEW c \in Conns, ch[c] # << >>, ch' = [ch EXCEPT ![c] = Tail(@)]
    PROVE  /\ ch' \in [Conns -> Seq({"msg", "nil"})]
           /\ \A d \in Conns : Len(ch'[d]) <= Cap(d)
           /\ ch'[c] = Tail(ch[c]) /\ \A d \in Conns \ {c} : ch'[d] = ch[d]
<1> DEFINE S == Seq({"msg", "nil"})
           s == Tail(ch[c])
<1>1. ch \in [Conns -> S] /\ ch[c] \in S
  BY DEF TypeOK
<1>2. s \in S /\ Len(s) = Len(ch[c]) - 1 /\ Len(ch[c]) \in Nat
  BY <1>1, TailAt
<1>3. ch' = [ch EXCEPT ![c] = s]
  OBVIOUS
<1> HIDE DEF s
<1>4. Len(ch[c]) <= Cap(c)
  BY DEF TypeOK
<1>5. Len(s) <= Cap(c)
  BY <1>2, <1>4, ConnSets
<1>6. ch' \in [Conns -> S] /\ ch'[c] = s /\ \A d \in Conns \ {c} : ch'[d] = ch[d]
  BY <1>1, <1>2, <1>3
<1> HIDE DEF S
<1> QED
  BY <1>5, <1>6 DEF TypeOK, s, S

\* What Route does to the hub's channel and to the sender.
LEMMA RouteType ==
    ASSUME TypeOK, Sources, NEW c \in Conns, NEW at, NEW subj \in Subjs, NEW next,
           subj = "req" \/ c \in Clients, Route(c, at, subj, next)
    PROVE  LET m == [from |-> c, subj |-> subj]
           IN  /\ m \in Sent /\ msgs' = Append(msgs, m)
               /\ msgs' \in Seq(Sent) /\ msgs' \in Seq(Msgs) /\ Len(msgs') <= MsgCap
               /\ ToSet(msgs') = ToSet(msgs) \cup {m}
               /\ reader[c] = at /\ reader'[c] = next
               /\ \A d \in Conns \ {c} : reader'[d] = reader[d]
               /\ next \in Readers => reader' \in [Conns -> Readers]
<1> DEFINE m == [from |-> c, subj |-> subj]
<1>1. m \in Sent
  BY MsgFacts DEF Sent
<1>2. msgs \in Seq(Sent) /\ Len(msgs) < MsgCap /\ msgs' = Append(msgs, m)
  BY DEF Sources, Route, Room
<1>3. reader[c] = at /\ reader' = [reader EXCEPT ![c] = next] /\ reader \in [Conns -> Readers]
  BY DEF TypeOK, Route
<1> HIDE DEF m
<1>4. Append(msgs, m) \in Seq(Sent) /\ Len(Append(msgs, m)) = Len(msgs) + 1 /\ Len(msgs) \in Nat
  BY <1>1, <1>2, AppendProperties, LenProperties
<1>5. ToSet(msgs') = ToSet(msgs) \cup {m}
  BY <1>1, <1>2, ToSetAppend
<1>6. msgs' \in Seq(Msgs)
  BY <1>2, <1>4, SentFacts, SeqMonotonic
<1>7. Len(msgs') <= MsgCap
  BY <1>2, <1>4, CapsAssumption
<1>8. /\ reader'[c] = next /\ \A d \in Conns \ {c} : reader'[d] = reader[d]
      /\ next \in Readers => reader' \in [Conns -> Readers]
  BY <1>3
<1> QED
  BY <1>1, <1>2, <1>3, <1>4, <1>5, <1>6, <1>7, <1>8 DEF m

\* What the service's input becomes when a message is appended.
LEMMA InputType ==
    ASSUME TypeOK, Sources, NEW m \in Sent \cup {Bcast}, Len(input) < InputCap,
           input' = Append(input, m)
    PROVE  /\ input' \in Seq(Sent \cup {Bcast}) /\ input' \in Seq(Msgs \cup {Bcast})
           /\ Len(input') <= InputCap /\ ToSet(input') = ToSet(input) \cup {m}
<1>1. input \in Seq(Sent \cup {Bcast})
  BY DEF Sources
<1>2. input' \in Seq(Sent \cup {Bcast}) /\ Len(input') = Len(input) + 1 /\ Len(input) \in Nat
  BY <1>1, AppendProperties, LenProperties
<1>3. input' \in Seq(Msgs \cup {Bcast})
  BY <1>2, SentFacts, SeqMonotonic
<1>4. ToSet(input') = ToSet(input) \cup {m}
  BY <1>1, ToSetAppend
<1> QED
  BY <1>2, <1>3, <1>4, CapsAssumption

\* An answer and an update, to one connection or to two, are told apart.
LEMMA OutFacts ==
    /\ \A c \in Conns : /\ Answer(c) \in Outs /\ Update(c) \in Outs
                        /\ Answer(c).to = c /\ Update(c).to = c
    /\ \A o \in Outs : o.to \in Conns /\ (o = Answer(o.to) \/ o = Update(o.to))
    /\ \A c, d \in Conns : /\ Answer(c) # Update(d)
                           /\ Answer(c) = Answer(d) => c = d
                           /\ Update(c) = Update(d) => c = d
<1>1. \A c : /\ Answer(c).to = c /\ Answer(c).msg = "res"
             /\ Update(c).to = c /\ Update(c).msg = "update"
  BY DEF Answer, Update
<1>2. \A c \in Conns : Answer(c) \in Outs /\ Update(c) \in Outs
  BY DEF Answer, Update, Outs
<1>3. \A o \in Outs : o.to \in Conns /\ (o = Answer(o.to) \/ o = Update(o.to))
  BY DEF Answer, Update, Outs
<1>4. \A c, d : Answer(c) # Update(d)
  <2> SUFFICES ASSUME NEW c, NEW d, Answer(c) = Update(d) PROVE FALSE
    OBVIOUS
  <2>1. Answer(c).msg = Update(d).msg
    OBVIOUS
  <2> QED
    BY <1>1, <2>1
<1>5. \A c, d : Answer(c) = Answer(d) => c = d
  <2> SUFFICES ASSUME NEW c, NEW d, Answer(c) = Answer(d) PROVE c = d
    OBVIOUS
  <2>1. Answer(c).to = Answer(d).to
    OBVIOUS
  <2> QED
    BY <1>1, <2>1
<1>6. \A c, d : Update(c) = Update(d) => c = d
  <2> SUFFICES ASSUME NEW c, NEW d, Update(c) = Update(d) PROVE c = d
    OBVIOUS
  <2>1. Update(c).to = Update(d).to
    OBVIOUS
  <2> QED
    BY <1>1, <2>1
<1> QED
  BY <1>1, <1>2, <1>3, <1>4, <1>5, <1>6

\* The updates of a broadcast, in any order.
LEMMA RecipientsType ==
    ASSUME NEW cs, IsFiniteSet(cs), NEW s \in SetToSeqs({Update(c) : c \in cs})
    PROVE  s \in Seq({Update(c) : c \in cs})
<1> DEFINE us == {Update(c) : c \in cs}
           f == [c \in cs |-> Update(c)]
<1>1. f \in Surjection(cs, us)
  BY DEF Surjection
<1>2. IsFiniteSet(us)
  BY <1>1, FS_Surjection
<1> HIDE DEF us
<1>3. Cardinality(us) \in Nat
  BY <1>2, FS_CardinalityType
<1>4. s \in [1..Cardinality(us) -> us]
  BY DEF SetToSeqs, us
<1> QED
  BY <1>3, <1>4, SeqDef DEF us

\* What the service has to send for a request: the answer, once, and before it what
\* waits for the subscriber with the same id.
LEMMA ReplyFacts ==
    ASSUME NEW m, m.from \in Conns, subs \subseteq Conns, sends' \in Replies(m) \cup Flushes(m)
    PROVE  /\ sends' \in Seq(Outs) /\ Once(sends', Answer(m.from))
           /\ ToSet(sends') \subseteq
                {Answer(m.from)} \cup {Update(d) : d \in subs \cap Same(m.from)}
<1> DEFINE a == Answer(m.from)
<1>1. a \in Outs
  BY OutFacts
<1>2. CASE sends' = << >>
  BY <1>2, EmptySeq, ToSetEmpty DEF Once
<1>3. CASE sends' = <<a>>
  <2>1. <<a>> \in Seq(Outs) /\ ToSet(<<a>>) = {a} /\ Once(<<a>>, a)
    BY <1>1 DEF ToSet, Once
  <2> QED
    BY <1>3, <2>1
<1>4. ASSUME NEW d \in subs \cap Same(m.from), sends' = <<Update(d), a>>
      PROVE  /\ sends' \in Seq(Outs) /\ Once(sends', a)
             /\ ToSet(sends') \subseteq {a} \cup {Update(e) : e \in subs \cap Same(m.from)}
  <2> DEFINE u == Update(d)
  <2>1. u \in Outs /\ u # a
    BY OutFacts
  <2> HIDE DEF u, a
  <2>2. <<u, a>> \in Seq(Outs) /\ ToSet(<<u, a>>) = {u, a} /\ Once(<<u, a>>, a)
    BY <1>1, <2>1 DEF ToSet, Once
  <2> QED
    BY <1>4, <2>2 DEF u
<1>5. sends' = << >> \/ sends' = <<a>> \/ \E d \in subs \cap Same(m.from) : sends' = <<Update(d), a>>
  BY DEF Replies, Flushes
<1> QED
  BY <1>2, <1>3, <1>4, <1>5

\* What a request does to the registry: its sender alone can be added, and whether
\* another client's signoff drops it stays as it was.
LEMMA RegistryFacts ==
    ASSUME TypeOK, NEW c \in Conns, Subscribes(c) \/ GivesUp(c) \/ UNCHANGED <<subs, stays>>
    PROVE  /\ subs' \subseteq subs \cup {c} /\ stays' \subseteq subs' \cap Clients
           /\ \A d \in Clients \ {c} : d \in stays' <=> d \in stays
<1>1. stays \subseteq subs \cap Clients /\ subs \subseteq Conns /\ Clients \cap Callers = {}
  BY ConnSets DEF TypeOK
<1>2. CASE Subscribes(c)
  <2>1. Stored(c) \subseteq subs \cup {c} /\ (c \in Clients => c \in subs \cup Stored(c))
    BY <1>1 DEF Stored, Same
  <2> QED
    BY <1>1, <1>2, <2>1 DEF Subscribes
<1>3. CASE GivesUp(c)
  BY <1>1, <1>3 DEF GivesUp
<1> QED
  BY <1>1, <1>2, <1>3

\* The variables a step of one party may change.
LEMMA TypeStep ==
    ASSUME TypeOK, Sources, [Next]_vars
    PROVE  TypeOK' /\ Sources'
<1> USE DEF hubVars, servVars
<1>0. ASSUME UNCHANGED vars PROVE TypeOK' /\ Sources'
  BY <1>0 DEF vars, TypeOK, Sources
<1>1. ASSUME NEW c \in Conns, NEW at, NEW subj \in Subjs, NEW next \in Readers,
             subj = "req" \/ c \in Clients, Route(c, at, subj, next),
             c \in Clients => next # "wait",
             c \in Callers => next \in {"wait", "done"},
             UNCHANGED <<routing, parting, running, conns, servVars, ch, closed>>,
             writer' \in [Clients -> {"none", "run", "done"}]
      PROVE  TypeOK' /\ Sources'
  <2>1. /\ msgs' \in Seq(Sent) /\ msgs' \in Seq(Msgs) /\ Len(msgs') <= MsgCap
        /\ reader'[c] = next /\ \A d \in Conns \ {c} : reader'[d] = reader[d]
        /\ reader' \in [Conns -> Readers]
    BY <1>1, RouteType
  <2>2. TypeOK'
    BY <1>1, <2>1 DEF TypeOK
  <2>3. /\ \A q \in Callers : reader'[q] \in {"new", "wait", "done"}
        /\ \A d \in Clients : reader'[d] # "wait"
    BY <1>1, <2>1, ConnSets DEF Sources
  <2> QED
    BY <1>1, <2>1, <2>2, <2>3 DEF Sources
<1>2. ASSUME NEW c \in Clients, SignOn(c) PROVE TypeOK' /\ Sources'
  <2>1. Route(c, "new", "_signon", "read") /\ writer' = [writer EXCEPT ![c] = "run"]
        /\ UNCHANGED <<routing, parting, running, conns, servVars, ch, closed>>
    BY <1>2 DEF SignOn
  <2>2. writer' \in [Clients -> {"none", "run", "done"}]
    BY <2>1 DEF TypeOK
  <2> QED
    BY <1>1, <2>1, <2>2, ConnSets DEF Subjs, Readers
<1>3. ASSUME NEW c \in Clients, PassOn(c) \/ SignOff(c) PROVE TypeOK' /\ Sources'
  <2>1. Route(c, "send", "req", "read") \/ Route(c, "signoff", "_signoff", "done")
    BY <1>3 DEF PassOn, SignOff
  <2>2. UNCHANGED <<routing, parting, running, conns, servVars, ch, writer, closed>>
    BY <1>3 DEF PassOn, SignOff
  <2>3. writer' \in [Clients -> {"none", "run", "done"}]
    BY <2>2 DEF TypeOK
  <2> QED
    BY <1>1, <2>1, <2>2, <2>3, ConnSets DEF Subjs, Readers
<1>4. ASSUME NEW q \in Callers, CallerSends(q) PROVE TypeOK' /\ Sources'
  <2>1. Route(q, "new", "req", "wait")
        /\ UNCHANGED <<routing, parting, running, conns, servVars, ch, writer, closed>>
    BY <1>4 DEF CallerSends
  <2>2. writer' \in [Clients -> {"none", "run", "done"}]
    BY <2>1 DEF TypeOK
  <2> QED
    BY <1>1, <2>1, <2>2, ConnSets DEF Subjs, Readers
<1>5. ASSUME NEW c \in Clients, ReadMsg(c) \/ ReadEnds(c) PROVE TypeOK' /\ Sources'
  <2>1. PICK next \in {"send", "signoff"} : reader' = [reader EXCEPT ![c] = next]
    BY <1>5 DEF ReadMsg, ReadEnds
  <2>2. UNCHANGED <<hubVars, servVars, ch, writer>> /\ closed' \subseteq Clients
    BY <1>5 DEF ReadMsg, ReadEnds, TypeOK
  <2>3. reader' \in [Conns -> Readers] /\ reader'[c] = next
        /\ \A d \in Conns \ {c} : reader'[d] = reader[d]
    BY <2>1, ConnSets DEF TypeOK, Readers
  <2>4. TypeOK'
    BY <2>2, <2>3 DEF TypeOK
  <2> QED
    BY <2>2, <2>3, <2>4, ConnSets DEF Sources
<1>6. ASSUME NEW c \in Clients, Write(c) \/ WriterEnds(c) PROVE TypeOK' /\ Sources'
  <2>1. UNCHANGED <<hubVars, servVars, reader>>
    BY <1>6 DEF Write, WriterEnds
  <2>2. closed' \subseteq Clients /\ writer' \in [Clients -> {"none", "run", "done"}]
    BY <1>6 DEF Write, WriterEnds, TypeOK
  <2>3. ch' \in [Conns -> Seq({"msg", "nil"})] /\ \A d \in Conns : Len(ch'[d]) <= Cap(d)
    <3>1. CASE Write(c)
      BY <3>1, ConnSets, DrainType DEF Write
    <3>2. CASE WriterEnds(c)
      BY <3>2 DEF WriterEnds, TypeOK
    <3> QED
      BY <1>6, <3>1, <3>2
  <2> QED
    BY <2>1, <2>2, <2>3 DEF TypeOK, Sources
<1>7. ASSUME NEW q \in Callers, CallerReturns(q) PROVE TypeOK' /\ Sources'
  <2>1. UNCHANGED <<hubVars, servVars, writer, closed>>
        /\ reader' = [reader EXCEPT ![q] = "done"]
    BY <1>7 DEF CallerReturns
  <2>2. reader' \in [Conns -> Readers] /\ reader'[q] = "done"
        /\ \A d \in Conns \ {q} : reader'[d] = reader[d]
    BY <2>1, ConnSets DEF TypeOK, Readers
  <2>3. ch' \in [Conns -> Seq({"msg", "nil"})] /\ \A d \in Conns : Len(ch'[d]) <= Cap(d)
    <3>1. CASE ch[q] # << >> /\ ch' = [ch EXCEPT ![q] = Tail(@)]
      BY <3>1, ConnSets, DrainType
    <3>2. CASE UNCHANGED ch
      BY <3>2 DEF TypeOK
    <3> QED
      BY <1>7, <3>1, <3>2 DEF CallerReturns
  <2>4. TypeOK'
    BY <2>1, <2>2, <2>3 DEF TypeOK
  <2> QED
    BY <2>1, <2>2, <2>3, <2>4, ConnSets DEF Sources
<1>8. ASSUME Take PROVE TypeOK' /\ Sources'
  <2>1. /\ msgs # << >> /\ msgs' = Tail(msgs) /\ routing = {} /\ parting = {}
        /\ UNCHANGED <<parting, running, servVars, ch, reader, writer, closed>>
    BY <1>8 DEF Take
  <2>2. msgs \in Seq(Sent)
    BY DEF Sources
  <2>3. msgs' \in Seq(Sent) /\ Len(msgs') = Len(msgs) - 1 /\ Head(msgs) \in Sent
        /\ Len(msgs) \in Nat
    BY <2>1, <2>2, HeadTailProperties, LenProperties
  <2>4. msgs' \in Seq(Msgs)
    BY <2>3, SentFacts, SeqMonotonic
  <2>5. Len(msgs') <= MsgCap
    BY <2>3, CapsAssumption DEF TypeOK
  <2>6. conns' \subseteq Clients /\ routing' \subseteq {Head(msgs)}
    <3>1. CASE Head(msgs).subj = "_signon"
      <4>1. conns' = conns \cup {Head(msgs).from} /\ routing' = routing
        BY <1>8, <3>1 DEF Take
      <4> QED
        BY <2>1, <2>3, <3>1, <4>1 DEF Sent, TypeOK
    <3>2. CASE Head(msgs).subj # "_signon"
      BY <1>8, <3>2 DEF Take, TypeOK
    <3> QED
      BY <3>1, <3>2
  <2>7. routing' \subseteq Sent /\ routing' \subseteq Msgs /\ \A m, n \in routing' : m = n
    BY <2>3, <2>6, SentFacts
  <2>8. Cardinality(routing') <= 1
    BY <2>7, AtMostOne
  <2> QED
    BY <2>1, <2>3, <2>4, <2>5, <2>6, <2>7, <2>8 DEF TypeOK, Sources
<1>9. ASSUME NEW m \in Msgs, Deliver(m) PROVE TypeOK' /\ Sources'
  <2>1. /\ m \in routing /\ Len(input) < InputCap /\ input' = Append(input, m)
        /\ routing' = {}
        /\ UNCHANGED <<msgs, running, sends, subs, stays, left, ch, reader, writer, closed>>
    BY <1>9 DEF Deliver
  <2>2. m \in Sent /\ parting = {}
    BY <2>1 DEF Sources
  <2>3. /\ input' \in Seq(Sent \cup {Bcast}) /\ input' \in Seq(Msgs \cup {Bcast})
        /\ Len(input') <= InputCap
    BY <2>1, <2>2, InputType
  <2>4. conns' \subseteq Clients /\ parting' \subseteq {m.from} /\ parting' \subseteq Clients
    <3>1. CASE Leaves(m)
      <4>1. m.from \in Clients
        BY <2>2, <3>1 DEF Leaves, Sent
      <4>2. conns' = conns \ {m.from} /\ parting' = {m.from}
        BY <1>9, <3>1 DEF Deliver
      <4> QED
        BY <4>1, <4>2 DEF TypeOK
    <3>2. CASE ~Leaves(m)
      BY <1>9, <2>2, <3>2 DEF Deliver, TypeOK
    <3> QED
      BY <3>1, <3>2
  <2>5. (\A c, d \in parting' : c = d) /\ Cardinality(parting') <= 1 /\ Cardinality(routing') <= 1
    BY <2>1, <2>4, AtMostOne
  <2> QED
    BY <2>1, <2>2, <2>3, <2>4, <2>5 DEF TypeOK, Sources
<1>10. ASSUME NEW c \in Conns, Part(c) PROVE TypeOK' /\ Sources'
  <2>1. /\ ch' \in [Conns -> Seq({"msg", "nil"})] /\ \A d \in Conns : Len(ch'[d]) <= Cap(d)
    BY <1>10, PutType DEF Part
  <2>2. parting' = {} /\ UNCHANGED <<msgs, routing, running, conns, servVars, reader, writer, closed>>
    BY <1>10 DEF Part
  <2>3. Cardinality(parting') <= 1
    BY <2>2, AtMostOne
  <2> QED
    BY <2>1, <2>2, <2>3 DEF TypeOK, Sources
<1>11. ASSUME HubStops PROVE TypeOK' /\ Sources'
  BY <1>11 DEF HubStops, TypeOK, Sources
<1>12. ASSUME Handle PROVE TypeOK' /\ Sources'
  <2> DEFINE m == Head(input)
  <2>1. /\ sends = << >> /\ input # << >> /\ input' = Tail(input)
        /\ UNCHANGED <<hubVars, ch, reader, writer, closed>>
    BY <1>12 DEF Handle
  <2>2. input \in Seq(Sent \cup {Bcast})
    BY DEF Sources
  <2>3. input' \in Seq(Sent \cup {Bcast}) /\ Len(input') = Len(input) - 1
        /\ Len(input) \in Nat /\ m \in Sent \cup {Bcast}
    BY <2>1, <2>2, HeadTailProperties, LenProperties
  <2>4. input' \in Seq(Msgs \cup {Bcast}) /\ Len(input') <= InputCap
    <3>1. input' \in Seq(Msgs \cup {Bcast})
      BY <2>3, SentFacts, SeqMonotonic
    <3> QED
      BY <2>3, <3>1, CapsAssumption DEF TypeOK
  <2>5. /\ sends' \in Seq(Outs) /\ subs' \subseteq Conns /\ IsFiniteSet(subs')
        /\ stays' \subseteq subs' \cap Clients /\ left' \subseteq Clients
    <3>0. /\ subs \subseteq Conns /\ left \subseteq Clients /\ IsFiniteSet(subs)
          /\ stays \subseteq subs \cap Clients /\ Clients \subseteq Conns /\ << >> \in Seq(Outs)
      BY ConnSets, EmptySeq DEF TypeOK, Sources
    <3>1. CASE m = Bcast /\ (\E cs \in SUBSET subs : sends' \in SetToSeqs({Update(c) : c \in cs}))
               /\ UNCHANGED <<subs, stays, left>>
      <4>1. PICK cs \in SUBSET subs : sends' \in SetToSeqs({Update(c) : c \in cs})
        BY <3>1
      <4>2. IsFiniteSet(cs)
        BY <3>0, FS_Subset
      <4>3. sends' \in Seq({Update(c) : c \in cs}) /\ {Update(c) : c \in cs} \subseteq Outs
        BY <3>0, <4>1, <4>2, RecipientsType, OutFacts
      <4>4. sends' \in Seq(Outs)
        BY <4>3, SeqMonotonic
      <4> QED
        BY <3>0, <3>1, <4>4
    <3>2. CASE /\ m.subj = "req" /\ sends' \in Replies(m) \cup Flushes(m) /\ UNCHANGED left
               /\ Subscribes(m.from) \/ GivesUp(m.from) \/ UNCHANGED <<subs, stays>>
      <4>1. m \in Msgs /\ m.from \in Conns
        BY <2>3, <3>2, MsgFacts, SentFacts
      <4>2. sends' \in Seq(Outs)
        BY <3>0, <3>2, <4>1, ReplyFacts
      <4>3. IsFiniteSet(subs \cup {m.from})
        BY <3>0, FS_AddElement
      <4>4. subs' \subseteq subs \cup {m.from} /\ stays' \subseteq subs' \cap Clients
        BY <3>2, <4>1, RegistryFacts
      <4>5. IsFiniteSet(subs')
        BY <4>3, <4>4, FS_Subset
      <4> QED
        BY <3>0, <3>2, <4>1, <4>2, <4>4, <4>5
    <3>3. CASE m.subj = "_signoff" /\ subs' = Others(m.from) /\ left' = left \cup {m.from}
               /\ UNCHANGED <<sends, stays>>
      <4>1. m.from \in Clients
        BY <2>3, <3>3, MsgFacts DEF Sent
      <4>2. subs' = subs \ ({m.from} \ stays)
        BY <3>3 DEF Others
      <4>3. IsFiniteSet(subs')
        BY <3>0, <4>2, FS_Subset
      <4> QED
        BY <2>1, <3>0, <3>3, <4>1, <4>2, <4>3
    <3> QED
      BY <1>12, <3>1, <3>2, <3>3 DEF Handle
  <2> QED
    BY <2>1, <2>3, <2>4, <2>5 DEF TypeOK, Sources
<1>13. ASSUME Reply PROVE TypeOK' /\ Sources'
  <2>1. sends # << >> /\ sends' = Tail(sends) /\ Put(Head(sends).to, "msg")
        /\ UNCHANGED <<hubVars, input, subs, stays, left, reader, writer, closed>>
    BY <1>13 DEF Reply
  <2>2. Head(sends) \in Outs /\ sends' \in Seq(Outs)
    BY <2>1, HeadTailProperties DEF TypeOK
  <2>3. /\ ch' \in [Conns -> Seq({"msg", "nil"})] /\ \A d \in Conns : Len(ch'[d]) <= Cap(d)
    BY <2>1, <2>2, PutType, OutFacts
  <2> QED
    BY <2>1, <2>2, <2>3 DEF TypeOK, Sources
<1>14. ASSUME TimerFires PROVE TypeOK' /\ Sources'
  <2>1. /\ Len(input) < InputCap /\ input' = Append(input, Bcast)
        /\ UNCHANGED <<hubVars, sends, subs, stays, left, ch, reader, writer, closed>>
    BY <1>14 DEF TimerFires
  <2>2. /\ input' \in Seq(Sent \cup {Bcast}) /\ input' \in Seq(Msgs \cup {Bcast})
        /\ Len(input') <= InputCap
    BY <2>1, InputType
  <2> QED
    BY <2>1, <2>2 DEF TypeOK, Sources
<1> QED
  BY <1>0, <1>2, <1>3, <1>4, <1>5, <1>6, <1>7, <1>8, <1>9, <1>10, <1>11, <1>12, <1>13, <1>14
  DEF Next

LEMMA TypeInit == ASSUME Init PROVE TypeOK /\ Sources
<1>1. /\ << >> \in Seq(Sent) /\ << >> \in Seq(Sent \cup {Bcast}) /\ << >> \in Seq(Msgs)
      /\ << >> \in Seq(Msgs \cup {Bcast}) /\ << >> \in Seq(Outs) /\ << >> \in Seq({"msg", "nil"})
      /\ Len(<< >>) = 0
  BY EmptySeq
<1>2. Cardinality(routing) <= 1 /\ Cardinality(parting) <= 1 /\ IsFiniteSet(subs)
  BY FS_EmptySet DEF Init
<1>3. 0 <= MsgCap /\ 0 <= InputCap /\ \A c \in Conns : 0 <= Cap(c)
  BY CapsAssumption, ConnSets
<1>4. ch \in [Conns -> Seq({"msg", "nil"})] /\ \A c \in Conns : Len(ch[c]) <= Cap(c)
  BY <1>1, <1>3 DEF Init
<1>5. reader \in [Conns -> Readers] /\ \A c \in Conns : reader[c] = "new"
  BY DEF Init, Readers
<1> QED
  BY <1>1, <1>2, <1>3, <1>4, <1>5, ConnSets DEF Init, TypeOK, Sources

\* The service's state, and all that goes with it, is well typed for any number
\* of connections and any capacities: no channel holds more than it can, and
\* the hub has one message or one nil in its hands at a time.
THEOREM HubTypes == Spec => [](TypeOK /\ Sources)
<1>1. Init => TypeOK /\ Sources
  BY TypeInit
<1>2. TypeOK /\ Sources /\ [Next]_vars => TypeOK' /\ Sources'
  BY TypeStep
<1> QED
  BY <1>1, <1>2, PTL DEF Spec

-----------------------------------------------------------------------------
(* What the hub and the service do with the head of their channel. *)

LEMMA TakeFacts ==
    ASSUME TypeOK, Sources, Take
    PROVE  /\ Head(msgs) \in Sent /\ msgs \in Seq(Sent) /\ msgs # << >> /\ msgs' = Tail(msgs)
           /\ ToSet(msgs) = {Head(msgs)} \cup ToSet(msgs')
           /\ routing = {} /\ UNCHANGED <<parting, running, servVars, ch, reader, writer, closed>>
           /\ \/ /\ Head(msgs).subj = "_signon" /\ routing' = {}
                 /\ conns' = conns \cup {Head(msgs).from}
              \/ /\ Head(msgs).subj # "_signon" /\ routing' = {Head(msgs)}
                 /\ conns' = conns
<1>1. msgs \in Seq(Sent) /\ msgs # << >> /\ msgs' = Tail(msgs) /\ routing = {}
      /\ UNCHANGED <<parting, running, servVars, ch, reader, writer, closed>>
  BY DEF Sources, Take
<1>2. Head(msgs) \in Sent
  BY <1>1, HeadTailProperties
<1>3. ToSet(msgs) = {Head(msgs)} \cup ToSet(msgs')
  BY <1>1, ToSetTail
<1> QED
  BY <1>1, <1>2, <1>3 DEF Take

LEMMA DeliverFacts ==
    ASSUME TypeOK, Sources, NEW m \in Msgs, Deliver(m)
    PROVE  /\ m \in Sent /\ routing = {m} /\ routing' = {} /\ parting = {}
           /\ input \in Seq(Sent \cup {Bcast}) /\ input' = Append(input, m)
           /\ ToSet(input') = ToSet(input) \cup {m}
           /\ UNCHANGED <<msgs, running, sends, subs, stays, left, ch, reader, writer, closed>>
           /\ \/ /\ m.subj = "_signoff" /\ conns' = conns \ {m.from} /\ parting' = {m.from}
              \/ /\ m.subj # "_signoff" /\ conns' = conns /\ parting' = {}
<1>1. m \in routing /\ input' = Append(input, m) /\ Len(input) < InputCap
      /\ routing' = {} /\ UNCHANGED <<msgs, running, sends, subs, stays, left, ch, reader, writer, closed>>
  BY DEF Deliver
<1>2. m \in Sent /\ routing = {m} /\ parting = {} /\ input \in Seq(Sent \cup {Bcast})
  BY <1>1 DEF Sources
<1>3. ToSet(input') = ToSet(input) \cup {m}
  BY <1>1, <1>2, InputType
<1> QED
  BY <1>1, <1>2, <1>3 DEF Deliver, Leaves

LEMMA HandleFacts ==
    ASSUME TypeOK, Sources, Handle
    PROVE  LET m == Head(input)
           IN  /\ input \in Seq(Sent \cup {Bcast}) /\ input # << >> /\ input' = Tail(input)
               /\ ToSet(input) = {m} \cup ToSet(input') /\ sends = << >>
               /\ UNCHANGED <<hubVars, ch, reader, writer, closed>>
               /\ \/ /\ m = Bcast /\ ToSet(sends') \subseteq {Update(d) : d \in subs}
                     /\ UNCHANGED <<subs, stays, left>>
                  \/ /\ m \in Sent /\ m.subj = "req" /\ Once(sends', Answer(m.from))
                     /\ ToSet(sends') \subseteq
                          {Answer(m.from)} \cup {Update(d) : d \in subs \cap Same(m.from)}
                     /\ subs' \subseteq subs \cup {m.from} /\ UNCHANGED left
                     /\ \A d \in Clients \ {m.from} : d \in stays' <=> d \in stays
                  \/ /\ m \in Sent /\ m.subj = "_signoff" /\ sends' = << >>
                     /\ subs' = subs \ ({m.from} \ stays) /\ left' = left \cup {m.from}
                     /\ stays' = stays
<1> DEFINE m == Head(input)
<1>1. input \in Seq(Sent \cup {Bcast}) /\ input # << >> /\ input' = Tail(input)
      /\ sends = << >> /\ UNCHANGED <<hubVars, ch, reader, writer, closed>>
  BY DEF Handle, Sources
<1>2. m \in Sent \cup {Bcast} /\ ToSet(input) = {m} \cup ToSet(input')
  BY <1>1, HeadTailProperties, ToSetTail
<1>3. m # Bcast /\ (m.subj = "req" \/ m.subj = "_signoff") => m \in Sent
  BY <1>2
<1>4. Bcast.subj = "_bcast" /\ subs \subseteq Conns /\ \A n \in Sent : n.from \in Conns
  BY MsgFacts, SentFacts DEF TypeOK
<1>5. ASSUME NEW cs \in SUBSET subs, sends' \in SetToSeqs({Update(c) : c \in cs})
      PROVE  ToSet(sends') \subseteq {Update(d) : d \in subs}
  <2>1. IsFiniteSet(cs)
    BY FS_Subset DEF Sources
  <2>2. sends' \in Seq({Update(c) : c \in cs})
    BY <1>5, <2>1, RecipientsType
  <2> QED
    BY <2>2, ToSetDef
<1> HIDE DEF m
<1>6. CASE m = Bcast /\ (\E cs \in SUBSET subs : sends' \in SetToSeqs({Update(c) : c \in cs}))
           /\ UNCHANGED <<subs, stays, left>>
  BY <1>1, <1>2, <1>5, <1>6 DEF m
<1>7. CASE /\ m.subj = "req" /\ sends' \in Replies(m) \cup Flushes(m) /\ UNCHANGED left
           /\ Subscribes(m.from) \/ GivesUp(m.from) \/ UNCHANGED <<subs, stays>>
  <2>1. m \in Sent /\ m.from \in Conns
    BY <1>3, <1>4, <1>7
  <2>2. /\ Once(sends', Answer(m.from))
        /\ ToSet(sends') \subseteq
             {Answer(m.from)} \cup {Update(d) : d \in subs \cap Same(m.from)}
    BY <1>4, <1>7, <2>1, ReplyFacts
  <2>3. /\ subs' \subseteq subs \cup {m.from}
        /\ \A d \in Clients \ {m.from} : d \in stays' <=> d \in stays
    BY <1>7, <2>1, RegistryFacts
  <2> QED
    BY <1>1, <1>2, <1>7, <2>1, <2>2, <2>3 DEF m
<1>8. CASE m.subj = "_signoff" /\ subs' = Others(m.from) /\ left' = left \cup {m.from}
           /\ UNCHANGED <<sends, stays>>
  BY <1>1, <1>2, <1>3, <1>4, <1>8 DEF Others, m
<1> QED
  BY <1>6, <1>7, <1>8 DEF Handle, m
-----------------------------------------------------------------------------
(* The messages of a client. *)

ClientInv(c) == Trails(c) /\ Knows(c) /\ Nils(c)

\* A reader sends its own messages in its own order.
LEMMA ClientRoute ==
    ASSUME TypeOK, Sources, NEW c \in Clients, ClientInv(c),
           NEW d \in Conns, NEW at, NEW subj \in Subjs, NEW next,
           \/ at = "new" /\ subj = "_signon" /\ next = "read" /\ d \in Clients
           \/ at = "send" /\ subj = "req" /\ next = "read" /\ d \in Clients
           \/ at = "signoff" /\ subj = "_signoff" /\ next = "done" /\ d \in Clients
           \/ subj = "req" /\ d \in Callers,
           Route(d, at, subj, next),
           UNCHANGED <<routing, parting, running, conns, servVars, ch>>
    PROVE  ClientInv(c)'
<1> DEFINE m == [from |-> d, subj |-> subj]
<1> USE DEF servVars
<1>1. /\ m \in Sent /\ msgs' = Append(msgs, m) /\ ToSet(msgs') = ToSet(msgs) \cup {m}
      /\ reader[d] = at /\ reader'[d] = next /\ \A e \in Conns \ {d} : reader'[e] = reader[e]
  BY RouteType
<1>2. msgs \in Seq(Sent) /\ c \in Conns
  BY ConnSets DEF Sources
<1>3. Nils(c)'
  BY DEF ClientInv, Nils, Heard
<1>4. CASE d # c
  <2>1. m \notin From(c) /\ m # On(c) /\ m # Off(c) /\ reader'[c] = reader[c]
    BY <1>1, <1>2, <1>4, FromFacts, MsgFacts
  <2> HIDE DEF m
  <2>2. NoneAfter(msgs', Off(c), From(c)) /\ (c \notin conns => FirstOf(msgs', On(c), From(c)))
    BY <1>1, <1>2, <2>1, NoneAfterAppend, FirstOfAppend DEF ClientInv, Trails, Knows
  <2>3. Trails(c)'
    BY <1>1, <2>1, <2>2 DEF ClientInv, Trails, Heard, Addressed
  <2>4. Knows(c)'
    BY <1>1, <2>1, <2>2 DEF ClientInv, Knows, Heard
  <2> QED
    BY <1>3, <2>3, <2>4 DEF ClientInv
<1>5. CASE d = c
  <2>1. d \notin Callers
    BY <1>5, ConnSets
  <2>2. /\ at = "new" /\ next = "read" => m = On(c)
        /\ at = "send" => m = Req(c)
        /\ at = "signoff" => m = Off(c)
    BY <1>5, <2>1 DEF On, Req, Off
  <2>3. On(c) \in From(c) /\ Req(c) \in From(c) /\ Off(c) \in From(c)
        /\ On(c) # Off(c) /\ Req(c) # Off(c) /\ On(c) # Req(c)
    BY <1>2, FromFacts DEF From
  <2> HIDE DEF m
  <2>4. ~Heard(c) /\ Off(c) \notin ToSet(msgs) \cup routing
    BY <1>1, <1>5, <2>1 DEF ClientInv, Trails
  <2>5. NoneAfter(msgs', Off(c), From(c))
    BY <1>1, <1>2, <2>4, NoneAfterAppend DEF ClientInv, Trails
  <2>6. c \notin conns => FirstOf(msgs', On(c), From(c))
    BY <1>1, <1>2, <1>5, <2>1, <2>2, FirstOfAppend DEF ClientInv, Knows
  <2>7. Trails(c)'
    BY <1>1, <1>5, <2>1, <2>2, <2>3, <2>4, <2>5 DEF ClientInv, Trails, Heard, Addressed
  <2>8. Knows(c)'
    BY <1>1, <1>5, <2>1, <2>2, <2>3, <2>4, <2>6 DEF ClientInv, Knows, Heard
  <2> QED
    BY <1>3, <2>7, <2>8 DEF ClientInv
<1> QED
  BY <1>4, <1>5

LEMMA ClientTake ==
    ASSUME TypeOK, Sources, NEW c \in Clients, ClientInv(c), Take
    PROVE  ClientInv(c)'
<1> DEFINE m == Head(msgs)
<1> USE DEF servVars
<1>1. /\ m \in Sent /\ msgs \in Seq(Sent) /\ msgs # << >> /\ msgs' = Tail(msgs)
      /\ ToSet(msgs) = {m} \cup ToSet(msgs')
      /\ routing = {} /\ UNCHANGED <<parting, running, servVars, ch, reader, writer, closed>>
      /\ \/ m.subj = "_signon" /\ routing' = {} /\ conns' = conns \cup {m.from}
         \/ m.subj # "_signon" /\ routing' = {m} /\ conns' = conns
  BY TakeFacts
<1> HIDE DEF m
<1>2. /\ m \in Msgs /\ (m \in From(c) <=> m.from = c)
      /\ m = On(c) <=> m.from = c /\ m.subj = "_signon"
      /\ m = Off(c) <=> m.from = c /\ m.subj = "_signoff"
      /\ On(c) # Off(c) /\ On(c) \in From(c) /\ Off(c) \in From(c)
  BY <1>1, ConnSets, FromFacts, SentFacts DEF From
<1>3. NoneAfter(msgs', Off(c), From(c)) /\ (m = Off(c) => ToSet(msgs') \cap From(c) = {})
  BY <1>1, NoneAfterTail DEF ClientInv, Trails, m
<1>4. c \notin conns /\ m # On(c) => m \notin From(c) /\ FirstOf(msgs', On(c), From(c))
  BY <1>1, FirstOfTail DEF ClientInv, Knows, m
<1>5. Trails(c)'
  BY <1>1, <1>2, <1>3 DEF ClientInv, Trails, Heard, Addressed
<1>6. Knows(c)'
  <2>1. c \notin conns' => FirstOf(msgs', On(c), From(c))
    BY <1>1, <1>2, <1>4
  <2>2. routing' \cap From(c) # {} => c \in conns'
    BY <1>1, <1>2, <1>4
  <2>3. c \in conns \/ On(c) \in ToSet(msgs) <=> c \in conns' \/ On(c) \in ToSet(msgs')
    BY <1>1, <1>2
  <2>4. Off(c) \in ToSet(msgs) => Off(c) \in ToSet(msgs') \cup routing'
    BY <1>1, <1>2
  <2>5. Heard(c)' => c \notin conns'
    BY <1>1, <1>2 DEF ClientInv, Trails, Knows, Heard
  <2> QED
    BY <1>1, <2>1, <2>2, <2>3, <2>4, <2>5 DEF ClientInv, Knows
<1>7. Nils(c)'
  BY <1>1 DEF ClientInv, Nils, Heard
<1> QED
  BY <1>5, <1>6, <1>7 DEF ClientInv

LEMMA ClientDeliver ==
    ASSUME TypeOK, Sources, NEW c \in Clients, ClientInv(c), NEW m \in Msgs, Deliver(m)
    PROVE  ClientInv(c)'
<1>1. /\ m \in Sent /\ routing = {m} /\ routing' = {} /\ parting = {}
      /\ input \in Seq(Sent \cup {Bcast}) /\ input' = Append(input, m)
      /\ ToSet(input') = ToSet(input) \cup {m}
      /\ UNCHANGED <<msgs, running, sends, subs, stays, left, ch, reader, writer, closed>>
      /\ \/ m.subj = "_signoff" /\ conns' = conns \ {m.from} /\ parting' = {m.from}
         \/ m.subj # "_signoff" /\ conns' = conns /\ parting' = {}
  BY DeliverFacts
<1>2. /\ m \in From(c) <=> m.from = c
      /\ m = Off(c) <=> m.from = c /\ m.subj = "_signoff"
      /\ Off(c) \in From(c) /\ On(c) \in From(c)
  BY ConnSets, FromFacts DEF From
<1>3. NoneAfter(input', Off(c), From(c))
  BY <1>1, <1>2, NoneAfterAppend DEF ClientInv, Trails, Heard, Addressed
<1>4. Heard(c)' <=> Heard(c) \/ m = Off(c)
  BY <1>1 DEF Heard
<1>5. Trails(c)'
  BY <1>1, <1>2, <1>3, <1>4 DEF ClientInv, Trails, Heard, Addressed
<1>6. Knows(c)'
  <2>1. CASE m = Off(c)
    <3>1. ToSet(msgs) \cap From(c) = {} /\ reader[c] = "done"
      BY <1>1, <2>1 DEF ClientInv, Trails
    <3>2. c \notin conns' /\ On(c) \notin ToSet(msgs)
      BY <1>1, <1>2, <2>1, <3>1
    <3>3. FirstOf(msgs, On(c), From(c))
      BY <1>1, <3>1, ToSetDef DEF FirstOf, Sources
    <3> QED
      BY <1>1, <3>1, <3>2, <3>3 DEF Knows
  <2>2. CASE m # Off(c)
    BY <1>1, <1>2, <1>4, <2>2 DEF ClientInv, Knows
  <2> QED
    BY <2>1, <2>2
<1>7. Nils(c)'
  BY <1>1, <1>2, <1>4 DEF ClientInv, Trails, Nils
<1> QED
  BY <1>5, <1>6, <1>7 DEF ClientInv

LEMMA ClientHandle ==
    ASSUME TypeOK, Sources, NEW c \in Clients, ClientInv(c), Handle
    PROVE  ClientInv(c)'
<1> DEFINE m == Head(input)
<1> USE DEF hubVars
<1>1. /\ input \in Seq(Sent \cup {Bcast}) /\ input # << >> /\ input' = Tail(input)
      /\ ToSet(input) = {m} \cup ToSet(input') /\ sends = << >>
      /\ UNCHANGED <<hubVars, ch, reader, writer, closed>>
      /\ \/ /\ m = Bcast /\ ToSet(sends') \subseteq {Update(d) : d \in subs}
            /\ UNCHANGED <<subs, stays, left>>
         \/ /\ m \in Sent /\ m.subj = "req"
            /\ ToSet(sends') \subseteq
                 {Answer(m.from)} \cup {Update(d) : d \in subs \cap Same(m.from)}
            /\ subs' \subseteq subs \cup {m.from} /\ UNCHANGED left
            /\ \A d \in Clients \ {m.from} : d \in stays' <=> d \in stays
         \/ /\ m \in Sent /\ m.subj = "_signoff" /\ sends' = << >>
            /\ subs' = subs \ ({m.from} \ stays) /\ left' = left \cup {m.from}
            /\ stays' = stays
  BY HandleFacts
<1>2. NoneAfter(input', Off(c), From(c)) /\ (m = Off(c) => ToSet(input') \cap From(c) = {})
  BY <1>1, NoneAfterTail DEF ClientInv, Trails
<1> HIDE DEF m
<1>3. /\ Bcast \notin From(c) /\ Off(c) \in From(c) /\ ToSet(<< >>) = {}
      /\ \A n \in Sent : /\ n \in From(c) <=> n.from = c
                         /\ n = Off(c) <=> n.from = c /\ n.subj = "_signoff"
  BY ConnSets, FromFacts, SentFacts, ToSetEmpty DEF From
<1>4. Heard(c)' <=> Heard(c)
  BY <1>1, <1>3 DEF Heard
<1>5. ASSUME c \in left'
      PROVE  /\ ToSet(input') \cap From(c) = {}
             /\ c \in subs' \/ Addressed(c)' => c \in stays'
  <2>0. \A d \in Conns : Answer(d).to = d /\ Update(d).to = d
    BY OutFacts
  <2>1. subs \subseteq Conns /\ Bcast \notin Sent /\ \A n \in Sent : n.from \in Conns
    BY MsgFacts, SentFacts DEF TypeOK
  <2>2. CASE c \in left
    <3>1. ToSet(input) \cap From(c) = {} /\ (c \in subs => c \in stays)
      BY <2>2 DEF ClientInv, Trails
    <3>2. m = Bcast \/ m.from # c
      BY <1>1, <1>3, <3>1
    <3>3. (c \in subs' => c \in subs) /\ (c \in stays' <=> c \in stays)
      BY <1>1, <2>1, <3>2
    <3>4. Addressed(c)' => c \in subs
      BY <1>1, <1>3, <2>0, <2>1, <3>2 DEF Addressed
    <3> QED
      BY <1>1, <3>1, <3>3, <3>4
  <2>3. CASE c \notin left
    <3>1. m = Off(c) /\ m.from = c /\ sends' = << >> /\ stays' = stays
          /\ subs' = subs \ ({c} \ stays)
      BY <1>1, <1>3, <1>5, <2>3
    <3>2. ~Addressed(c)'
      BY <1>3, <3>1 DEF Addressed
    <3> QED
      BY <1>2, <3>1, <3>2
  <2> QED
    BY <2>2, <2>3
<1>6. Trails(c)'
  BY <1>1, <1>2, <1>4, <1>5 DEF ClientInv, Trails
<1>7. Knows(c)' /\ Nils(c)'
  BY <1>1, <1>4 DEF ClientInv, Knows, Nils
<1> QED
  BY <1>6, <1>7 DEF ClientInv

\* Taking from a channel loses nothing but its head.
LEMMA Drained ==
    ASSUME NEW s \in Seq({"msg", "nil"}), s # << >>
    PROVE  /\ ToSet(Tail(s)) \subseteq ToSet(s)
           /\ Once(s, "nil") => Once(Tail(s), "nil")
<1>1. ToSet(s) = {Head(s)} \cup ToSet(Tail(s))
  BY ToSetTail
<1>2. Once(s, "nil") => Once(Tail(s), "nil")
  BY OnceTail
<1> QED
  BY <1>1, <1>2

LEMMA ClientStep ==
    ASSUME TypeOK, Sources, NEW c \in Clients, ClientInv(c), [Next]_vars
    PROVE  ClientInv(c)'
<1> USE DEF hubVars, servVars
<1>0. c \in Conns /\ ch[c] \in Seq({"msg", "nil"})
  BY ConnSets DEF TypeOK
<1>1. CASE UNCHANGED vars
  BY <1>1 DEF vars, ClientInv, Trails, Knows, Nils, Heard, Addressed
<1>2. ASSUME NEW d \in Clients, SignOn(d) \/ PassOn(d) \/ SignOff(d)
      PROVE  ClientInv(c)'
  <2>1. /\ \/ Route(d, "new", "_signon", "read") \/ Route(d, "send", "req", "read")
           \/ Route(d, "signoff", "_signoff", "done")
        /\ UNCHANGED <<routing, parting, running, conns, servVars, ch>>
    BY <1>2 DEF SignOn, PassOn, SignOff
  <2> QED
    BY <2>1, ClientRoute, ConnSets DEF Subjs
<1>3. ASSUME NEW q \in Callers, CallerSends(q) PROVE ClientInv(c)'
  <2>1. Route(q, "new", "req", "wait")
        /\ UNCHANGED <<routing, parting, running, conns, servVars, ch>>
    BY <1>3 DEF CallerSends
  <2> QED
    BY <2>1, ClientRoute, ConnSets DEF Subjs
<1>4. ASSUME NEW d \in Clients, ReadMsg(d) \/ ReadEnds(d) PROVE ClientInv(c)'
  <2>1. /\ UNCHANGED <<hubVars, servVars, ch>> /\ reader[d] = "read"
        /\ \E next \in {"send", "signoff"} : reader' = [reader EXCEPT ![d] = next]
    BY <1>4 DEF ReadMsg, ReadEnds
  <2>2. reader'[c] = reader[c] \/ (reader[c] = "read" /\ reader'[c] \in {"send", "signoff"})
    BY <1>0, <2>1 DEF TypeOK
  <2> QED
    BY <2>1, <2>2 DEF ClientInv, Trails, Knows, Nils, Heard, Addressed
<1>5. ASSUME UNCHANGED <<hubVars, servVars>>, reader'[c] = reader[c],
             ch'[c] = ch[c] \/ (ch[c] # << >> /\ ch'[c] = Tail(ch[c]))
      PROVE  ClientInv(c)'
  <2>1. ToSet(ch'[c]) \subseteq ToSet(ch[c]) /\ Once(ch'[c], "nil")
    BY <1>0, <1>5, Drained DEF ClientInv, Nils
  <2> QED
    BY <1>5, <2>1 DEF ClientInv, Trails, Knows, Nils, Heard, Addressed
<1>6. ASSUME NEW d \in Clients, Write(d) \/ WriterEnds(d) PROVE ClientInv(c)'
  <2>1. UNCHANGED <<hubVars, servVars, reader>>
        /\ (UNCHANGED ch \/ (ch[d] # << >> /\ ch' = [ch EXCEPT ![d] = Tail(@)]))
    BY <1>6 DEF Write, WriterEnds
  <2>2. ch'[c] = ch[c] \/ (ch[c] # << >> /\ ch'[c] = Tail(ch[c]))
    BY <1>0, <2>1 DEF TypeOK
  <2> QED
    BY <1>5, <2>1, <2>2
<1>7. ASSUME NEW q \in Callers, CallerReturns(q) PROVE ClientInv(c)'
  <2>1. UNCHANGED <<hubVars, servVars>> /\ reader' = [reader EXCEPT ![q] = "done"]
        /\ (UNCHANGED ch \/ ch' = [ch EXCEPT ![q] = Tail(@)])
    BY <1>7 DEF CallerReturns
  <2>2. reader'[c] = reader[c] /\ ch'[c] = ch[c]
    BY <1>0, <2>1, ConnSets DEF TypeOK
  <2> QED
    BY <1>5, <2>1, <2>2
<1>8. ASSUME NEW d \in Conns, Part(d) PROVE ClientInv(c)'
  <2>1. /\ d \in parting /\ parting' = {} /\ Put(d, "nil")
        /\ UNCHANGED <<msgs, routing, running, conns, servVars, reader>>
    BY <1>8 DEF Part
  <2>2. \/ ch'[c] = ch[c]
        \/ c \in parting /\ ch'[c] = Append(ch[c], "nil")
    BY <1>0, <2>1, PutType
  <2>3. CASE ch'[c] = ch[c]
    BY <2>1, <2>3 DEF ClientInv, Trails, Knows, Nils, Heard, Addressed
  <2>4. CASE c \in parting /\ ch'[c] = Append(ch[c], "nil")
    <3>1. Once(ch'[c], "nil")
      BY <1>0, <2>4, OnceAppend DEF ClientInv, Nils
    <3> QED
      BY <2>1, <2>4, <3>1 DEF ClientInv, Trails, Knows, Nils, Heard, Addressed
  <2> QED
    BY <2>2, <2>3, <2>4
<1>9. ASSUME HubStops PROVE ClientInv(c)'
  BY <1>9 DEF HubStops, ClientInv, Trails, Knows, Nils, Heard, Addressed
<1>10. ASSUME Reply PROVE ClientInv(c)'
  <2>1. /\ sends # << >> /\ sends' = Tail(sends) /\ Put(Head(sends).to, "msg")
        /\ UNCHANGED <<hubVars, input, subs, stays, left, reader>>
    BY <1>10 DEF Reply
  <2>2. Head(sends).to \in Conns /\ ToSet(sends') \subseteq ToSet(sends)
    BY <2>1, HeadTailProperties, ToSetTail, OutFacts DEF TypeOK
  <2>3. ch'[c] = ch[c] \/ ch'[c] = Append(ch[c], "msg")
    BY <1>0, <2>1, <2>2, PutType
  <2>4. ToSet(ch'[c]) \subseteq ToSet(ch[c]) \cup {"msg"} /\ Once(ch'[c], "nil")
    <3>1. Once(ch[c], "nil") /\ "msg" \in {"msg", "nil"}
      BY DEF ClientInv, Nils
    <3>2. ToSet(Append(ch[c], "msg")) = ToSet(ch[c]) \cup {"msg"}
      BY <1>0, <3>1, ToSetAppend
    <3>3. Once(Append(ch[c], "msg"), "nil")
      BY <1>0, <3>1, OnceAppend
    <3> QED
      BY <2>3, <3>1, <3>2, <3>3
  <2>5. Trails(c)' /\ Knows(c)'
    BY <2>1, <2>2 DEF ClientInv, Trails, Knows, Heard, Addressed
  <2>6. Nils(c)'
    BY <2>1, <2>4 DEF ClientInv, Nils, Heard
  <2> QED
    BY <2>5, <2>6 DEF ClientInv
<1>11. ASSUME TimerFires PROVE ClientInv(c)'
  <2>1. /\ Len(input) < InputCap /\ input' = Append(input, Bcast) /\ input \in Seq(Sent \cup {Bcast})
        /\ UNCHANGED <<hubVars, sends, subs, stays, left, ch, reader>>
    BY <1>11 DEF TimerFires, Sources
  <2>2. ToSet(input') = ToSet(input) \cup {Bcast} /\ Bcast \notin From(c) /\ Bcast # Off(c)
    BY <1>0, <2>1, ToSetAppend, FromFacts DEF From
  <2>3. NoneAfter(input', Off(c), From(c))
    BY <2>1, <2>2, NoneAfterAppend DEF ClientInv, Trails
  <2> QED
    BY <2>1, <2>2, <2>3 DEF ClientInv, Trails, Knows, Nils, Heard, Addressed
<1> QED
  BY <1>1, <1>2, <1>3, <1>4, <1>6, <1>7, <1>8, <1>9, <1>10, <1>11,
     ClientTake, ClientDeliver, ClientHandle DEF Next

LEMMA ClientInit == ASSUME Init, NEW c \in Clients PROVE ClientInv(c)
<1>1. /\ msgs = << >> /\ input = << >> /\ routing = {} /\ parting = {} /\ left = {} /\ conns = {}
      /\ reader[c] = "new" /\ ch[c] = << >>
  BY ConnSets DEF Init
<1>2. ToSet(<< >>) = {} /\ \A e, F : NoneAfter(<< >>, e, F) /\ FirstOf(<< >>, e, F) /\ Once(<< >>, e)
  BY ToSetEmpty DEF NoneAfter, FirstOf, Once
<1> QED
  BY <1>1, <1>2 DEF ClientInv, Trails, Knows, Nils, Heard, Addressed

-----------------------------------------------------------------------------
(* The request of a one-off caller. *)

LEMMA CallerRoute ==
    ASSUME TypeOK, Sources, NEW q \in Callers, Asked(q),
           NEW d \in Conns, NEW at, NEW subj \in Subjs, NEW next,
           d = q => at = "new" /\ subj = "req" /\ next = "wait",
           subj = "req" \/ d \in Clients,
           Route(d, at, subj, next),
           UNCHANGED <<routing, parting, running, conns, servVars, ch>>
    PROVE  Asked(q)'
<1> DEFINE m == [from |-> d, subj |-> subj]
<1> USE DEF servVars
<1>1. /\ m \in Sent /\ msgs' = Append(msgs, m) /\ ToSet(msgs') = ToSet(msgs) \cup {m}
      /\ reader[d] = at /\ reader'[d] = next /\ \A e \in Conns \ {d} : reader'[e] = reader[e]
  BY RouteType
<1>2. msgs \in Seq(Sent) /\ q \in Conns
  BY ConnSets DEF Sources
<1>3. m = Req(q) <=> d = q
  BY DEF Req
<1> HIDE DEF m
<1>4. Once(msgs', Req(q))
  BY <1>1, <1>2, <1>3, OnceAppend DEF Asked, OnTheWay
<1>5. OnTheWay' = OnTheWay \cup {m}
  BY <1>1 DEF OnTheWay
<1>6. CASE d # q
  BY <1>1, <1>2, <1>3, <1>4, <1>5, <1>6 DEF Asked, Addressed
<1>7. CASE d = q
  <2>1. reader'[q] = "wait" /\ Req(q) \notin OnTheWay
        /\ q \notin subs /\ ~Addressed(q) /\ ch[q] = << >>
    BY <1>1, <1>7 DEF Asked
  <2>2. Bcast # Req(q)
    BY <1>2, FromFacts DEF From
  <2>3. Req(q) \notin routing /\ Req(q) \notin ToSet(input)
    BY <2>1, <2>2 DEF OnTheWay
  <2> QED
    BY <1>4, <2>1, <2>3 DEF Asked, Addressed
<1> QED
  BY <1>6, <1>7

LEMMA CallerStep ==
    ASSUME TypeOK, Sources, NEW q \in Callers, Asked(q), [Next]_vars
    PROVE  Asked(q)'
<1> USE DEF hubVars, servVars
<1>0. /\ q \in Conns /\ q \notin Clients /\ Bcast # Req(q) /\ Req(q) \in From(q)
      /\ \A m \in Msgs : m = Req(q) <=> m.from = q /\ m.subj = "req"
      /\ \A m \in Sent : m = Req(q) <=> m.from = q
  BY ConnSets, FromFacts, SentFacts DEF From
<1>1. CASE UNCHANGED vars
  BY <1>1 DEF vars, Asked, OnTheWay, Addressed
<1>2. ASSUME NEW d \in Clients, SignOn(d) \/ PassOn(d) \/ SignOff(d)
      PROVE  Asked(q)'
  <2>1. /\ \/ Route(d, "new", "_signon", "read") \/ Route(d, "send", "req", "read")
           \/ Route(d, "signoff", "_signoff", "done")
        /\ UNCHANGED <<routing, parting, running, conns, servVars, ch>>
    BY <1>2 DEF SignOn, PassOn, SignOff
  <2>2. d \in Conns /\ d # q /\ {"_signon", "req", "_signoff"} \subseteq Subjs
    BY <1>0, ConnSets DEF Subjs
  <2> QED
    BY <2>1, <2>2, CallerRoute
<1>3. ASSUME NEW d \in Callers, CallerSends(d) PROVE Asked(q)'
  <2>1. Route(d, "new", "req", "wait")
        /\ UNCHANGED <<routing, parting, running, conns, servVars, ch>>
    BY <1>3 DEF CallerSends
  <2> QED
    BY <2>1, CallerRoute, ConnSets DEF Subjs
<1>4. ASSUME UNCHANGED <<hubVars, servVars>>, reader'[q] = reader[q], ch'[q] = ch[q]
      PROVE  Asked(q)'
  BY <1>4 DEF Asked, OnTheWay, Addressed
<1>5. ASSUME NEW d \in Clients, ReadMsg(d) \/ ReadEnds(d) \/ Write(d) \/ WriterEnds(d)
      PROVE  Asked(q)'
  <2>1. /\ UNCHANGED <<hubVars, servVars>>
        /\ UNCHANGED reader \/ \E next : reader' = [reader EXCEPT ![d] = next]
        /\ UNCHANGED ch \/ ch' = [ch EXCEPT ![d] = Tail(@)]
    BY <1>5 DEF ReadMsg, ReadEnds, Write, WriterEnds
  <2>2. reader'[q] = reader[q] /\ ch'[q] = ch[q]
    BY <1>0, <2>1 DEF TypeOK
  <2> QED
    BY <1>4, <2>1, <2>2
<1>6. ASSUME NEW d \in Callers, CallerReturns(d) PROVE Asked(q)'
  <2>1. /\ UNCHANGED <<hubVars, servVars>> /\ reader[d] = "wait"
        /\ reader' = [reader EXCEPT ![d] = "done"]
        /\ UNCHANGED ch \/ (ch[d] # << >> /\ ch' = [ch EXCEPT ![d] = Tail(@)])
    BY <1>6 DEF CallerReturns
  <2>2. CASE d # q
    <3>1. reader'[q] = reader[q] /\ ch'[q] = ch[q]
      BY <1>0, <2>1, <2>2 DEF TypeOK
    <3> QED
      BY <1>4, <2>1, <3>1
  <2>3. CASE d = q
    <3>1. reader'[q] = "done" /\ (ch'[q] = ch[q] \/ ch[q] # << >>)
      BY <1>0, <2>1, <2>3 DEF TypeOK
    <3> QED
      BY <2>1, <3>1 DEF Asked, OnTheWay, Addressed
  <2> QED
    BY <2>2, <2>3
<1>7. ASSUME Take PROVE Asked(q)'
  <2> DEFINE m == Head(msgs)
  <2>1. /\ m \in Sent /\ msgs \in Seq(Sent) /\ msgs # << >> /\ msgs' = Tail(msgs)
        /\ ToSet(msgs) = {m} \cup ToSet(msgs')
        /\ routing = {} /\ UNCHANGED <<parting, running, servVars, ch, reader, writer, closed>>
        /\ \/ m.subj = "_signon" /\ routing' = {}
           \/ m.subj # "_signon" /\ routing' = {m}
    BY <1>7, TakeFacts
  <2>2. Once(msgs', Req(q)) /\ (m = Req(q) => Req(q) \notin ToSet(msgs'))
    BY <2>1, OnceTail DEF Asked
  <2> HIDE DEF m
  <2>3. Req(q) \in OnTheWay' <=> Req(q) \in OnTheWay
    BY <1>0, <2>1, SentFacts DEF OnTheWay
  <2>4. Req(q) \in routing' <=> m = Req(q)
    BY <1>0, <2>1, SentFacts
  <2> QED
    BY <2>1, <2>2, <2>3, <2>4 DEF Asked, Addressed
<1>8. ASSUME NEW m \in Msgs, Deliver(m) PROVE Asked(q)'
  <2>1. /\ m \in Sent /\ routing = {m} /\ routing' = {}
        /\ input \in Seq(Sent \cup {Bcast}) /\ input' = Append(input, m)
        /\ ToSet(input') = ToSet(input) \cup {m}
        /\ UNCHANGED <<msgs, running, sends, subs, stays, left, ch, reader, writer, closed>>
    BY <1>8, DeliverFacts
  <2>2. Once(input', Req(q))
    BY <2>1, OnceAppend DEF Asked
  <2>3. m # Bcast
    BY MsgFacts
  <2>4. OnTheWay' = OnTheWay
    BY <2>1, <2>3 DEF OnTheWay
  <2> QED
    BY <2>1, <2>2, <2>4 DEF Asked, Addressed
<1>9. ASSUME NEW d \in Conns, Part(d) PROVE Asked(q)'
  <2>1. /\ d \in parting /\ Put(d, "nil")
        /\ UNCHANGED <<msgs, routing, servVars, reader>>
    BY <1>9 DEF Part
  <2>2. ch'[q] = ch[q]
    BY <1>0, <2>1, PutType DEF TypeOK
  <2> QED
    BY <2>1, <2>2 DEF Asked, OnTheWay, Addressed
<1>10. ASSUME HubStops PROVE Asked(q)'
  BY <1>10 DEF HubStops, Asked, OnTheWay, Addressed
<1>11. ASSUME Handle PROVE Asked(q)'
  <2> DEFINE m == Head(input)
  <2>1. /\ input \in Seq(Sent \cup {Bcast}) /\ input # << >> /\ input' = Tail(input)
        /\ ToSet(input) = {m} \cup ToSet(input') /\ sends = << >>
        /\ UNCHANGED <<hubVars, ch, reader, writer, closed>>
        /\ \/ m = Bcast /\ ToSet(sends') \subseteq {Update(d) : d \in subs} /\ subs' = subs
           \/ /\ m \in Sent /\ m.subj = "req" /\ Once(sends', Answer(m.from))
              /\ ToSet(sends') \subseteq
                   {Answer(m.from)} \cup {Update(d) : d \in subs \cap Same(m.from)}
              /\ subs' \subseteq subs \cup {m.from}
           \/ /\ m \in Sent /\ m.subj = "_signoff" /\ sends' = << >> /\ subs' \subseteq subs
    BY <1>11, HandleFacts
  <2>2. Once(input', Req(q)) /\ (m = Req(q) => Req(q) \notin ToSet(input'))
    BY <2>1, OnceTail DEF Asked
  <2> HIDE DEF m
  <2>3. OnTheWay' \subseteq OnTheWay /\ (m = Req(q) => Req(q) \in OnTheWay)
    BY <1>0, <2>1 DEF OnTheWay
  <2>4. /\ subs \subseteq Conns /\ ToSet(<< >>) = {}
        /\ Bcast \notin Sent /\ \A n \in Sent : n.from \in Conns
        /\ \A d \in Conns : /\ Answer(d).to = d /\ Update(d).to = d
                            /\ Answer(d) # Update(q) /\ Update(d) # Answer(q)
                            /\ Answer(d) = Answer(q) => d = q
                            /\ Update(d) = Update(q) => d = q
    BY <1>0, ToSetEmpty, OutFacts, MsgFacts, SentFacts DEF TypeOK
  <2>5. CASE m = Req(q)
    <3>1. Req(q) \notin OnTheWay'
      BY <1>0, <2>1, <2>2, <2>5 DEF OnTheWay, Asked
    <3>2. reader[q] # "new" /\ ch[q] = << >> /\ q \notin subs
      BY <2>3, <2>5 DEF Asked
    <3>3. m # Bcast /\ m.from = q /\ m.subj = "req"
      BY <1>0, <2>5 DEF Req
    <3>4. Once(sends', Answer(q)) /\ Update(q) \notin ToSet(sends')
      BY <2>1, <2>4, <3>2, <3>3
    <3>5. Req(q) \notin ToSet(msgs)' \cup routing'
      BY <3>1 DEF OnTheWay
    <3> QED
      BY <2>1, <2>2, <3>1, <3>2, <3>4, <3>5 DEF Asked
  <2>6. CASE m # Req(q)
    <3>1. m = Bcast \/ m.from # q
      BY <1>0, <2>1, <2>6
    <3>2. Answer(q) \notin ToSet(sends') /\ (q \notin subs => q \notin subs' /\ ~Addressed(q)')
      <4>1. ASSUME m = Bcast
            PROVE  /\ subs' = subs /\ ToSet(sends') \subseteq {Update(d) : d \in subs}
        BY <2>1, <2>4, <4>1
      <4>2. ASSUME m \in Sent, m.from # q
            PROVE  /\ q \in subs' => q \in subs
                   /\ ToSet(sends') \subseteq {Answer(m.from)} \cup {Update(d) : d \in subs}
        BY <2>1, <2>4, <4>2
      <4>3. m = Bcast \/ (m \in Sent /\ m.from # q)
        BY <2>1, <3>1
      <4> QED
        BY <2>4, <4>1, <4>2, <4>3 DEF Addressed
    <3>3. Once(sends', Answer(q))
      <4>1. \A i \in 1..Len(sends') : sends'[i] # Answer(q)
        BY <3>2, ToSetDef, TypeStep DEF TypeOK
      <4> QED
        BY <4>1 DEF Once
    <3>4. Once(msgs', Req(q)) /\ UNCHANGED <<msgs, routing, ch, reader>>
      BY <2>1 DEF Asked
    <3> QED
      BY <2>1, <2>2, <2>3, <3>2, <3>3, <3>4 DEF Asked
  <2> QED
    BY <2>5, <2>6
<1>12. ASSUME Reply PROVE Asked(q)'
  <2>1. /\ sends # << >> /\ sends' = Tail(sends) /\ Put(Head(sends).to, "msg")
        /\ sends \in Seq(Outs)
        /\ UNCHANGED <<hubVars, input, subs, stays, left, reader>>
    BY <1>12 DEF Reply, TypeOK
  <2>2. /\ Head(sends) \in Outs /\ Head(sends).to \in Conns
        /\ ToSet(sends) = {Head(sends)} \cup ToSet(sends')
        /\ Head(sends) = Answer(Head(sends).to) \/ Head(sends) = Update(Head(sends).to)
    BY <2>1, HeadTailProperties, ToSetTail, OutFacts
  <2>3. Once(sends', Answer(q)) /\ (Head(sends) = Answer(q) => Answer(q) \notin ToSet(sends'))
    BY <2>1, OnceTail DEF Asked
  <2>4. Head(sends).to # q => ch'[q] = ch[q]
    BY <1>0, <2>1, <2>2, PutType
  <2>5. OnTheWay' = OnTheWay /\ (Addressed(q)' => Addressed(q)) /\ (Head(sends).to = q => Addressed(q))
    BY <2>1, <2>2 DEF OnTheWay, Addressed
  <2>6. Answer(q) \in ToSet(sends') => Head(sends).to # q
    BY <2>2, <2>3 DEF Asked
  <2> QED
    BY <2>1, <2>2, <2>3, <2>4, <2>5, <2>6 DEF Asked
<1>13. ASSUME TimerFires PROVE Asked(q)'
  <2>1. /\ input' = Append(input, Bcast) /\ input \in Seq(Sent \cup {Bcast})
        /\ UNCHANGED <<hubVars, sends, subs, stays, left, ch, reader>>
    BY <1>13 DEF TimerFires, Sources
  <2>2. ToSet(input') = ToSet(input) \cup {Bcast} /\ Once(input', Req(q))
    BY <1>0, <2>1, ToSetAppend, OnceAppend DEF Asked
  <2>3. OnTheWay' = OnTheWay
    BY <2>1, <2>2 DEF OnTheWay
  <2> QED
    BY <1>0, <2>1, <2>2, <2>3 DEF Asked, Addressed
<1> QED
  BY <1>1, <1>2, <1>3, <1>5, <1>6, <1>7, <1>8, <1>9, <1>10, <1>11, <1>12, <1>13 DEF Next

LEMMA CallerInit == ASSUME Init, NEW q \in Callers PROVE Asked(q)
<1>1. /\ msgs = << >> /\ input = << >> /\ routing = {} /\ sends = << >> /\ ch[q] = << >>
      /\ subs = {}
  BY ConnSets DEF Init
<1>2. ToSet(<< >>) = {} /\ \A e : Once(<< >>, e)
  BY ToSetEmpty DEF Once
<1> QED
  BY <1>1, <1>2 DEF Asked, OnTheWay, Addressed

-----------------------------------------------------------------------------
(* The theorems. *)

LEMMA HubInvariant == Spec => []HubInv
<1>1. Init => HubInv
  BY TypeInit, ClientInit, CallerInit DEF HubInv, ClientInv
<1>2. HubInv /\ [Next]_vars => HubInv'
  <2> SUFFICES ASSUME HubInv, [Next]_vars PROVE HubInv'
    OBVIOUS
  <2>1. TypeOK /\ Sources
    BY DEF HubInv
  <2>2. TypeOK' /\ Sources'
    BY <2>1, TypeStep
  <2>3. \A c \in Clients : ClientInv(c)'
    BY <2>1, ClientStep DEF HubInv, ClientInv
  <2>4. \A q \in Callers : Asked(q)'
    BY <2>1, CallerStep DEF HubInv
  <2> QED
    BY <2>2, <2>3, <2>4 DEF HubInv, ClientInv
<1> QED
  BY <1>1, <1>2, PTL DEF Spec

\* However many connections come and go, and however the hub and the service
\* fall behind: when the service handled a signoff nothing of that connection is
\* on its way any more (hub.go:48-58), and it is sent to only if the signoff left a
\* monitor or a topic of it in the registry (subs.go:147).
THEOREM SignoffIsLast == Spec => []SignoffLast
<1>1. HubInv => SignoffLast
  <2> SUFFICES ASSUME HubInv, NEW c \in left
               PROVE  /\ \A m \in OnTheWay : m.from # c
                      /\ c \in subs \/ Addressed(c) => c \in stays
    BY DEF SignoffLast, Addressed
  <2>1. c \in Clients /\ c \in Conns /\ Trails(c) /\ Heard(c)
    BY ConnSets DEF HubInv, TypeOK, Heard
  <2>2. OnTheWay \cap From(c) = {}
    BY <2>1 DEF Trails, OnTheWay
  <2>3. OnTheWay \subseteq Msgs
    <3>1. ToSet(msgs) \subseteq Msgs /\ ToSet(input) \subseteq Msgs \cup {Bcast}
      BY ToSetDef DEF HubInv, TypeOK
    <3> QED
      BY <3>1 DEF OnTheWay, HubInv, TypeOK
  <2> QED
    BY <2>1, <2>2, <2>3, FromFacts DEF Trails
<1> QED
  BY <1>1, HubInvariant, PTL

\* The hub has a connection in its map whenever it routes a message of it, and
\* a connection that is done still has its signoff to be routed: none is kept
\* for ever, none is sent to before it is known.
THEOREM HubKnowsConns == Spec => []ConnsKnown
<1>1. HubInv => ConnsKnown
  <2> SUFFICES ASSUME HubInv PROVE ConnsKnown
    OBVIOUS
  <2>1. \A m \in routing : m.from \in Clients => m.from \in conns
    <3> SUFFICES ASSUME NEW m \in routing, m.from \in Clients PROVE m.from \in conns
      OBVIOUS
    <3>1. m \in Msgs /\ m \in From(m.from)
      BY ConnSets, FromFacts DEF HubInv, TypeOK
    <3> QED
      BY <3>1 DEF HubInv, Knows
  <2>2. \A c \in conns : reader[c] = "done" =>
           [from |-> c, subj |-> "_signoff"] \in ToSet(msgs) \cup routing
    BY DEF HubInv, TypeOK, Knows, Off
  <2> QED
    BY <2>1, <2>2 DEF ConnsKnown
<1> QED
  BY <1>1, HubInvariant, PTL

\* A connection's channel gets one nil, after its reader is done and the hub
\* has forgotten it (hub.go:48-58, conn.go:26-28).
THEOREM NilIsLast == Spec => []NilAfterSignoff
<1>1. HubInv => NilAfterSignoff
  <2> SUFFICES ASSUME HubInv, NEW c \in Clients, NEW i \in DOMAIN ch[c], ch[c][i] = "nil"
               PROVE  /\ reader[c] = "done" /\ c \notin conns \cup parting
                      /\ \A j \in DOMAIN ch[c] : ch[c][j] = "nil" => j = i
    BY DEF NilAfterSignoff
  <2>1. Trails(c) /\ Knows(c) /\ Nils(c)
    BY DEF HubInv
  <2>2. ch[c] \in Seq({"msg", "nil"})
    BY ConnSets DEF HubInv, TypeOK
  <2>3. DOMAIN ch[c] = 1..Len(ch[c]) /\ "nil" \in ToSet(ch[c])
    BY <2>2, LenProperties DEF ToSet
  <2>4. Heard(c) /\ c \notin parting
    BY <2>1, <2>3 DEF Nils
  <2>5. reader[c] = "done" /\ c \notin conns
    BY <2>1, <2>4 DEF Trails, Knows
  <2>6. \A j \in DOMAIN ch[c] : ch[c][j] = "nil" => j = i
    BY <2>1, <2>3 DEF Nils, Once
  <2> QED
    BY <2>4, <2>5, <2>6
<1> QED
  BY <1>1, HubInvariant, PTL

\* The answer to a one-off request finds the one place of its caller's channel
\* free, even when the caller has given up (conn.go:49-66) and though a caller that
\* subscribed is sent updates: the service never waits with an answer for one.
THEOREM LateRepliesFit == Spec => []LateReplyFits
<1>1. HubInv => LateReplyFits
  <2> SUFFICES ASSUME HubInv, sends # << >>, Head(sends).msg = "res", Head(sends).to \in Callers
               PROVE  ch[Head(sends).to] = << >>
    BY DEF LateReplyFits
  <2>1. /\ Asked(Head(sends).to) /\ Head(sends) \in ToSet(sends)
        /\ Head(sends) = Answer(Head(sends).to)
    <3>1. Head(sends) \in Outs /\ Head(sends) \in ToSet(sends)
      BY HeadTailProperties, ToSetTail DEF HubInv, TypeOK
    <3>2. Head(sends) # Update(Head(sends).to)
      BY DEF Update
    <3> QED
      BY <3>1, <3>2, OutFacts DEF HubInv
  <2> QED
    BY <2>1 DEF Asked
<1> QED
  BY <1>1, HubInvariant, PTL
=============================================================================
