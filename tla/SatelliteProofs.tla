--------------------------- MODULE SatelliteProofs ---------------------------
(***************************************************************************)
(* Proofs about the satellite, for any number of requests, events and      *)
(* connections and any capacities: its state stays well typed, its status  *)
(* follows its connections, its updates leave nothing out, and a request   *)
(* is answered with what became of it.                                     *)
(*                                                                         *)
(* The satellite sees the server through a line of channels.  What it is   *)
(* told travels down, hubq, remote; what it asks travels todo, send, up.   *)
(* Each invariant says what the channels may hold, last part first.        *)
(***************************************************************************)
EXTENDS Satellite, SeqLemmas

-----------------------------------------------------------------------------
(* Status. *)

\* The current connection is announced.
Connects == reader \in {"read", "nil", "signoff"}

\* Whether the satellite is online after it took m, when it was b before.
After(m, b) == (m = Signon) \/ (m # Signoff /\ b)

\* The satellite is in c after all of s, when it was in b before.
Follows(s, b, c) ==
    \/ /\ \A i \in 1..Len(s) : s[i] \notin {Signon, Signoff}
       /\ b <=> c
    \/ \E i \in 1..Len(s) :
           /\ s[i] \in {Signon, Signoff} /\ (s[i] = Signon <=> c)
           /\ \A j \in 1..Len(s) : j > i => s[j] \notin {Signon, Signoff}

StatusInv ==
    \E b \in BOOLEAN : Follows(remote, isOnline, b) /\ Follows(hubq, b, Connects)

\* Before the first connection ends nobody sends nil.
FirstInv ==
    /\ dial = 0 => reader = "down"
    /\ dial = 0 \/ (dial = 1 /\ reader \in {"signon", "read"}) =>
           Nil \notin ToSet(send) /\ ~parting /\ Signoff \notin ToSet(hubq)

-----------------------------------------------------------------------------
(* Updates. *)

IsUpdate(m) == m.subj = "evt.update"

\* The events of the updates in s.
Carried(s) == {e \in 1..MaxEvents : \E i \in 1..Len(s) : IsUpdate(s[i]) /\ e \in s[i].evs}

\* Who has K and takes the updates in s misses nothing up to their revisions.
Complete(s, K) ==
    \A i \in 1..Len(s) : IsUpdate(s[i]) =>
        \A e \in 1..s[i].rev : e \in K \/ \E j \in 1..i : IsUpdate(s[j]) /\ e \in s[j].evs

\* What the satellite was sent in an update it took, or in an answer.
Covered == replica.evs \cup replied

\* No part of the way to the satellite has a gap in it.
Gapless ==
    /\ UpdatesComplete
    /\ Complete(remote, Covered)
    /\ Complete(hubq, Covered \cup Carried(remote))
    /\ Complete(down, Covered \cup Carried(remote) \cup Carried(hubq))

\* The satellite asks for events from a revision it has, or had.
AsksFromOwn ==
    \A m \in ToSet(todo) \cup ToSet(send) \cup ToSet(up) :
        m.subj = "evt.sat" => m.rev <= replica.rev

\* All the satellite was told, or will be by what is on its way.
Told == Covered \cup Carried(remote) \cup Carried(hubq) \cup Carried(down)

\* What a subscribed satellite was not told is in its buffer.
Buffered ==
    /\ ~subbed => bufr = {}
    /\ open /\ subbed => \A e \in 1..Rev : e \in bufr \cup Told

UpdatesInv == Gapless /\ AsksFromOwn /\ Buffered

-----------------------------------------------------------------------------
(* Answers. *)

\* What a satellite is answered to q.
AnswersTo(q) == {PubAnswer(q, "res"), PubAnswer(q, "err")}

\* The request is on its way, or its answer is.
Forwarded(q) == Pub(q) \in ToSet(todo) \cup ToSet(send) \cup ToSet(up)
Answered(q)  == (ToSet(down) \cup ToSet(hubq) \cup ToSet(remote)) \cap AnswersTo(q) # {}

\* The request is in one place.
InOnePlace(q) ==
    /\ Once(input, Pub(q)) /\ Once(todo, Pub(q)) /\ Once(send, Pub(q)) /\ Once(up, Pub(q))
    /\ Pub(q) \in ToSet(todo) => Pub(q) \notin ToSet(send) \cup ToSet(up)
    /\ Pub(q) \in ToSet(send) => Pub(q) \notin ToSet(up)

\* So is its answer, which tells what the ledger has.
AnsweredOnce(q) ==
    /\ OnceIn(down, AnswersTo(q)) /\ OnceIn(hubq, AnswersTo(q)) /\ OnceIn(remote, AnswersTo(q))
    /\ ToSet(down) \cap AnswersTo(q) # {} =>
           (ToSet(hubq) \cup ToSet(remote)) \cap AnswersTo(q) = {}
    /\ ToSet(hubq) \cap AnswersTo(q) # {} => ToSet(remote) \cap AnswersTo(q) = {}
    /\ PubAnswer(q, "res") \in ToSet(down) \cup ToSet(hubq) \cup ToSet(remote) => q \in ToSet(log)
    /\ PubAnswer(q, "err") \in ToSet(down) \cup ToSet(hubq) \cup ToSet(remote) => q \notin ToSet(log)

AnswersInv(q) ==
    /\ answers[q] \in {<< >>, <<"error">>, <<"null">>, <<"null", "res">>, <<"null", "err">>}
    /\ Once(log, q) /\ InOnePlace(q) /\ AnsweredOnce(q)
    /\ Pub(q) \in ToSet(input) => answers[q] = << >>
    /\ q \in toks \/ Forwarded(q) \/ Answered(q) => answers[q] = <<"null">>
    /\ Forwarded(q) => q \notin ToSet(log) /\ ~Answered(q)
    /\ q \in ToSet(log) => answers[q] \in {<<"null">>, <<"null", "res">>}
    /\ answers[q] = <<"null", "res">> => q \in ToSet(log)

-----------------------------------------------------------------------------
(* Messages. *)

LEMMA Subjects ==
    /\ Nil.subj = "nil" /\ Signon.subj = "_signon" /\ Signoff.subj = "_signoff"
    /\ Stat.subj = "evt.stat" /\ SatAnswer.subj = "evt.sat"
    /\ \A q : Pub(q).subj = "evt.pub" /\ Pub(q).req = q
    /\ \A r : Sat(r).subj = "evt.sat" /\ Sat(r).rev = r
    /\ \A q, res : /\ PubAnswer(q, res).subj = "evt.pub"
                   /\ PubAnswer(q, res).req = q /\ PubAnswer(q, res).res = res
    /\ \A r, e : /\ Update(r, e).subj = "evt.update"
                 /\ Update(r, e).rev = r /\ Update(r, e).evs = e
  BY DEF Nil, Signon, Signoff, Stat, SatAnswer, Pub, Sat, PubAnswer, Update

\* What a message to the server is.
LEMMA UpShapes ==
    /\ Nil \notin Ups /\ Stat \notin Ups
    /\ \A q \in Requests : Pub(q) \in Ups
    /\ \A r \in 0..MaxEvents : Sat(r) \in Ups
    /\ \A m \in Ups : \/ m.subj = "evt.sat" /\ m.rev \in 0..MaxEvents /\ m = Sat(m.rev)
                      \/ m.subj = "evt.pub" /\ m.req \in Requests /\ m = Pub(m.req)
<1>1. \A m \in Ups : \/ \E q \in Requests : m = Pub(q)
                     \/ \E r \in 0..MaxEvents : m = Sat(r)
  BY DEF Ups
<1>2. \A m \in Ups : \/ m.subj = "evt.sat" /\ m.rev \in 0..MaxEvents /\ m = Sat(m.rev)
                     \/ m.subj = "evt.pub" /\ m.req \in Requests /\ m = Pub(m.req)
  BY <1>1, Subjects
<1>3. Nil \notin Ups /\ Stat \notin Ups
  BY <1>2, Subjects
<1> QED
  BY <1>2, <1>3 DEF Ups

\* What a message to the satellite is.
LEMMA DownShapes ==
    /\ Signon \notin Downs /\ Signoff \notin Downs /\ SatAnswer \in Downs /\ Signon # Signoff
    /\ \A q \in Requests, res \in {"res", "err"} : PubAnswer(q, res) \in Downs
    /\ \A r \in 0..MaxEvents, e \in SUBSET (1..MaxEvents) : Update(r, e) \in Downs
    /\ \A m \in Downs :
           \/ /\ m.subj = "evt.pub" /\ m.req \in Requests /\ m.res \in {"res", "err"}
              /\ m = PubAnswer(m.req, m.res)
           \/ m.subj = "evt.sat" /\ m = SatAnswer
           \/ /\ m.subj = "evt.update" /\ m.rev \in 0..MaxEvents /\ m.evs \in SUBSET (1..MaxEvents)
              /\ m = Update(m.rev, m.evs)
<1>1. \A m \in Downs :
          \/ \E q \in Requests, res \in {"res", "err"} : m = PubAnswer(q, res)
          \/ m = SatAnswer
          \/ \E r \in 0..MaxEvents, e \in SUBSET (1..MaxEvents) : m = Update(r, e)
  BY DEF Downs
<1>2. \A m \in Downs :
           \/ /\ m.subj = "evt.pub" /\ m.req \in Requests /\ m.res \in {"res", "err"}
              /\ m = PubAnswer(m.req, m.res)
           \/ m.subj = "evt.sat" /\ m = SatAnswer
           \/ /\ m.subj = "evt.update" /\ m.rev \in 0..MaxEvents /\ m.evs \in SUBSET (1..MaxEvents)
              /\ m = Update(m.rev, m.evs)
  <2> SUFFICES ASSUME NEW m \in Downs
               PROVE  \/ /\ m.subj = "evt.pub" /\ m.req \in Requests /\ m.res \in {"res", "err"}
                         /\ m = PubAnswer(m.req, m.res)
                      \/ m.subj = "evt.sat" /\ m = SatAnswer
                      \/ /\ m.subj = "evt.update" /\ m.rev \in 0..MaxEvents
                         /\ m.evs \in SUBSET (1..MaxEvents) /\ m = Update(m.rev, m.evs)
    OBVIOUS
  <2>1. CASE \E q \in Requests, res \in {"res", "err"} : m = PubAnswer(q, res)
    BY <2>1, Subjects
  <2>2. CASE m = SatAnswer
    BY <2>2, Subjects
  <2>3. CASE \E r \in 0..MaxEvents, e \in SUBSET (1..MaxEvents) : m = Update(r, e)
    <3>1. PICK r \in 0..MaxEvents, e \in SUBSET (1..MaxEvents) : m = Update(r, e)
      BY <2>3
    <3>2. m.subj = "evt.update" /\ m.rev = r /\ m.evs = e
      BY <3>1, Subjects
    <3> QED
      BY <3>1, <3>2
  <2> QED
    BY <1>1, <2>1, <2>2, <2>3
<1>3. Signon \notin Downs /\ Signoff \notin Downs /\ Signon # Signoff
  BY <1>2, Subjects
<1> QED
  BY <1>3, <1>2 DEF Downs
-----------------------------------------------------------------------------
(* Types. *)

LEMMA Caps ==
    /\ MaxEvents \in Nat /\ MaxDials \in Nat
    /\ CliCap \in Nat /\ HubCap \in Nat /\ RemoteCap \in Nat /\ LocalCap \in Nat
    /\ Other \notin Requests
  BY SatelliteAssumption DEF Other

\* A channel that has room takes a message and keeps its capacity.
LEMMA Sent ==
    ASSUME NEW S, NEW s \in Seq(S), NEW m \in S, NEW cap \in Nat, Len(s) < cap
    PROVE  /\ Append(s, m) \in Seq(S) /\ Len(Append(s, m)) <= cap
           /\ ToSet(Append(s, m)) = ToSet(s) \cup {m}
<1>1. Append(s, m) \in Seq(S) /\ Len(Append(s, m)) = Len(s) + 1 /\ Len(s) \in Nat
  BY AppendProperties, LenProperties
<1> QED
  BY <1>1, ToSetAppend

LEMMA Taken ==
    ASSUME NEW S, NEW s \in Seq(S), s # << >>, NEW cap \in Nat, Len(s) <= cap
    PROVE  /\ Head(s) \in S /\ Tail(s) \in Seq(S) /\ Len(Tail(s)) <= cap
           /\ ToSet(s) = {Head(s)} \cup ToSet(Tail(s))
<1>1. /\ Head(s) \in S /\ Tail(s) \in Seq(S) /\ Len(Tail(s)) = Len(s) - 1 /\ Len(s) \in Nat
  BY HeadTailProperties, LenProperties
<1> QED
  BY <1>1, ToSetTail

LEMMA ChanFacts ==
    ASSUME TypeOK, NEW m \in Ups \cup {Nil}, Chan(m)
    PROVE  /\ send' \in Seq(Ups \cup {Nil}) /\ Len(send') <= CliCap
           /\ send' = Append(send, m) /\ ToSet(send') = ToSet(send) \cup {m}
<1> DEFINE S == Ups \cup {Nil}
<1>1. send \in Seq(S) /\ m \in S
  BY DEF TypeOK
<1>2. Len(send) < CliCap /\ send' = Append(send, m) /\ CliCap \in Nat
  BY Caps DEF Chan
<1> HIDE DEF S
<1>3. send' \in Seq(S) /\ Len(send') <= CliCap /\ ToSet(send') = ToSet(send) \cup {m}
  BY <1>1, <1>2, Sent
<1> QED
  BY <1>2, <1>3 DEF S

LEMMA SendFacts ==
    ASSUME TypeOK, send # << >>
    PROVE  /\ Head(send) \in Ups \cup {Nil} /\ Tail(send) \in Seq(Ups \cup {Nil})
           /\ Len(Tail(send)) <= CliCap /\ send \in Seq(Ups \cup {Nil})
           /\ ToSet(send) = {Head(send)} \cup ToSet(Tail(send))
<1> DEFINE S == Ups \cup {Nil}
<1>1. send \in Seq(S) /\ Len(send) <= CliCap /\ CliCap \in Nat
  BY Caps DEF TypeOK
<1> HIDE DEF S
<1>2. /\ Head(send) \in S /\ Tail(send) \in Seq(S) /\ Len(Tail(send)) <= CliCap
      /\ ToSet(send) = {Head(send)} \cup ToSet(Tail(send))
  BY <1>1, Taken
<1> QED
  BY <1>1, <1>2 DEF S

LEMMA InputFacts ==
    ASSUME TypeOK, NEW m \in {Pub(q) : q \in Requests} \cup {Stat},
           Len(input) < LocalCap, input' = Append(input, m)
    PROVE  /\ input \in Seq({Pub(q) : q \in Requests} \cup {Stat})
           /\ input' \in Seq({Pub(q) : q \in Requests} \cup {Stat}) /\ Len(input') <= LocalCap
           /\ ToSet(input') = ToSet(input) \cup {m}
<1> DEFINE S == {Pub(q) : q \in Requests} \cup {Stat}
<1>1. input \in Seq(S) /\ m \in S /\ LocalCap \in Nat
  BY Caps DEF TypeOK
<1> HIDE DEF S
<1>2. input' \in Seq(S) /\ Len(input') <= LocalCap /\ ToSet(input') = ToSet(input) \cup {m}
  BY <1>1, Sent
<1> QED
  BY <1>1, <1>2 DEF S

LEMMA AnnounceFacts ==
    ASSUME TypeOK, NEW m \in Routed, Announce(m)
    PROVE  /\ hubq' \in Seq(Routed) /\ Len(hubq') <= HubCap
           /\ hubq' = Append(hubq, m) /\ ToSet(hubq') = ToSet(hubq) \cup {m}
  BY Sent, Caps DEF TypeOK, Announce

LEMMA HangsFacts ==
    ASSUME TypeOK, Hangs
    PROVE  /\ open' = FALSE /\ down' = << >> /\ down' \in Seq(Downs)
           /\ up' \in Seq(Ups) /\ ToSet(up') \subseteq ToSet(up)
           /\ \A e : Once(up, e) => Once(up', e)
<1>1. PICK n \in 0..Len(up) : up' = SubSeq(up, 1, n)
  BY DEF Hangs
<1>2. /\ SubSeq(up, 1, n) \in Seq(Ups) /\ ToSet(SubSeq(up, 1, n)) \subseteq ToSet(up)
      /\ \A e : Once(up, e) => Once(SubSeq(up, 1, n), e)
  BY PrefixFacts DEF TypeOK
<1>3. open' = FALSE /\ down' = << >> /\ << >> \in Seq(Downs)
  BY EmptySeq DEF Hangs
<1> QED
  BY <1>1, <1>2, <1>3

\* A connection is made before it is announced.
Dialled == dial = 0 => reader = "down"

LEMMA RevType == ASSUME TypeOK PROVE Rev \in 0..MaxEvents /\ Rev \in Nat
<1>1. Len(log) \in Nat /\ Len(log) <= MaxEvents
  BY LenProperties DEF TypeOK
<1> QED
  BY <1>1, Caps DEF Rev

\* What the client does, part of it on the hub's channel.
LEMMA ClientType ==
    ASSUME TypeOK, Dialled,
           \/ Dial \/ SignsOn \/ Reads \/ ReadEnds \/ SendsNil \/ SignsOff
           \/ \E d \in 1..MaxDials : Writes(d) \/ WriterEnds(d)
    PROVE  TypeOK' /\ Dialled'
<1> USE DEF cliVars, hubVars, satVars, servVars
<1>0. << >> \in Seq(Downs) /\ dial \in 0..MaxDials /\ MaxDials \in Nat
  BY EmptySeq, Caps DEF TypeOK
<1>1. CASE Dial
  <2>1. /\ dial < MaxDials /\ dial' = dial + 1 /\ reader' = "signon" /\ open' = TRUE
        /\ subbed' = FALSE /\ bufr' = {} /\ mark' = 0
        /\ UNCHANGED <<send, writers, up, down, hubVars, satVars, log, replied>>
    BY <1>1 DEF Dial
  <2>2. dial' \in 0..MaxDials /\ dial' # 0 /\ 1..dial \subseteq 1..dial' /\ mark' \in 0..MaxEvents
    BY <1>0, <2>1, Caps
  <2> QED
    BY <2>1, <2>2 DEF TypeOK, Dialled
<1>2. CASE SignsOn
  <2>1. /\ reader = "signon" /\ Announce(Signon)
        /\ reader' = "read" /\ writers' = writers \cup {dial}
        /\ UNCHANGED <<send, dial, open, up, down, parting, satVars, servVars>>
    BY <1>2 DEF SignsOn
  <2>2. dial \in 1..dial /\ dial # 0
    BY <1>0, <2>1 DEF Dialled
  <2>3. hubq' \in Seq(Routed) /\ Len(hubq') <= HubCap
    BY <2>1, AnnounceFacts DEF Routed
  <2> QED
    BY <2>1, <2>2, <2>3 DEF TypeOK, Dialled
<1>3. CASE Reads
  <2>1. /\ reader = "read" /\ down # << >> /\ Announce(Head(down)) /\ down' = Tail(down)
        /\ UNCHANGED <<send, dial, reader, open, writers, up, parting, satVars, servVars>>
    BY <1>3 DEF Reads
  <2>2. Head(down) \in Downs /\ down' \in Seq(Downs)
    BY <2>1, HeadTailProperties DEF TypeOK
  <2>3. hubq' \in Seq(Routed) /\ Len(hubq') <= HubCap
    BY <2>1, <2>2, AnnounceFacts DEF Routed
  <2> QED
    BY <2>1, <2>2, <2>3 DEF TypeOK, Dialled
<1>4. ASSUME IF open THEN Hangs ELSE UNCHANGED <<open, up, down>>
      PROVE  open' \in BOOLEAN /\ down' \in Seq(Downs) /\ up' \in Seq(Ups)
  BY <1>4, HangsFacts DEF TypeOK
<1>5. CASE ReadEnds
  <2>1. /\ reader = "read" /\ reader' = "nil"
        /\ UNCHANGED <<send, dial, writers, hubVars, satVars, servVars>>
    BY <1>5 DEF ReadEnds
  <2>2. open' \in BOOLEAN /\ down' \in Seq(Downs) /\ up' \in Seq(Ups)
    BY <1>4, <1>5 DEF ReadEnds
  <2> QED
    BY <2>1, <2>2 DEF TypeOK, Dialled
<1>6. CASE SendsNil
  <2>1. /\ reader = "nil" /\ Chan(Nil) /\ reader' = "signoff"
        /\ UNCHANGED <<dial, open, writers, up, down, hubVars, satVars, servVars>>
    BY <1>6 DEF SendsNil
  <2>2. send' \in Seq(Ups \cup {Nil}) /\ Len(send') <= CliCap
    BY <2>1, ChanFacts
  <2> QED
    BY <2>1, <2>2 DEF TypeOK, Dialled
<1>7. CASE SignsOff
  <2>1. /\ reader = "signoff" /\ Announce(Signoff) /\ reader' = "down"
        /\ UNCHANGED <<send, dial, open, writers, up, down, parting, satVars, servVars>>
    BY <1>7 DEF SignsOff
  <2>2. hubq' \in Seq(Routed) /\ Len(hubq') <= HubCap
    BY <2>1, AnnounceFacts DEF Routed
  <2> QED
    BY <2>1, <2>2 DEF TypeOK, Dialled
<1>8. ASSUME NEW d \in 1..MaxDials, Writes(d) PROVE TypeOK' /\ Dialled'
  <2>1. /\ send # << >> /\ Head(send) # Nil /\ send' = Tail(send)
        /\ up' = Append(up, Head(send)) \/ up' = up
        /\ UNCHANGED <<dial, reader, open, writers, down, hubVars, satVars, servVars>>
    BY <1>8 DEF Writes
  <2>2. Head(send) \in Ups /\ send' \in Seq(Ups \cup {Nil}) /\ Len(send') <= CliCap
    BY <2>1, SendFacts
  <2>3. up \in Seq(Ups)
    BY DEF TypeOK
  <2>4. Append(up, Head(send)) \in Seq(Ups)
    BY <2>2, <2>3, AppendProperties
  <2>5. up' \in Seq(Ups)
    BY <2>1, <2>3, <2>4
  <2> QED
    BY <2>1, <2>2, <2>5 DEF TypeOK, Dialled
<1>9. ASSUME NEW d \in 1..MaxDials, WriterEnds(d) PROVE TypeOK' /\ Dialled'
  <2>1. /\ (send # << >> /\ send' = Tail(send)) \/ UNCHANGED send
        /\ writers' = writers \ {d}
        /\ UNCHANGED <<dial, reader, hubVars, satVars, servVars>>
        /\ IF d = dial /\ open THEN Hangs ELSE UNCHANGED <<open, up, down>>
    BY <1>9 DEF WriterEnds
  <2>2. send' \in Seq(Ups \cup {Nil}) /\ Len(send') <= CliCap
    BY <2>1, SendFacts DEF TypeOK
  <2>3. open' \in BOOLEAN /\ down' \in Seq(Downs) /\ up' \in Seq(Ups)
    BY <2>1, HangsFacts DEF TypeOK
  <2> QED
    BY <2>1, <2>2, <2>3 DEF TypeOK, Dialled
<1> QED
  BY <1>1, <1>2, <1>3, <1>5, <1>6, <1>7, <1>8, <1>9

\* What the hub and the satellite do.
LEMMA LocalType ==
    ASSUME TypeOK, Dialled,
           \/ Routes \/ Parts \/ HandlesLocal \/ handleRemote \/ Sends
           \/ \E q \in Requests : Asks(q)
    PROVE  TypeOK' /\ Dialled'
<1> USE DEF cliVars, hubVars, satVars, servVars
<1>0. << >> \in Seq(Ups \cup {Stat}) /\ Len(<< >>) = 0
  BY EmptySeq
<1>1. CASE Routes
  <2>1. /\ hubq # << >> /\ Len(remote) < RemoteCap /\ remote' = Append(remote, Head(hubq))
        /\ hubq' = Tail(hubq) /\ parting' = Leaves(Head(hubq))
        /\ UNCHANGED <<cliVars, input, todo, status, toks, replica, answers, servVars>>
    BY <1>1 DEF Routes
  <2>2. Head(hubq) \in Routed /\ hubq' \in Seq(Routed) /\ Len(hubq') <= HubCap
    BY <2>1, Taken, Caps DEF TypeOK
  <2>3. remote' \in Seq(Routed) /\ Len(remote') <= RemoteCap
    BY <2>1, <2>2, Sent, Caps DEF TypeOK
  <2>4. parting' \in BOOLEAN
    BY <2>1 DEF Leaves
  <2> QED
    BY <2>1, <2>2, <2>3, <2>4 DEF TypeOK, Dialled
<1>2. CASE Parts
  <2>1. /\ Chan(Nil) /\ parting' = FALSE
        /\ UNCHANGED <<dial, reader, open, writers, up, down, hubq, satVars, servVars>>
    BY <1>2 DEF Parts
  <2>2. send' \in Seq(Ups \cup {Nil}) /\ Len(send') <= CliCap
    BY <2>1, ChanFacts
  <2> QED
    BY <2>1, <2>2 DEF TypeOK, Dialled
<1>3. ASSUME NEW q \in Requests, Asks(q) PROVE TypeOK' /\ Dialled'
  <2>1. /\ Len(input) < LocalCap /\ input' = Append(input, Pub(q))
        /\ UNCHANGED <<cliVars, hubVars, remote, todo, status, toks, replica, answers, servVars>>
    BY <1>3 DEF Asks
  <2>2. input' \in Seq({Pub(x) : x \in Requests} \cup {Stat}) /\ Len(input') <= LocalCap
    BY <2>1, InputFacts
  <2> QED
    BY <2>1, <2>2 DEF TypeOK, Dialled
<1>4. CASE HandlesLocal
  <2> DEFINE m == Head(input)
  <2>1. /\ todo = << >> /\ input # << >> /\ input' = Tail(input)
        /\ UNCHANGED <<cliVars, hubVars, remote, status, replica, servVars>>
        /\ IF m = Stat THEN UNCHANGED <<toks, todo, answers>> ELSE pub(m.req)
    BY <1>4 DEF HandlesLocal
  <2>2. /\ m \in {Pub(x) : x \in Requests} \cup {Stat}
        /\ input' \in Seq({Pub(x) : x \in Requests} \cup {Stat}) /\ Len(input') <= LocalCap
    BY <2>1, Taken, Caps DEF TypeOK
  <2> HIDE DEF m
  <2>3. /\ toks' \subseteq Requests /\ todo' \in Seq(Ups \cup {Stat}) /\ Len(todo') <= 2
        /\ answers' \in [Requests -> Seq({"null", "error", "res", "err"})]
    <3>1. CASE m = Stat
      BY <2>1, <3>1 DEF TypeOK
    <3>2. CASE m # Stat
      <4>1. PICK q \in Requests : m = Pub(q)
        BY <2>2, <3>2
      <4>2. m.req = q /\ Pub(q) \in Ups
        BY <4>1, Subjects, UpShapes
      <4>3. \A x \in {"error", "null"} :
                [answers EXCEPT ![q] = Append(@, x)] \in [Requests -> Seq({"null", "error", "res", "err"})]
        BY AppendProperties DEF TypeOK
      <4>4. <<Pub(q)>> \in Seq(Ups \cup {Stat}) /\ Len(<<Pub(q)>>) = 1
        BY <4>2
      <4>5. toks \subseteq Requests /\ todo \in Seq(Ups \cup {Stat}) /\ Len(todo) <= 2
        BY DEF TypeOK
      <4>6. pub(q)
        BY <2>1, <3>2, <4>2
      <4>7. CASE isOnline
        BY <4>3, <4>5, <4>6, <4>7 DEF pub
      <4>8. CASE ~isOnline
        <5>1. toks' = toks \cup {q} /\ todo' = <<Pub(q)>>
              /\ answers' = [answers EXCEPT ![q] = Append(@, "null")]
          BY <4>6, <4>8 DEF pub
        <5> QED
          BY <4>3, <4>4, <4>5, <5>1
      <4> QED
        BY <4>7, <4>8
    <3> QED
      BY <3>1, <3>2
  <2> QED
    BY <2>1, <2>2, <2>3 DEF TypeOK, Dialled
<1>5. CASE handleRemote
  <2> DEFINE m == Head(remote)
  <2>1. /\ todo = << >> /\ remote # << >> /\ remote' = Tail(remote)
        /\ UNCHANGED <<cliVars, hubVars, input, servVars>>
        /\ \/ /\ m = Signoff /\ status' = Disconnected /\ todo' = <<Stat>>
              /\ UNCHANGED <<toks, replica, answers>>
           \/ /\ m = Signon /\ status' = Connected /\ todo' = <<Sat(replica.rev), Stat>>
              /\ UNCHANGED <<toks, replica, answers>>
           \/ /\ m.subj = "evt.update" /\ Replicate(m.rev, m.evs)
              /\ UNCHANGED <<toks, todo, status, answers>>
           \/ /\ m = SatAnswer /\ Replicate(0, {})
              /\ UNCHANGED <<toks, todo, status, answers>>
           \/ /\ m.subj = "evt.pub" /\ Replicate(0, {}) /\ Respond(m.req, m.res)
              /\ UNCHANGED <<todo, status>>
    BY <1>5 DEF handleRemote
  <2>2. m \in Routed /\ remote' \in Seq(Routed) /\ Len(remote') <= RemoteCap
    BY <2>1, Taken, Caps DEF TypeOK
  <2> HIDE DEF m
  <2>3. /\ m.subj = "evt.update" => m.rev \in 0..MaxEvents /\ m.evs \in SUBSET (1..MaxEvents)
        /\ m.subj = "evt.pub" => m.req \in Requests /\ m.res \in {"res", "err"}
    BY <2>2, DownShapes, Subjects DEF Routed
  <2>4. status' \in [on : BOOLEAN, off : BOOLEAN]
    <3>1. status \in [on : BOOLEAN, off : BOOLEAN]
      BY DEF TypeOK
    <3>2. Disconnected \in [on : BOOLEAN, off : BOOLEAN] /\ Connected \in [on : BOOLEAN, off : BOOLEAN]
      BY <3>1 DEF Disconnected, Connected
    <3>3. status' = status \/ status' = Disconnected \/ status' = Connected
      BY <2>1
    <3> QED
      BY <3>1, <3>2, <3>3
  <2>5. todo' \in Seq(Ups \cup {Stat}) /\ Len(todo') <= 2
    <3>1. Sat(replica.rev) \in Ups
      BY UpShapes DEF TypeOK
    <3>2. \A x, y \in Ups \cup {Stat} :
              /\ <<x>> \in Seq(Ups \cup {Stat}) /\ <<x, y>> \in Seq(Ups \cup {Stat})
              /\ Len(<<x>>) = 1 /\ Len(<<x, y>>) = 2
      OBVIOUS
    <3>3. todo' = todo \/ todo' = <<Stat>> \/ todo' = <<Sat(replica.rev), Stat>>
      BY <2>1
    <3>4. todo \in Seq(Ups \cup {Stat}) /\ Len(todo) <= 2
      BY DEF TypeOK
    <3>5. CASE todo' = <<Stat>>
      BY <3>2, <3>5
    <3>6. CASE todo' = <<Sat(replica.rev), Stat>>
      <4>1. /\ <<Sat(replica.rev), Stat>> \in Seq(Ups \cup {Stat})
            /\ Len(<<Sat(replica.rev), Stat>>) = 2
        BY <3>1, <3>2
      <4> QED
        BY <3>6, <4>1
    <3> QED
      BY <3>3, <3>4, <3>5, <3>6
  <2>6. replica' \in [evs : SUBSET (1..MaxEvents), rev : 0..MaxEvents]
    <3>1. \A r \in 0..MaxEvents, e \in SUBSET (1..MaxEvents) :
              Replicate(r, e) => replica' \in [evs : SUBSET (1..MaxEvents), rev : 0..MaxEvents]
      <4>1. replica.evs \in SUBSET (1..MaxEvents) /\ replica.rev \in 0..MaxEvents
        BY DEF TypeOK
      <4>2. SUFFICES ASSUME NEW r \in 0..MaxEvents, NEW e \in SUBSET (1..MaxEvents),
                            Replicate(r, e)
                     PROVE  replica' \in [evs : SUBSET (1..MaxEvents), rev : 0..MaxEvents]
        OBVIOUS
      <4> DEFINE es == replica.evs \cup e
                 rv == IF r > replica.rev THEN r ELSE replica.rev
      <4>3. es \in SUBSET (1..MaxEvents) /\ rv \in 0..MaxEvents
        BY <4>1
      <4>4. replica' = [evs |-> es, rev |-> rv]
        BY <4>2 DEF Replicate
      <4> HIDE DEF es, rv
      <4> QED
        BY <4>3, <4>4
    <3>2. 0 \in 0..MaxEvents
      BY Caps
    <3> QED
      BY <2>1, <2>3, <3>1, <3>2 DEF TypeOK
  <2>7. toks' \subseteq Requests /\ answers' \in [Requests -> Seq({"null", "error", "res", "err"})]
    <3>1. ASSUME m.subj = "evt.pub", Respond(m.req, m.res)
          PROVE  toks' \subseteq Requests /\ answers' \in [Requests -> Seq({"null", "error", "res", "err"})]
      <4>1. [answers EXCEPT ![m.req] = Append(@, m.res)] \in [Requests -> Seq({"null", "error", "res", "err"})]
        BY <2>3, <3>1, AppendProperties DEF TypeOK
      <4> QED
        BY <3>1, <4>1 DEF Respond, TypeOK
    <3> QED
      BY <2>1, <3>1 DEF TypeOK
  <2> QED
    BY <2>1, <2>2, <2>4, <2>5, <2>6, <2>7 DEF TypeOK, Dialled
<1>6. CASE Sends
  <2>1. /\ todo # << >> /\ todo' = Tail(todo)
        /\ UNCHANGED <<dial, reader, open, writers, up, down, hubVars, remote, status, toks,
                       replica, answers, servVars>>
        /\ IF Head(todo) = Stat
           THEN Len(input) < LocalCap /\ input' = Append(input, Stat) /\ UNCHANGED send
           ELSE Chan(Head(todo)) /\ UNCHANGED input
    BY <1>6 DEF Sends
  <2>2. Head(todo) \in Ups \cup {Stat} /\ todo' \in Seq(Ups \cup {Stat}) /\ Len(todo') <= 2
    BY <2>1, Taken DEF TypeOK
  <2>3. input' \in Seq({Pub(q) : q \in Requests} \cup {Stat}) /\ Len(input') <= LocalCap
    <3>1. CASE Head(todo) = Stat
      BY <2>1, <3>1, InputFacts
    <3> QED
      BY <2>1, <3>1 DEF TypeOK
  <2>4. send' \in Seq(Ups \cup {Nil}) /\ Len(send') <= CliCap
    BY <2>1, <2>2, ChanFacts DEF TypeOK
  <2> QED
    BY <2>1, <2>2, <2>3, <2>4 DEF TypeOK, Dialled
<1> QED
  BY <1>1, <1>2, <1>3, <1>4, <1>5, <1>6

\* What the server sends on the current connection.
LEMMA AnswersFacts ==
    ASSUME TypeOK, NEW ms \in Seq(Downs), Answers(ms)
    PROVE  down' \in Seq(Downs)
<1>1. down \in Seq(Downs)
  BY DEF TypeOK
<1>2. down \o ms \in Seq(Downs)
  BY <1>1, ConcatProperties
<1> QED
  BY <1>1, <1>2 DEF Answers

LEMMA LogGrows ==
    ASSUME TypeOK, Rev < MaxEvents, NEW x \in Requests \cup {Other}, log' = Append(log, x)
    PROVE  /\ log' \in Seq(Requests \cup {Other}) /\ Len(log') <= MaxEvents
           /\ log \in Seq(Requests \cup {Other})
           /\ Rev' = Rev + 1 /\ Rev + 1 \in 1..MaxEvents /\ 1..Rev' = 1..Rev \cup {Rev + 1}
           /\ ToSet(log') = ToSet(log) \cup {x}
<1> DEFINE S == Requests \cup {Other}
<1>1. log \in Seq(S) /\ Rev \in Nat /\ MaxEvents \in Nat
  BY RevType, Caps DEF TypeOK
<1> HIDE DEF S
<1>2. log' \in Seq(S) /\ Len(log') = Len(log) + 1
  BY <1>1, AppendProperties DEF S
<1>3. ToSet(log') = ToSet(log) \cup {x}
  BY <1>1, ToSetAppend DEF S
<1>4. Rev' = Rev + 1 /\ Len(log') <= MaxEvents /\ Rev + 1 \in 1..MaxEvents
  BY <1>1, <1>2 DEF Rev
<1>5. 1..(Rev + 1) = 1..Rev \cup {Rev + 1}
  BY <1>1
<1> QED
  BY <1>1, <1>2, <1>3, <1>4, <1>5 DEF S

LEMMA ServerType ==
    ASSUME TypeOK, Dialled, Serves \/ Publishes \/ Broadcasts
    PROVE  TypeOK' /\ Dialled'
<1> USE DEF cliVars, hubVars, satVars, servVars
<1>0. /\ Rev \in 0..MaxEvents /\ bufr \in SUBSET (1..MaxEvents) /\ MaxEvents \in Nat
      /\ replied \in SUBSET (1..MaxEvents) /\ mark \in 0..MaxEvents
      /\ log \in Seq(Requests \cup {Other}) /\ Len(log) <= MaxEvents
  BY RevType, Caps DEF TypeOK
<1>1. CASE Serves
  <2> DEFINE m == Head(up)
  <2>1. /\ up # << >> /\ up' = Tail(up)
        /\ UNCHANGED <<send, dial, reader, open, writers, hubVars, satVars>>
        /\ IF m.subj = "evt.sat" THEN ServesSat(m.rev) ELSE ServesPub(m.req)
    BY <1>1 DEF Serves
  <2>2. m \in Ups /\ up' \in Seq(Ups)
    BY <2>1, HeadTailProperties DEF TypeOK
  <2> HIDE DEF m
  <2>3. CASE m.subj = "evt.sat"
    <3>1. m.rev \in 0..MaxEvents
      BY <2>2, <2>3, UpShapes
    <3>2. Answers(<<SatAnswer>>) /\ UNCHANGED log
      BY <2>1, <2>3 DEF ServesSat
    <3>3. <<SatAnswer>> \in Seq(Downs)
      BY DownShapes
    <3>4. down' \in Seq(Downs)
      BY <3>2, <3>3, AnswersFacts
    <3>5. (m.rev + 1)..Rev \subseteq 1..MaxEvents
      BY <1>0, <3>1
    <3>6. subbed' \in BOOLEAN /\ mark' \in 0..MaxEvents /\ bufr' \subseteq 1..MaxEvents
          /\ replied' \subseteq 1..MaxEvents
      BY <1>0, <2>1, <2>3, <3>5 DEF ServesSat, TypeOK
    <3> QED
      BY <2>1, <2>2, <3>2, <3>4, <3>6 DEF TypeOK, Dialled
  <2>4. CASE m.subj # "evt.sat"
    <3> DEFINE q == m.req
    <3>1. q \in Requests /\ ServesPub(q)
      BY <2>1, <2>2, <2>4, UpShapes
    <3> HIDE DEF q
    <3>2. \A x, y \in Downs : <<x>> \in Seq(Downs) /\ <<x, y>> \in Seq(Downs)
      OBVIOUS
    <3>3. /\ PubAnswer(q, "err") \in Downs /\ PubAnswer(q, "res") \in Downs
          /\ Update(Rev, bufr) \in Downs
      BY <1>0, <3>1, DownShapes
    <3>4. CASE Answers(<<PubAnswer(q, "err")>>) /\ UNCHANGED servVars
      <4>1. down' \in Seq(Downs)
        BY <3>2, <3>3, <3>4, AnswersFacts
      <4> QED
        BY <2>1, <2>2, <3>4, <4>1 DEF TypeOK, Dialled
    <3>5. CASE /\ Rev < MaxEvents /\ log' = Append(log, q)
               /\ Answers(IF bufr = {} THEN <<PubAnswer(q, "res")>>
                          ELSE <<Update(Rev, bufr), PubAnswer(q, "res")>>)
               /\ bufr' = {} /\ mark' = Rev + 1 /\ replied' = replied \cup {Rev + 1}
               /\ UNCHANGED subbed
      <4> DEFINE ms == IF bufr = {} THEN <<PubAnswer(q, "res")>>
                       ELSE <<Update(Rev, bufr), PubAnswer(q, "res")>>
      <4>1. ms \in Seq(Downs)
        BY <3>2, <3>3
      <4>2. Answers(ms)
        BY <3>5
      <4> HIDE DEF ms
      <4>3. down' \in Seq(Downs)
        BY <4>1, <4>2, AnswersFacts
      <4>4. log' \in Seq(Requests \cup {Other}) /\ Len(log') <= MaxEvents /\ Rev + 1 \in 1..MaxEvents
        BY <3>1, <3>5, LogGrows
      <4>5. mark' \in 0..MaxEvents /\ replied' \subseteq 1..MaxEvents /\ bufr' \subseteq 1..MaxEvents
        BY <1>0, <3>5, <4>4
      <4>6. subbed' = subbed
        BY <3>5
      <4> QED
        BY <2>1, <2>2, <4>3, <4>4, <4>5, <4>6 DEF TypeOK, Dialled
    <3> QED
      BY <3>1, <3>4, <3>5 DEF ServesPub
  <2> QED
    BY <2>3, <2>4
<1>2. CASE Publishes
  <2>1. /\ Rev < MaxEvents /\ log' = Append(log, Other)
        /\ bufr' = IF subbed THEN bufr \cup {Rev + 1} ELSE bufr
        /\ UNCHANGED <<cliVars, hubVars, satVars, subbed, mark, replied>>
    BY <1>2 DEF Publishes
  <2>2. log' \in Seq(Requests \cup {Other}) /\ Len(log') <= MaxEvents /\ Rev + 1 \in 1..MaxEvents
    BY <2>1, LogGrows
  <2>3. bufr' \subseteq 1..MaxEvents
    BY <1>0, <2>1, <2>2
  <2> QED
    BY <2>1, <2>2, <2>3 DEF TypeOK, Dialled
<1>3. CASE Broadcasts
  <2>1. /\ down' = Append(down, Update(Rev, bufr)) /\ bufr' = {} /\ mark' = Rev
        /\ UNCHANGED <<send, dial, reader, open, writers, up, hubVars, satVars, log, subbed, replied>>
    BY <1>3 DEF Broadcasts
  <2>2. Update(Rev, bufr) \in Downs
    BY <1>0, DownShapes
  <2>3. down' \in Seq(Downs)
    BY <2>1, <2>2, AppendProperties DEF TypeOK
  <2> QED
    BY <1>0, <2>1, <2>3 DEF TypeOK, Dialled
<1> QED
  BY <1>1, <1>2, <1>3

LEMMA SatelliteTypeStep == ASSUME TypeOK, Dialled, [Next]_vars PROVE TypeOK' /\ Dialled'
<1>1. CASE UNCHANGED vars
  BY <1>1 DEF vars, cliVars, hubVars, satVars, servVars, TypeOK, Dialled
<1> QED
  BY <1>1, ClientType, LocalType, ServerType DEF Next

LEMMA SatelliteTypeInit == ASSUME Init PROVE TypeOK /\ Dialled
<1>1. /\ << >> \in Seq(Ups \cup {Nil}) /\ << >> \in Seq(Ups) /\ << >> \in Seq(Downs)
      /\ << >> \in Seq(Routed) /\ << >> \in Seq({Pub(q) : q \in Requests} \cup {Stat})
      /\ << >> \in Seq(Ups \cup {Stat}) /\ << >> \in Seq({"null", "error", "res", "err"})
      /\ << >> \in Seq(Requests \cup {Other}) /\ Len(<< >>) = 0
  BY EmptySeq
<1>2. /\ 0 \in 0..MaxEvents /\ 0 \in 0..MaxDials /\ 0 <= 2
      /\ 0 <= CliCap /\ 0 <= HubCap /\ 0 <= RemoteCap /\ 0 <= LocalCap /\ 0 <= MaxEvents
  BY Caps
<1>3. /\ send = << >> /\ dial = 0 /\ reader = "down" /\ open = FALSE /\ writers = {}
      /\ up = << >> /\ down = << >> /\ hubq = << >> /\ parting = FALSE
      /\ remote = << >> /\ input = << >> /\ todo = << >> /\ toks = {}
      /\ log = << >> /\ subbed = FALSE /\ bufr = {} /\ mark = 0 /\ replied = {}
  BY DEF Init
<1>4. /\ status \in [on : BOOLEAN, off : BOOLEAN]
      /\ replica \in [evs : SUBSET (1..MaxEvents), rev : 0..MaxEvents]
      /\ answers \in [Requests -> Seq({"null", "error", "res", "err"})]
  BY <1>1, <1>2 DEF Init
<1> QED
  BY <1>1, <1>2, <1>3, <1>4 DEF TypeOK, Dialled

\* The channels between satellite, hub and server keep their capacities and
\* carry only what is meant for them, whatever their sizes are.
THEOREM SatelliteTypes == Spec => [](TypeOK /\ Dialled)
<1>1. Init => TypeOK /\ Dialled
  BY SatelliteTypeInit
<1>2. TypeOK /\ Dialled /\ [Next]_vars => TypeOK' /\ Dialled'
  BY SatelliteTypeStep
<1> QED
  BY <1>1, <1>2, PTL DEF Spec

-----------------------------------------------------------------------------
(* Status. *)

LEMMA FollowsAppend ==
    ASSUME NEW S, NEW s \in Seq(S), NEW e \in S, NEW b \in BOOLEAN, NEW c \in BOOLEAN,
           Follows(s, b, c)
    PROVE  Follows(Append(s, e), b, After(e, c))
<1> DEFINE t == Append(s, e)
           G == {Signon, Signoff}
<1>1. /\ Len(s) \in Nat /\ Len(t) = Len(s) + 1
      /\ \A i \in 1..Len(s) : t[i] = s[i] /\ i \in 1..Len(t)
      /\ t[Len(s) + 1] = e /\ Len(s) + 1 \in 1..Len(t)
      /\ \A i \in 1..Len(t) : i \in 1..Len(s) \/ i = Len(s) + 1
  BY AppendProperties, LenProperties
<1> HIDE DEF t
<1>2. Signon # Signoff
  BY DownShapes
<1>3. CASE e \in G
  <2>1. e = Signon <=> After(e, c)
    BY <1>2, <1>3 DEF After
  <2>2. \A j \in 1..Len(t) : ~(j > Len(s) + 1)
    BY <1>1
  <2> QED
    BY <1>1, <1>3, <2>1, <2>2 DEF Follows, t
<1>4. CASE e \notin G
  <2>1. After(e, c) <=> c
    BY <1>4 DEF After
  <2>2. CASE (\A i \in 1..Len(s) : s[i] \notin G) /\ (b <=> c)
    <3>1. \A i \in 1..Len(t) : t[i] \notin G
      BY <1>1, <1>4, <2>2
    <3> QED
      BY <2>1, <2>2, <3>1 DEF Follows, t
  <2>3. CASE \E i \in 1..Len(s) : /\ s[i] \in G /\ (s[i] = Signon <=> c)
                                  /\ \A j \in 1..Len(s) : j > i => s[j] \notin G
    <3>1. PICK i \in 1..Len(s) : /\ s[i] \in G /\ (s[i] = Signon <=> c)
                                 /\ \A j \in 1..Len(s) : j > i => s[j] \notin G
      BY <2>3
    <3>2. t[i] \in G /\ i \in 1..Len(t) /\ (t[i] = Signon <=> c)
      BY <1>1, <3>1
    <3>3. \A j \in 1..Len(t) : j > i => t[j] \notin G
      BY <1>1, <1>4, <3>1
    <3> QED
      BY <2>1, <3>2, <3>3 DEF Follows, t
  <2> QED
    BY <2>2, <2>3 DEF Follows
<1> QED
  BY <1>3, <1>4

LEMMA FollowsTail ==
    ASSUME NEW S, NEW s \in Seq(S), s # << >>, NEW b \in BOOLEAN, NEW c \in BOOLEAN,
           Follows(s, b, c)
    PROVE  Follows(Tail(s), After(Head(s), b), c)
<1> DEFINE t == Tail(s)
           e == Head(s)
           G == {Signon, Signoff}
<1>1. /\ Len(s) \in Nat \ {0} /\ Len(t) = Len(s) - 1
      /\ \A i \in 1..Len(t) : i + 1 \in 1..Len(s) /\ t[i] = s[i + 1]
      /\ e = s[1] /\ 1 \in 1..Len(s)
  BY TailAt
<1>2. \A i \in 1..Len(s) : i # 1 => i - 1 \in 1..Len(t) /\ t[i - 1] = s[i]
  BY <1>1
<1> HIDE DEF t, e
<1>3. Signon # Signoff
  BY DownShapes
<1>4. CASE (\A i \in 1..Len(s) : s[i] \notin G) /\ (b <=> c)
  <2>1. After(e, b) <=> c
    BY <1>1, <1>4 DEF After
  <2>2. \A i \in 1..Len(t) : t[i] \notin G
    BY <1>1, <1>4
  <2> QED
    BY <2>1, <2>2 DEF Follows, t, e
<1>5. CASE \E i \in 1..Len(s) : /\ s[i] \in G /\ (s[i] = Signon <=> c)
                                /\ \A j \in 1..Len(s) : j > i => s[j] \notin G
  <2>1. PICK i \in 1..Len(s) : /\ s[i] \in G /\ (s[i] = Signon <=> c)
                               /\ \A j \in 1..Len(s) : j > i => s[j] \notin G
    BY <1>5
  <2>2. CASE i = 1
    <3>1. After(e, b) <=> c
      BY <1>1, <1>3, <2>1, <2>2 DEF After
    <3>2. \A j \in 1..Len(t) : t[j] \notin G
      BY <1>1, <2>1, <2>2
    <3> QED
      BY <3>1, <3>2 DEF Follows, t, e
  <2>3. CASE i # 1
    <3>1. i - 1 \in 1..Len(t) /\ t[i - 1] \in G /\ (t[i - 1] = Signon <=> c)
      BY <1>2, <2>1, <2>3
    <3>2. \A j \in 1..Len(t) : j > i - 1 => t[j] \notin G
      BY <1>1, <2>1
    <3> QED
      BY <3>1, <3>2 DEF Follows, t, e
  <2> QED
    BY <2>2, <2>3
<1> QED
  BY <1>4, <1>5 DEF Follows

LEMMA FollowsQuiet ==
    ASSUME NEW S, NEW s \in Seq(S), NEW b \in BOOLEAN, NEW c \in BOOLEAN, Follows(s, b, c),
           Signon \notin ToSet(s), Signoff \notin ToSet(s)
    PROVE  b <=> c
<1>1. \A i \in 1..Len(s) : s[i] \notin {Signon, Signoff}
  BY ToSetDef
<1> QED
  BY <1>1 DEF Follows

LEMMA StatusStep ==
    ASSUME TypeOK, StatusInv, Next
    PROVE  StatusInv'
<1> USE DEF cliVars, hubVars, satVars, servVars
<1>0. PICK b \in BOOLEAN : Follows(remote, isOnline, b) /\ Follows(hubq, b, Connects)
  BY DEF StatusInv
<1>1. /\ isOnline \in BOOLEAN /\ Connects \in BOOLEAN
      /\ remote \in Seq(Routed) /\ hubq \in Seq(Routed) /\ Signon # Signoff
      /\ Signon \in Routed /\ Signoff \in Routed /\ Downs \subseteq Routed
  BY DownShapes DEF TypeOK, isOnline, Connects, Routed
<1>2. ASSUME UNCHANGED <<remote, hubq, status>>, Connects' <=> Connects
      PROVE  StatusInv'
  <2>1. isOnline' = isOnline
    BY <1>2 DEF isOnline
  <2>2. Connects' = Connects
    BY <1>2 DEF Connects
  <2>3. Follows(remote, isOnline, b)' /\ Follows(hubq, b, Connects)'
    BY <1>0, <1>2, <2>1, <2>2
  <2> QED
    BY <2>3 DEF StatusInv
<1>3. ASSUME NEW m \in Routed, Announce(m), Connects' <=> After(m, Connects),
             UNCHANGED <<remote, status>>
      PROVE  StatusInv'
  <2>1. hubq' = Append(hubq, m)
    BY <1>3 DEF Announce
  <2>2. Follows(Append(hubq, m), b, After(m, Connects))
    BY <1>0, <1>1, FollowsAppend
  <2>3. After(m, Connects) = Connects'
    BY <1>3 DEF After, Connects
  <2>4. isOnline' = isOnline
    BY <1>3 DEF isOnline
  <2>5. Follows(remote, isOnline, b)' /\ Follows(hubq, b, Connects)'
    BY <1>0, <1>3, <2>1, <2>2, <2>3, <2>4
  <2> QED
    BY <2>5 DEF StatusInv
<1>4. CASE Dial
  BY <1>2, <1>4 DEF Dial, Connects
<1>5. CASE SignsOn
  <2>1. Connects' <=> After(Signon, Connects)
    BY <1>5 DEF SignsOn, Connects, After
  <2> QED
    BY <1>1, <1>3, <1>5, <2>1 DEF SignsOn
<1>6. CASE Reads
  <2>1. down # << >> /\ down \in Seq(Downs)
    BY <1>6 DEF Reads, TypeOK
  <2>2. Head(down) \in Downs
    BY <2>1, HeadTailProperties
  <2>3. Head(down) \in Routed /\ Head(down) # Signon /\ Head(down) # Signoff
    BY <1>1, <2>2, DownShapes
  <2>4. reader' = reader /\ Announce(Head(down)) /\ UNCHANGED <<remote, status>>
    BY <1>6 DEF Reads
  <2>5. Connects' <=> After(Head(down), Connects)
    BY <2>3, <2>4 DEF Connects, After
  <2> QED
    BY <1>3, <2>3, <2>4, <2>5
<1>7. CASE ReadEnds
  BY <1>2, <1>7 DEF ReadEnds, Connects
<1>8. CASE SendsNil
  BY <1>2, <1>8 DEF SendsNil, Connects
<1>9. CASE SignsOff
  <2>1. Connects' <=> After(Signoff, Connects)
    BY <1>1, <1>9 DEF SignsOff, Connects, After
  <2> QED
    BY <1>1, <1>3, <1>9, <2>1 DEF SignsOff
<1>10. CASE \E d \in 1..MaxDials : Writes(d) \/ WriterEnds(d)
  BY <1>2, <1>10 DEF Writes, WriterEnds, Connects
<1>11. CASE Routes
  <2>1. /\ hubq # << >> /\ remote' = Append(remote, Head(hubq)) /\ hubq' = Tail(hubq)
        /\ UNCHANGED <<reader, status>>
    BY <1>11 DEF Routes
  <2> DEFINE m == Head(hubq)
  <2>2. m \in Routed /\ After(m, b) \in BOOLEAN
    BY <1>1, <2>1, HeadTailProperties DEF After
  <2>0. PICK c \in BOOLEAN : c = After(m, b)
    BY <2>2
  <2>3. Follows(Append(remote, m), isOnline, c)
    <3> HIDE DEF m
    <3> QED
      BY <1>0, <1>1, <2>2, <2>0, FollowsAppend
  <2>4. Follows(Tail(hubq), c, Connects)
    BY <1>0, <1>1, <2>1, <2>0, FollowsTail
  <2>5. isOnline' = isOnline /\ Connects' = Connects
    BY <2>1 DEF isOnline, Connects
  <2>6. Follows(remote, isOnline, c)' /\ Follows(hubq, c, Connects)'
    BY <2>1, <2>3, <2>4, <2>5
  <2> QED
    BY <2>2, <2>6 DEF StatusInv
<1>12. CASE handleRemote
  <2> DEFINE m == Head(remote)
  <2>1. /\ remote # << >> /\ remote' = Tail(remote) /\ UNCHANGED <<reader, hubq>>
    BY <1>12 DEF handleRemote
  <2>2. \/ m = Signoff /\ status' = Disconnected
        \/ m = Signon /\ status' = Connected
        \/ m \notin {Signon, Signoff} /\ status' = status
    BY <1>12, Subjects DEF handleRemote
  <2>3. Follows(Tail(remote), After(m, isOnline), b)
    BY <1>0, <1>1, <2>1, FollowsTail
  <2>4. isOnline' <=> After(m, isOnline)
    <3>1. status \in [on : BOOLEAN, off : BOOLEAN]
      BY DEF TypeOK
    <3> HIDE DEF m
    <3>2. CASE m = Signoff /\ status' = Disconnected
      <4>1. status'.off = TRUE
        BY <3>1, <3>2 DEF Disconnected
      <4> QED
        BY <1>1, <3>2, <4>1 DEF isOnline, After
    <3>3. CASE m = Signon /\ status' = Connected
      BY <3>3 DEF isOnline, After, Connected
    <3>4. CASE m \notin {Signon, Signoff} /\ status' = status
      BY <3>4 DEF isOnline, After
    <3> QED
      BY <2>2, <3>2, <3>3, <3>4
  <2>5. isOnline' = After(m, isOnline) /\ Connects' = Connects
    BY <2>1, <2>4 DEF isOnline, Connects, After
  <2>6. Follows(remote, isOnline, b)' /\ Follows(hubq, b, Connects)'
    BY <1>0, <2>1, <2>3, <2>5
  <2> QED
    BY <2>6 DEF StatusInv
<1>13. CASE Parts \/ HandlesLocal \/ Sends \/ \E q \in Requests : Asks(q)
  BY <1>2, <1>13 DEF Parts, HandlesLocal, Sends, Asks, Connects
<1>14. CASE Serves \/ Publishes \/ Broadcasts
  BY <1>2, <1>14 DEF Serves, Publishes, Broadcasts, Connects
<1> QED
  BY <1>4, <1>5, <1>6, <1>7, <1>8, <1>9, <1>10, <1>11, <1>12, <1>13, <1>14 DEF Next

\* The satellite that took all signons and signoffs of its client is online
\* just when the client has announced its connection, however often that was
\* lost and made again.
THEOREM StatusFollowsConnections == Spec => []StatusFollows
<1>1. Init => StatusInv
  <2> SUFFICES ASSUME Init PROVE StatusInv
    OBVIOUS
  <2>1. remote = << >> /\ hubq = << >> /\ isOnline = FALSE /\ Connects = FALSE
    BY DEF Init, isOnline, Connects
  <2>2. Follows(<< >>, FALSE, FALSE)
    BY EmptySeq DEF Follows
  <2>3. Follows(remote, isOnline, FALSE) /\ Follows(hubq, FALSE, Connects)
    BY <2>1, <2>2
  <2> QED
    BY <2>3 DEF StatusInv
<1>2. TypeOK /\ StatusInv /\ [Next]_vars => StatusInv'
  <2>1. CASE UNCHANGED vars
    BY <2>1 DEF vars, cliVars, hubVars, satVars, StatusInv, isOnline, Connects
  <2> QED
    BY <2>1, StatusStep
<1>3. TypeOK /\ StatusInv => StatusFollows
  <2> SUFFICES ASSUME TypeOK, StatusInv,
                      \A m \in {Signon, Signoff} : m \notin ToSet(hubq) \cup ToSet(remote)
               PROVE  isOnline = (reader \in {"read", "nil", "signoff"})
    BY DEF StatusFollows
  <2>1. PICK b \in BOOLEAN : Follows(remote, isOnline, b) /\ Follows(hubq, b, Connects)
    BY DEF StatusInv
  <2>2. /\ isOnline \in BOOLEAN /\ Connects \in BOOLEAN
        /\ remote \in Seq(Routed) /\ hubq \in Seq(Routed)
    BY DEF TypeOK, isOnline, Connects
  <2>3. (isOnline <=> b) /\ (b <=> Connects)
    BY <2>1, <2>2, FollowsQuiet
  <2> QED
    BY <2>2, <2>3 DEF Connects, isOnline
<1> QED
  BY <1>1, <1>2, <1>3, SatelliteTypes, PTL DEF Spec

-----------------------------------------------------------------------------
(* The first connection. *)

LEMMA FirstStep ==
    ASSUME TypeOK, FirstInv, Next
    PROVE  FirstInv'
<1> USE DEF cliVars, hubVars, satVars, servVars
<1> DEFINE First == dial = 0 \/ (dial = 1 /\ reader \in {"signon", "read"})
           Quiet == Nil \notin ToSet(send) /\ ~parting /\ Signoff \notin ToSet(hubq)
<1>0. /\ dial \in Nat /\ Nil \notin Ups /\ Signon # Signoff
      /\ Signon \in Routed /\ Signoff \in Routed /\ Signoff \notin Downs /\ Downs \subseteq Routed
  BY UpShapes, DownShapes, Caps DEF TypeOK, Routed
<1>1. dial = 0 => reader = "down"
  BY DEF FirstInv
<1>2. First => Quiet
  BY DEF FirstInv
<1>3. ASSUME UNCHANGED <<dial, reader>>, Quiet => Quiet'
      PROVE  FirstInv'
  BY <1>1, <1>2, <1>3 DEF FirstInv
<1>4. ASSUME dial' = dial, Quiet => Quiet', dial # 0,
             reader' \in {"signon", "read"} => reader \in {"signon", "read"}
      PROVE  FirstInv'
  BY <1>2, <1>4 DEF FirstInv
<1>5. CASE Dial
  <2>1. /\ reader = "down" /\ dial' = dial + 1 /\ reader' = "signon"
        /\ UNCHANGED <<send, hubq, parting>>
    BY <1>5 DEF Dial
  <2>2. dial' # 0 /\ (dial' = 1 => dial = 0)
    BY <1>0, <2>1
  <2> QED
    BY <1>2, <2>1, <2>2 DEF FirstInv
<1>6. CASE SignsOn
  <2>1. reader = "signon" /\ reader' = "read" /\ Announce(Signon) /\ UNCHANGED <<send, dial, parting>>
    BY <1>6 DEF SignsOn
  <2>2. ToSet(hubq') = ToSet(hubq) \cup {Signon}
    BY <1>0, <2>1, AnnounceFacts
  <2> QED
    BY <1>0, <1>1, <1>4, <2>1, <2>2
<1>7. CASE Reads
  <2>1. down # << >> /\ Announce(Head(down)) /\ UNCHANGED <<send, dial, reader, parting>>
    BY <1>7 DEF Reads
  <2>2. Head(down) \in Downs
    BY <2>1, HeadTailProperties DEF TypeOK
  <2>3. ToSet(hubq') = ToSet(hubq) \cup {Head(down)}
    BY <1>0, <2>1, <2>2, AnnounceFacts
  <2> QED
    BY <1>0, <1>3, <2>1, <2>2, <2>3
<1>8. CASE ReadEnds \/ SendsNil \/ SignsOff
  <2>1. reader \in {"read", "nil", "signoff"} /\ reader' \in {"nil", "signoff", "down"} /\ dial' = dial
    BY <1>8 DEF ReadEnds, SendsNil, SignsOff
  <2> QED
    BY <1>1, <2>1 DEF FirstInv
<1>9. CASE \E d \in 1..MaxDials : Writes(d) \/ WriterEnds(d)
  <2>1. /\ (send # << >> /\ send' = Tail(send)) \/ send' = send
        /\ UNCHANGED <<dial, reader, hubq, parting>>
    BY <1>9 DEF Writes, WriterEnds
  <2>2. ToSet(send') \subseteq ToSet(send)
    BY <2>1, SendFacts
  <2> QED
    BY <1>3, <2>1, <2>2
<1>10. CASE Routes
  <2>1. /\ hubq # << >> /\ hubq' = Tail(hubq) /\ parting' = Leaves(Head(hubq))
        /\ UNCHANGED <<send, dial, reader>>
    BY <1>10 DEF Routes
  <2>2. ToSet(hubq) = {Head(hubq)} \cup ToSet(Tail(hubq))
    BY <2>1, ToSetTail DEF TypeOK
  <2> QED
    BY <1>3, <2>1, <2>2 DEF Leaves
<1>11. CASE Parts
  BY <1>1, <1>2, <1>11 DEF Parts, FirstInv
<1>12. CASE Sends
  <2>1. todo # << >> /\ UNCHANGED <<dial, reader, hubq, parting>>
    BY <1>12 DEF Sends
  <2>2. Head(todo) \in Ups \cup {Stat}
    BY <2>1, HeadTailProperties DEF TypeOK
  <2>3. \/ UNCHANGED send
        \/ Head(todo) \in Ups /\ Chan(Head(todo))
    BY <1>12, <2>2 DEF Sends
  <2>4. Nil \notin ToSet(send) => Nil \notin ToSet(send')
    BY <1>0, <2>3, ChanFacts
  <2> QED
    BY <1>3, <2>1, <2>4
<1>13. CASE HandlesLocal \/ handleRemote \/ \E q \in Requests : Asks(q)
  BY <1>3, <1>13 DEF HandlesLocal, handleRemote, Asks
<1>14. CASE Serves \/ Publishes \/ Broadcasts
  BY <1>3, <1>14 DEF Serves, Publishes, Broadcasts
<1> QED
  BY <1>5, <1>6, <1>7, <1>8, <1>9, <1>10, <1>11, <1>12, <1>13, <1>14 DEF Next

\* The client's first writer is not ended by a nil as long as the connection
\* lives: both senders of nil wait for the end of a connection, and the hub
\* for a signoff that comes after the client's own.
THEOREM FirstWriterKept == Spec => []FirstWriterStays
<1>1. Init => FirstInv
  BY ToSetEmpty DEF Init, FirstInv
<1>2. TypeOK /\ FirstInv /\ [Next]_vars => FirstInv'
  <2>1. CASE UNCHANGED vars
    BY <2>1 DEF vars, cliVars, hubVars, FirstInv
  <2> QED
    BY <2>1, FirstStep
<1>3. FirstInv => FirstWriterStays
  BY DEF FirstInv, FirstWriterStays
<1> QED
  BY <1>1, <1>2, <1>3, SatelliteTypes, PTL DEF Spec

-----------------------------------------------------------------------------
(* Updates. *)

\* The events a message brings.
Brings(m) == {e \in 1..MaxEvents : IsUpdate(m) /\ e \in m.evs}

LEMMA BringsFacts ==
    /\ \A m : ~IsUpdate(m) => Brings(m) = {}
    /\ \A m \in Routed : IsUpdate(m) => m.rev \in 0..MaxEvents /\ m.evs = Brings(m)
    /\ ~IsUpdate(Signon) /\ ~IsUpdate(Signoff) /\ ~IsUpdate(SatAnswer)
    /\ \A q, res : ~IsUpdate(PubAnswer(q, res))
    /\ \A r, e : IsUpdate(Update(r, e))
  BY Subjects, DownShapes DEF Brings, IsUpdate, Routed

LEMMA UpdateBrings ==
    ASSUME NEW r \in 0..MaxEvents, NEW es \in SUBSET (1..MaxEvents)
    PROVE  LET u == Update(r, es)
           IN  u \in Downs /\ IsUpdate(u) /\ u.rev = r /\ Brings(u) = es
<1> DEFINE u == Update(r, es)
<1>1. u \in Downs /\ IsUpdate(u) /\ u.rev = r /\ u.evs = es
  BY Subjects, DownShapes, BringsFacts
<1> HIDE DEF u
<1>2. Brings(u) = es
  BY <1>1 DEF Brings
<1> QED
  BY <1>1, <1>2 DEF u

LEMMA CarriedEmpty == Carried(<< >>) = {}
  BY EmptySeq DEF Carried

LEMMA CarriedAppend ==
    ASSUME NEW S, NEW s \in Seq(S), NEW m \in S
    PROVE  Carried(Append(s, m)) = Carried(s) \cup Brings(m)
<1> DEFINE t == Append(s, m)
<1>1. /\ Len(s) \in Nat /\ Len(t) = Len(s) + 1
      /\ \A i \in 1..Len(s) : t[i] = s[i] /\ i \in 1..Len(t)
      /\ t[Len(s) + 1] = m /\ Len(s) + 1 \in 1..Len(t)
      /\ \A i \in 1..Len(t) : i \in 1..Len(s) \/ i = Len(s) + 1
  BY AppendProperties, LenProperties
<1> HIDE DEF t
<1>2. Carried(t) = Carried(s) \cup Brings(m)
  BY <1>1 DEF Carried, Brings
<1> QED
  BY <1>2 DEF t

LEMMA CarriedTail ==
    ASSUME NEW S, NEW s \in Seq(S), s # << >>
    PROVE  Carried(s) = Brings(Head(s)) \cup Carried(Tail(s))
<1> DEFINE t == Tail(s)
<1>1. /\ Len(s) \in Nat \ {0} /\ Len(t) = Len(s) - 1
      /\ \A i \in 1..Len(t) : i + 1 \in 1..Len(s) /\ t[i] = s[i + 1]
      /\ Head(s) = s[1] /\ 1 \in 1..Len(s)
  BY TailAt
<1>2. \A i \in 1..Len(s) : i # 1 => i - 1 \in 1..Len(t) /\ t[i - 1] = s[i]
  BY <1>1
<1> HIDE DEF t
<1>3. Carried(t) \subseteq Carried(s) /\ Brings(Head(s)) \subseteq Carried(s)
  BY <1>1 DEF Carried, Brings
<1>4. Carried(s) \subseteq Brings(Head(s)) \cup Carried(t)
  BY <1>1, <1>2 DEF Carried, Brings
<1> QED
  BY <1>3, <1>4 DEF t

LEMMA CompleteEmpty == \A K : Complete(<< >>, K)
  BY EmptySeq DEF Complete

LEMMA CompleteMore ==
    ASSUME NEW s, NEW K, NEW L, K \subseteq L, Complete(s, K)
    PROVE  Complete(s, L)
  BY DEF Complete

\* A message sent leaves nothing out when what comes with it and was sent
\* before leaves nothing out.
LEMMA CompleteAppend ==
    ASSUME NEW S, NEW s \in Seq(S), NEW m \in S, NEW K, Complete(s, K),
           IsUpdate(m) => \A e \in 1..m.rev : e \in K \cup Carried(s) \cup Brings(m)
    PROVE  Complete(Append(s, m), K)
<1> DEFINE t == Append(s, m)
<1>1. /\ Len(s) \in Nat /\ Len(t) = Len(s) + 1
      /\ \A i \in 1..Len(s) : t[i] = s[i] /\ 1..i \subseteq 1..Len(s)
      /\ t[Len(s) + 1] = m
      /\ \A i \in 1..Len(t) : i \in 1..Len(s) \/ i = Len(s) + 1
  BY AppendProperties, LenProperties
<1> HIDE DEF t
<1>2. SUFFICES ASSUME NEW i \in 1..Len(t), IsUpdate(t[i]), NEW e \in 1..t[i].rev, e \notin K
               PROVE  \E j \in 1..i : IsUpdate(t[j]) /\ e \in t[j].evs
  BY DEF Complete, t
<1>3. CASE i \in 1..Len(s)
  <2>1. t[i] = s[i]
    BY <1>1, <1>3
  <2>2. PICK j \in 1..i : IsUpdate(s[j]) /\ e \in s[j].evs
    BY <1>2, <1>3, <2>1 DEF Complete
  <2>3. j \in 1..Len(s)
    BY <1>1, <1>3
  <2> QED
    BY <1>1, <2>2, <2>3
<1>4. CASE i = Len(s) + 1
  <2>1. e \in Carried(s) \cup Brings(m)
    BY <1>1, <1>2, <1>4
  <2>2. CASE e \in Carried(s)
    <3>1. PICK j \in 1..Len(s) : IsUpdate(s[j]) /\ e \in s[j].evs
      BY <2>2 DEF Carried
    <3>2. j \in 1..i /\ t[j] = s[j]
      BY <1>1, <1>4
    <3> QED
      BY <3>1, <3>2
  <2>3. CASE e \in Brings(m)
    <3>1. IsUpdate(m) /\ e \in m.evs /\ i \in 1..i
      BY <1>1, <1>4, <2>3 DEF Brings
    <3> QED
      BY <1>1, <1>4, <3>1
  <2> QED
    BY <2>1, <2>2, <2>3
<1> QED
  BY <1>1, <1>3, <1>4

\* Who takes a message misses nothing, and nothing of what is left.
LEMMA CompleteTail ==
    ASSUME NEW s \in Seq(Routed), s # << >>, NEW K, Complete(s, K)
    PROVE  /\ IsUpdate(Head(s)) => \A e \in 1..Head(s).rev : e \in K \cup Brings(Head(s))
           /\ Complete(Tail(s), K \cup Brings(Head(s)))
<1> DEFINE t == Tail(s)
           m == Head(s)
<1>1. /\ Len(s) \in Nat \ {0} /\ Len(t) = Len(s) - 1
      /\ \A i \in 1..Len(t) : i + 1 \in 1..Len(s) /\ t[i] = s[i + 1]
      /\ m = s[1] /\ 1 \in 1..Len(s)
      /\ m \in Routed
  BY TailAt, HeadTailProperties
<1>2. \A i \in 1..Len(s) : i # 1 => i - 1 \in 1..Len(t) /\ t[i - 1] = s[i]
  BY <1>1
<1>3. IsUpdate(m) => m.evs = Brings(m)
  BY <1>1, BringsFacts
<1> HIDE DEF t, m
<1>4. ASSUME IsUpdate(m), NEW e \in 1..m.rev PROVE e \in K \cup Brings(m)
  <2>1. e \in K \/ \E j \in 1..1 : IsUpdate(s[j]) /\ e \in s[j].evs
    BY <1>1, <1>4 DEF Complete
  <2>2. \A j \in 1..1 : s[j] = m
    BY <1>1
  <2> QED
    BY <1>3, <1>4, <2>1, <2>2
<1>5. Complete(t, K \cup Brings(m))
  <2> SUFFICES ASSUME NEW i \in 1..Len(t), IsUpdate(t[i]), NEW e \in 1..t[i].rev,
                      e \notin K \cup Brings(m)
               PROVE  \E j \in 1..i : IsUpdate(t[j]) /\ e \in t[j].evs
    BY DEF Complete
  <2>1. i + 1 \in 1..Len(s) /\ t[i] = s[i + 1]
    BY <1>1
  <2>2. PICK j \in 1..(i + 1) : IsUpdate(s[j]) /\ e \in s[j].evs
    BY <2>1 DEF Complete
  <2>3. j # 1
    BY <1>1, <1>3, <2>2
  <2>4. j - 1 \in 1..i /\ t[j - 1] = s[j]
    BY <1>1, <1>2, <2>1, <2>3
  <2> QED
    BY <2>2, <2>4
<1> QED
  BY <1>4, <1>5 DEF t, m

\* What taking the head of remote does to the replica.
LEMMA ReplicaFacts ==
    ASSUME TypeOK, handleRemote
    PROVE  /\ Head(remote) \in Routed
           /\ Covered' = Covered \cup Brings(Head(remote))
           /\ replica.rev \in Nat /\ replica'.rev \in Nat /\ replica.rev <= replica'.rev
           /\ \/ replica'.rev = replica.rev
              \/ IsUpdate(Head(remote)) /\ replica'.rev = Head(remote).rev
<1> DEFINE m == Head(remote)
<1>1. remote # << >> /\ remote \in Seq(Routed) /\ replied' = replied
  BY DEF handleRemote, TypeOK, servVars
<1>2. /\ m \in Routed /\ replica.rev \in Nat /\ MaxEvents \in Nat
      /\ replica \in [evs : SUBSET (1..MaxEvents), rev : 0..MaxEvents]
  BY <1>1, HeadTailProperties, Caps DEF TypeOK
<1>3. \/ ~IsUpdate(m) /\ UNCHANGED replica
      \/ IsUpdate(m) /\ Replicate(m.rev, m.evs)
      \/ ~IsUpdate(m) /\ Replicate(0, {})
  BY BringsFacts, Subjects DEF handleRemote, IsUpdate
<1> HIDE DEF m
<1>4. ASSUME NEW r \in 0..MaxEvents, NEW e, Replicate(r, e)
      PROVE  /\ replica'.evs = replica.evs \cup e /\ replica'.rev \in Nat
             /\ replica.rev <= replica'.rev
             /\ replica'.rev = replica.rev \/ (replica'.rev = r /\ r > replica.rev)
  <2> DEFINE es == replica.evs \cup e
             rv == IF r > replica.rev THEN r ELSE replica.rev
  <2>1. replica' = [evs |-> es, rev |-> rv]
    BY <1>4 DEF Replicate
  <2>2. rv \in Nat /\ replica.rev <= rv /\ (rv = replica.rev \/ (rv = r /\ r > replica.rev))
    BY <1>2
  <2> HIDE DEF es, rv
  <2>3. replica'.evs = es /\ replica'.rev = rv
    BY <2>1
  <2> QED
    BY <2>2, <2>3 DEF es
<1>5. CASE ~IsUpdate(m) /\ UNCHANGED replica
  BY <1>1, <1>2, <1>5, BringsFacts DEF Covered, m
<1>6. CASE IsUpdate(m) /\ Replicate(m.rev, m.evs)
  <2>1. m.rev \in 0..MaxEvents /\ m.evs = Brings(m)
    BY <1>2, <1>6, BringsFacts
  <2>2. /\ replica'.evs = replica.evs \cup Brings(m) /\ replica'.rev \in Nat
        /\ replica.rev <= replica'.rev
        /\ replica'.rev = replica.rev \/ replica'.rev = m.rev
    BY <1>4, <1>6, <2>1
  <2> QED
    BY <1>1, <1>2, <1>6, <2>2 DEF Covered, m
<1>7. CASE ~IsUpdate(m) /\ Replicate(0, {})
  <2>1. 0 \in 0..MaxEvents /\ ~(0 > replica.rev)
    BY <1>2
  <2>2. /\ replica'.evs = replica.evs \cup {} /\ replica'.rev = replica.rev
    BY <1>4, <1>7, <2>1
  <2>3. Brings(m) = {}
    BY <1>7, BringsFacts
  <2> QED
    BY <1>1, <1>2, <2>2, <2>3 DEF Covered, m
<1> QED
  BY <1>3, <1>5, <1>6, <1>7

\* The replica's revision does not go back, so what the satellite asked from
\* stays a revision it had.
LEMMA AsksStep ==
    ASSUME TypeOK, AsksFromOwn, Next
    PROVE  AsksFromOwn'
<1> USE DEF cliVars, hubVars, satVars, servVars
<1> DEFINE Way == ToSet(todo) \cup ToSet(send) \cup ToSet(up)
<1>1. ASSUME UNCHANGED replica, Way' \subseteq Way \cup {Nil, Stat} \cup {Pub(q) : q \in Requests}
      PROVE  AsksFromOwn'
  BY <1>1, Subjects DEF AsksFromOwn
<1>2. CASE \/ Dial \/ SignsOn \/ Reads \/ SignsOff \/ Routes
           \/ Publishes \/ Broadcasts \/ \E q \in Requests : Asks(q)
  BY <1>1, <1>2 DEF Dial, SignsOn, Reads, SignsOff, Routes, Publishes, Broadcasts, Asks
<1>3. CASE ReadEnds
  <2>1. UNCHANGED <<todo, send, replica>> /\ (up' = up \/ Hangs)
    BY <1>3 DEF ReadEnds
  <2>2. ToSet(up') \subseteq ToSet(up)
    BY <2>1, HangsFacts
  <2> QED
    BY <1>1, <2>1, <2>2
<1>4. CASE SendsNil \/ Parts
  <2>1. UNCHANGED <<todo, up, replica>> /\ Chan(Nil)
    BY <1>4 DEF SendsNil, Parts
  <2>2. ToSet(send') = ToSet(send) \cup {Nil}
    BY <2>1, ChanFacts
  <2> QED
    BY <1>1, <2>1, <2>2
<1>5. ASSUME NEW d \in 1..MaxDials, Writes(d) PROVE AsksFromOwn'
  <2>1. /\ send # << >> /\ Head(send) # Nil /\ send' = Tail(send) /\ UNCHANGED <<todo, replica>>
        /\ up' = up \/ up' = Append(up, Head(send))
    BY <1>5 DEF Writes
  <2>2. ToSet(send) = {Head(send)} \cup ToSet(send') /\ Head(send) \in Ups
    BY <2>1, SendFacts
  <2>3. ToSet(up') \subseteq ToSet(up) \cup {Head(send)}
    <3>1. up \in Seq(Ups) /\ Head(send) \in Ups
      BY <2>2 DEF TypeOK
    <3>2. ToSet(Append(up, Head(send))) = ToSet(up) \cup {Head(send)}
      BY <3>1, ToSetAppend
    <3> QED
      BY <2>1, <3>2
  <2> QED
    BY <1>1, <2>1, <2>2, <2>3
<1>6. ASSUME NEW d \in 1..MaxDials, WriterEnds(d) PROVE AsksFromOwn'
  <2>1. /\ send' = send \/ (send # << >> /\ send' = Tail(send))
        /\ UNCHANGED <<todo, replica>> /\ (up' = up \/ Hangs)
    BY <1>6 DEF WriterEnds
  <2>2. ToSet(send') \subseteq ToSet(send)
    BY <2>1, SendFacts
  <2>3. ToSet(up') \subseteq ToSet(up)
    BY <2>1, HangsFacts
  <2> QED
    BY <1>1, <2>1, <2>2, <2>3
<1>7. CASE HandlesLocal
  <2> DEFINE m == Head(input)
  <2>1. /\ todo = << >> /\ input # << >> /\ UNCHANGED <<send, up, replica>>
        /\ todo' = todo \/ (m # Stat /\ todo' = <<Pub(m.req)>>)
    BY <1>7 DEF HandlesLocal, pub
  <2>2. m \in {Pub(x) : x \in Requests} \cup {Stat}
    BY <2>1, HeadTailProperties DEF TypeOK
  <2> HIDE DEF m
  <2>3. CASE m # Stat
    <3>1. PICK q \in Requests : m = Pub(q)
      BY <2>2, <2>3
    <3>2. m.req = q
      BY <3>1, Subjects
    <3>3. ToSet(todo') \subseteq ToSet(todo) \cup {Pub(q)}
      BY <2>1, <3>2 DEF ToSet
    <3> QED
      BY <1>1, <2>1, <3>3
  <2> QED
    BY <1>1, <2>1, <2>3
<1>8. CASE handleRemote
  <2>1. /\ UNCHANGED <<send, up>> /\ todo = << >>
        /\ \/ todo' = todo
           \/ todo' = <<Stat>>
           \/ todo' = <<Sat(replica.rev), Stat>>
    BY <1>8 DEF handleRemote
  <2>2. ToSet(todo') \subseteq {Sat(replica.rev), Stat}
    BY <2>1 DEF ToSet
  <2>3. replica.rev \in Nat /\ replica'.rev \in Nat /\ replica.rev <= replica'.rev
    BY <1>8, ReplicaFacts
  <2>4. Way' \subseteq Way \cup {Sat(replica.rev), Stat}
    BY <2>1, <2>2
  <2>5. \A m \in Way : m.subj = "evt.sat" => m.rev \in Nat
    <3>1. /\ todo \in Seq(Ups \cup {Stat}) /\ send \in Seq(Ups \cup {Nil}) /\ up \in Seq(Ups)
      BY DEF TypeOK
    <3> DEFINE S == Ups \cup {Stat, Nil}
    <3>2. \A s \in Seq(Ups \cup {Stat}) : ToSet(s) \subseteq S
      BY ToSetDef
    <3>3. \A s \in Seq(Ups \cup {Nil}) : ToSet(s) \subseteq S
      BY ToSetDef
    <3>4. \A s \in Seq(Ups) : ToSet(s) \subseteq S
      BY ToSetDef
    <3>5. \A m \in S : m.subj = "evt.sat" => m.rev \in 0..MaxEvents
      <4>1. \A m \in Ups : m.subj = "evt.sat" => m.rev \in 0..MaxEvents
        BY UpShapes
      <4>2. Stat.subj # "evt.sat" /\ Nil.subj # "evt.sat"
        BY Subjects
      <4> QED
        BY <4>1, <4>2
    <3> HIDE DEF S
    <3>6. ToSet(todo) \subseteq S /\ ToSet(send) \subseteq S /\ ToSet(up) \subseteq S
      BY <3>1, <3>2, <3>3, <3>4
    <3>7. Way \subseteq S
      BY <3>6
    <3>8. 0..MaxEvents \subseteq Nat
      BY Caps
    <3> QED
      BY <3>5, <3>7, <3>8
  <2>6. \A m \in Way' : m.subj = "evt.sat" =>
            \/ m \in Way /\ m.rev \in Nat
            \/ m.rev = replica.rev
    BY <2>4, <2>5, Subjects
  <2> QED
    BY <2>3, <2>6 DEF AsksFromOwn
<1>9. CASE Sends
  <2>1. /\ todo # << >> /\ todo' = Tail(todo) /\ UNCHANGED <<up, replica>>
        /\ \/ Head(todo) # Stat /\ Chan(Head(todo))
           \/ UNCHANGED send
    BY <1>9 DEF Sends
  <2>2. Head(todo) \in Ups \cup {Stat} /\ ToSet(todo) = {Head(todo)} \cup ToSet(todo')
    BY <2>1, Taken DEF TypeOK
  <2>3. ToSet(send') \subseteq ToSet(send) \cup {Head(todo)}
    BY <2>1, <2>2, ChanFacts
  <2> QED
    BY <1>1, <2>1, <2>2, <2>3
<1>10. CASE Serves
  <2>1. up # << >> /\ up' = Tail(up) /\ UNCHANGED <<todo, send, replica>>
    BY <1>10 DEF Serves
  <2>2. ToSet(up') \subseteq ToSet(up)
    BY <2>1, ToSetTail DEF TypeOK
  <2> QED
    BY <1>1, <2>1, <2>2
<1> QED
  BY <1>2, <1>3, <1>4, <1>5, <1>6, <1>7, <1>8, <1>9, <1>10 DEF Next

LEMMA ChannelTypes ==
    ASSUME TypeOK
    PROVE  /\ remote \in Seq(Routed) /\ hubq \in Seq(Routed)
           /\ down \in Seq(Downs) /\ down \in Seq(Routed) /\ Downs \subseteq Routed
<1>1. /\ remote \in Seq(Routed) /\ hubq \in Seq(Routed) /\ down \in Seq(Downs)
      /\ Downs \subseteq Routed
  BY DEF TypeOK, Routed
<1> QED
  BY <1>1

\* The way of an update through the client, the hub and the satellite.
LEMMA UpdatesPass ==
    ASSUME TypeOK, Gapless, Buffered, Reads \/ Routes \/ handleRemote
    PROVE  Gapless' /\ Buffered'
<1> USE DEF cliVars, hubVars, satVars, servVars
<1>0. /\ remote \in Seq(Routed) /\ hubq \in Seq(Routed)
      /\ down \in Seq(Downs) /\ down \in Seq(Routed) /\ Downs \subseteq Routed
  BY ChannelTypes
<1>1. ASSUME Told' = Told, UNCHANGED <<open, subbed, bufr, log>> PROVE Buffered'
  BY <1>1 DEF Buffered, Rev
<1>2. CASE Reads
  <2> DEFINE m == Head(down)
  <2>1. /\ down # << >> /\ hubq' = Append(hubq, m) /\ down' = Tail(down)
        /\ UNCHANGED <<remote, replica, replied, open, subbed, bufr, log>>
    BY <1>2 DEF Reads, Announce
  <2>2. m \in Routed
    BY <1>0, <2>1, HeadTailProperties
  <2>3. Covered' = Covered /\ Carried(remote)' = Carried(remote)
    BY <2>1 DEF Covered, Carried
  <2>4. Carried(down) = Brings(m) \cup Carried(down')
    BY <1>0, <2>1, CarriedTail
  <2>5. Carried(hubq') = Carried(hubq) \cup Brings(m)
    <3> HIDE DEF m
    <3> QED
      BY <1>0, <2>1, <2>2, CarriedAppend
  <2> DEFINE K == Covered \cup Carried(remote)
  <2>6. /\ IsUpdate(m) => \A e \in 1..m.rev : e \in (K \cup Carried(hubq)) \cup Brings(m)
        /\ Complete(Tail(down), (K \cup Carried(hubq)) \cup Brings(m))
    BY <1>0, <2>1, CompleteTail DEF Gapless
  <2>7. Complete(hubq, K)
    BY DEF Gapless
  <2> HIDE DEF m, K
  <2>8. Complete(Append(hubq, m), K)
    <3>1. IsUpdate(m) => \A e \in 1..m.rev : e \in K \cup Carried(hubq) \cup Brings(m)
      BY <2>6
    <3> QED
      BY <1>0, <2>2, <2>7, <3>1, CompleteAppend
  <2>9. Complete(hubq', Covered' \cup Carried(remote)')
    BY <2>1, <2>3, <2>8 DEF K
  <2>10. Complete(down', Covered' \cup Carried(remote)' \cup Carried(hubq'))
    <3>1. Covered' \cup Carried(remote)' \cup Carried(hubq') = (K \cup Carried(hubq)) \cup Brings(m)
      BY <2>3, <2>5 DEF K
    <3> QED
      BY <2>1, <2>6, <3>1 DEF m
  <2>11. Complete(remote', Covered') /\ UpdatesComplete'
    BY <2>1, <2>3 DEF Gapless, UpdatesComplete
  <2>12. Told' = Told
    BY <2>3, <2>4, <2>5 DEF Told
  <2> QED
    BY <1>1, <2>1, <2>9, <2>10, <2>11, <2>12 DEF Gapless
<1>3. CASE Routes
  <2> DEFINE m == Head(hubq)
  <2>1. /\ hubq # << >> /\ remote' = Append(remote, m) /\ hubq' = Tail(hubq)
        /\ UNCHANGED <<down, replica, replied, open, subbed, bufr, log>>
    BY <1>3 DEF Routes
  <2>2. m \in Routed
    BY <1>0, <2>1, HeadTailProperties
  <2>3. Covered' = Covered /\ Carried(down)' = Carried(down)
    BY <2>1 DEF Covered, Carried
  <2>4. Carried(hubq) = Brings(m) \cup Carried(hubq')
    BY <1>0, <2>1, CarriedTail
  <2>5. Carried(remote') = Carried(remote) \cup Brings(m)
    <3> HIDE DEF m
    <3> QED
      BY <1>0, <2>1, <2>2, CarriedAppend
  <2>6. /\ IsUpdate(m) => \A e \in 1..m.rev : e \in (Covered \cup Carried(remote)) \cup Brings(m)
        /\ Complete(Tail(hubq), (Covered \cup Carried(remote)) \cup Brings(m))
    BY <1>0, <2>1, CompleteTail DEF Gapless
  <2>7. Complete(remote, Covered)
    BY DEF Gapless
  <2> HIDE DEF m
  <2>8. Complete(Append(remote, m), Covered)
    <3>1. IsUpdate(m) => \A e \in 1..m.rev : e \in Covered \cup Carried(remote) \cup Brings(m)
      BY <2>6
    <3> QED
      BY <1>0, <2>2, <2>7, <3>1, CompleteAppend
  <2>9. Complete(remote', Covered')
    BY <2>1, <2>3, <2>8
  <2>10. Complete(hubq', Covered' \cup Carried(remote'))
    <3>1. Covered' \cup Carried(remote') = (Covered \cup Carried(remote)) \cup Brings(m)
      BY <2>3, <2>5
    <3> QED
      BY <2>1, <2>6, <3>1
  <2>11. Complete(down', Covered' \cup Carried(remote') \cup Carried(hubq'))
    <3>1. Covered' \cup Carried(remote') \cup Carried(hubq') = Covered \cup Carried(remote) \cup Carried(hubq)
      BY <2>3, <2>4, <2>5
    <3> QED
      BY <2>1, <3>1 DEF Gapless
  <2>12. UpdatesComplete' /\ Told' = Told
    BY <2>1, <2>3, <2>4, <2>5 DEF Gapless, UpdatesComplete, Told
  <2> QED
    BY <1>1, <2>1, <2>9, <2>10, <2>11, <2>12 DEF Gapless
<1>4. CASE handleRemote
  <2> DEFINE m == Head(remote)
  <2>1. /\ remote # << >> /\ remote' = Tail(remote)
        /\ UNCHANGED <<down, hubq, open, subbed, bufr, log>>
    BY <1>4 DEF handleRemote
  <2>2. /\ Covered' = Covered \cup Brings(m)
        /\ replica.rev \in Nat /\ replica'.rev \in Nat
        /\ replica'.rev = replica.rev \/ (IsUpdate(m) /\ replica'.rev = m.rev)
    BY <1>4, ReplicaFacts
  <2>3. Carried(remote) = Brings(m) \cup Carried(remote')
    BY <1>0, <2>1, CarriedTail
  <2>4. /\ IsUpdate(m) => \A e \in 1..m.rev : e \in Covered \cup Brings(m)
        /\ Complete(Tail(remote), Covered \cup Brings(m))
    BY <1>0, <2>1, CompleteTail DEF Gapless
  <2>5. \A e \in 1..replica.rev : e \in Covered
    BY DEF Gapless, UpdatesComplete, Covered
  <2> HIDE DEF m
  <2>6. \A e \in 1..replica'.rev : e \in Covered'
    BY <2>2, <2>4, <2>5
  <2>7. UpdatesComplete'
    BY <2>6 DEF UpdatesComplete, Covered
  <2>8. Complete(remote', Covered')
    BY <2>1, <2>2, <2>4
  <2>9. Covered' \cup Carried(remote') = Covered \cup Carried(remote)
    BY <2>2, <2>3
  <2>10. Carried(hubq') = Carried(hubq) /\ Carried(down') = Carried(down)
    BY <2>1
  <2>11. Complete(hubq', Covered' \cup Carried(remote'))
    BY <2>1, <2>9 DEF Gapless
  <2>12. Complete(down', Covered' \cup Carried(remote') \cup Carried(hubq'))
    BY <2>1, <2>9, <2>10 DEF Gapless
  <2>13. Told' = Told
    BY <2>9, <2>10 DEF Told
  <2> QED
    BY <1>1, <2>1, <2>7, <2>8, <2>11, <2>12, <2>13 DEF Gapless
<1> QED
  BY <1>2, <1>3, <1>4

\* A message the server sends.
LEMMA ServerSends ==
    ASSUME TypeOK, Gapless, NEW m \in Downs, NEW K, Covered \subseteq K,
           IsUpdate(m) => \A e \in 1..m.rev : e \in Told \cup Brings(m)
    PROVE  LET U == K \cup Carried(remote) \cup Carried(hubq)
           IN  /\ Complete(Append(down, m), U)
               /\ Append(down, m) \in Seq(Downs)
               /\ Carried(Append(down, m)) = Carried(down) \cup Brings(m)
<1> DEFINE U == K \cup Carried(remote) \cup Carried(hubq)
<1>0. down \in Seq(Downs)
  BY ChannelTypes
<1>1. Complete(down, Covered \cup Carried(remote) \cup Carried(hubq))
  BY DEF Gapless
<1>2. Covered \cup Carried(remote) \cup Carried(hubq) \subseteq U
  OBVIOUS
<1>3. IsUpdate(m) => \A e \in 1..m.rev : e \in U \cup Carried(down) \cup Brings(m)
  BY DEF Told
<1> HIDE DEF U
<1>4. Complete(down, U)
  BY <1>1, <1>2, CompleteMore
<1>5. Complete(Append(down, m), U)
  BY <1>0, <1>3, <1>4, CompleteAppend
<1>6. Append(down, m) \in Seq(Downs) /\ Carried(Append(down, m)) = Carried(down) \cup Brings(m)
  BY <1>0, AppendProperties, CarriedAppend
<1> QED
  BY <1>5, <1>6 DEF U

LEMMA Widens ==
    ASSUME Gapless, Covered \subseteq Covered', UNCHANGED <<remote, hubq, replica>>
    PROVE  /\ UpdatesComplete' /\ Complete(remote', Covered')
           /\ Complete(hubq', Covered' \cup Carried(remote'))
           /\ Complete(down, Covered' \cup Carried(remote') \cup Carried(hubq'))
<1>1. /\ Complete(remote, Covered) /\ Complete(hubq, Covered \cup Carried(remote))
      /\ Complete(down, Covered \cup Carried(remote) \cup Carried(hubq))
      /\ \A e \in 1..replica.rev : e \in Covered
  BY DEF Gapless, UpdatesComplete, Covered
<1>2. Carried(remote') = Carried(remote) /\ Carried(hubq') = Carried(hubq)
  OBVIOUS
<1>3. /\ Covered \cup Carried(remote) \subseteq Covered' \cup Carried(remote')
      /\ Covered \cup Carried(remote) \cup Carried(hubq)
             \subseteq Covered' \cup Carried(remote') \cup Carried(hubq')
  BY <1>2
<1>4. Complete(remote', Covered')
  <2>1. Complete(remote, Covered')
    BY <1>1, CompleteMore
  <2> QED
    BY <2>1
<1>5. Complete(hubq', Covered' \cup Carried(remote'))
  <2>1. Complete(hubq, Covered' \cup Carried(remote'))
    BY <1>1, <1>3, CompleteMore
  <2> QED
    BY <2>1
<1>6. Complete(down, Covered' \cup Carried(remote') \cup Carried(hubq'))
  BY <1>1, <1>3, CompleteMore
<1>7. UpdatesComplete'
  <2>1. replica' = replica /\ Covered' = replica.evs \cup replied'
    BY DEF Covered
  <2>2. \A e \in 1..replica.rev : e \in Covered'
    BY <1>1
  <2> QED
    BY <2>1, <2>2 DEF UpdatesComplete
<1> QED
  BY <1>4, <1>5, <1>6, <1>7

\* What the server sends, or the events it has the satellite told of.
LEMMA UpdatesSent ==
    ASSUME TypeOK, UpdatesInv, Serves \/ Publishes \/ Broadcasts
    PROVE  Gapless' /\ Buffered'
<1> USE DEF cliVars, hubVars, satVars, servVars
<1> USE DEF UpdatesInv
<1>0. /\ down \in Seq(Downs) /\ Rev \in Nat /\ Rev \in 0..MaxEvents /\ replica.rev \in Nat
      /\ bufr \in SUBSET (1..MaxEvents) /\ open \in BOOLEAN /\ subbed \in BOOLEAN
  <2>1. down \in Seq(Downs) /\ bufr \in SUBSET (1..MaxEvents)
    BY DEF TypeOK
  <2>2. open \in BOOLEAN /\ subbed \in BOOLEAN
    BY DEF TypeOK
  <2>3. Rev \in Nat /\ Rev \in 0..MaxEvents
    BY RevType
  <2>4. replica.rev \in Nat
    <3>1. replica \in [evs : SUBSET (1..MaxEvents), rev : 0..MaxEvents]
      BY DEF TypeOK
    <3>2. replica.rev \in 0..MaxEvents
      BY <3>1
    <3> QED
      BY <3>2, Caps
  <2> QED
    BY <2>1, <2>2, <2>3, <2>4
<1>1. UNCHANGED <<remote, hubq, replica, open>>
  BY DEF Serves, Publishes, Broadcasts
<1>2. /\ ~subbed => bufr = {}
      /\ open /\ subbed => \A e \in 1..Rev : e \in bufr \cup Told
  BY DEF Buffered
<1>3. ASSUME Covered \subseteq Covered',
             Complete(down', Covered' \cup Carried(remote') \cup Carried(hubq'))
      PROVE  Gapless'
  BY <1>1, <1>3, Widens DEF Gapless
<1>4. Carried(remote') = Carried(remote) /\ Carried(hubq') = Carried(hubq)
  BY <1>1
<1>5. CASE Serves
  <2> DEFINE m == Head(up)
  <2>1. /\ up # << >>
        /\ IF m.subj = "evt.sat" THEN ServesSat(m.rev) ELSE ServesPub(m.req)
    BY <1>5 DEF Serves
  <2>2. m \in Ups /\ m \in ToSet(up)
    BY <2>1, HeadTailProperties, ToSetTail DEF TypeOK
  <2>3. m.subj = "evt.sat" => m.rev \in Nat /\ m.rev <= replica.rev
    BY <2>2, UpShapes DEF AsksFromOwn
  <2>4. m.subj # "evt.sat" => m.req \in Requests
    BY <2>2, UpShapes
  <2> HIDE DEF m
  <2>5. CASE m.subj = "evt.sat"
    <3>1. /\ Answers(<<SatAnswer>>) /\ UNCHANGED log
          /\ \/ subbed /\ UNCHANGED <<subbed, bufr, replied>>
             \/ subbed' = TRUE /\ bufr' = {} /\ replied' = replied \cup (m.rev + 1)..Rev
      BY <2>1, <2>5 DEF ServesSat
    <3>2. Covered \subseteq Covered'
      BY <1>1, <3>1 DEF Covered
    <3>3. SatAnswer \in Downs /\ ~IsUpdate(SatAnswer) /\ Brings(SatAnswer) = {}
      BY DownShapes, BringsFacts
    <3>4. /\ Complete(Append(down, SatAnswer), Covered' \cup Carried(remote) \cup Carried(hubq))
          /\ Carried(Append(down, SatAnswer)) = Carried(down)
      BY <3>2, <3>3, ServerSends
    <3>5. down' = Append(down, SatAnswer) \/ down' = down
      <4>1. down \o <<SatAnswer>> = Append(down, SatAnswer)
        BY <1>0, <3>3, AppendTwo
      <4> QED
        BY <3>1, <4>1 DEF Answers
    <3>6. Complete(down, Covered' \cup Carried(remote') \cup Carried(hubq'))
      BY <1>1, <3>2, Widens
    <3>7. Complete(down', Covered' \cup Carried(remote') \cup Carried(hubq'))
      BY <1>4, <3>4, <3>5, <3>6
    <3>8. Carried(down') = Carried(down)
      BY <3>4, <3>5
    <3>9. Rev' = Rev /\ Told \subseteq Told'
      BY <1>4, <3>1, <3>2, <3>8 DEF Rev, Told
    <3>10. ASSUME subbed, UNCHANGED <<subbed, bufr, replied>>
           PROVE  Buffered'
      BY <1>1, <1>2, <3>9, <3>10 DEF Buffered
    <3>11. ASSUME subbed' = TRUE, bufr' = {}, replied' = replied \cup (m.rev + 1)..Rev
           PROVE  Buffered'
      <4>1. \A e \in 1..Rev : e \in 1..replica.rev \/ e \in (m.rev + 1)..Rev
        BY <1>0, <2>3, <2>5
      <4>2. \A e \in 1..replica.rev : e \in Covered
        BY DEF Gapless, UpdatesComplete, Covered
      <4>3. \A e \in 1..Rev : e \in Covered'
        BY <3>2, <3>11, <4>1, <4>2 DEF Covered
      <4> QED
        BY <3>9, <3>11, <4>3 DEF Buffered, Told
    <3> QED
      BY <1>3, <3>1, <3>2, <3>7, <3>10, <3>11
  <2>6. CASE m.subj # "evt.sat"
    <3> DEFINE q == m.req
               r == PubAnswer(q, "res")
               x == PubAnswer(q, "err")
               u == Update(Rev, bufr)
    <3>1. q \in Requests /\ ServesPub(q)
      BY <2>1, <2>4, <2>6
    <3>2. /\ r \in Downs /\ x \in Downs /\ u \in Downs
          /\ ~IsUpdate(r) /\ ~IsUpdate(x) /\ Brings(r) = {} /\ Brings(x) = {}
      BY <1>0, <3>1, DownShapes, BringsFacts
    <3>3. IsUpdate(u) /\ u.rev = Rev /\ Brings(u) = bufr
      BY <1>0, UpdateBrings
    <3> HIDE DEF q, r, x, u
    <3>4. CASE Answers(<<x>>) /\ UNCHANGED servVars
      <4>1. Covered' = Covered /\ Rev' = Rev
        BY <1>1, <3>4 DEF Covered, Rev
      <4>2. /\ Complete(Append(down, x), Covered \cup Carried(remote) \cup Carried(hubq))
            /\ Carried(Append(down, x)) = Carried(down)
        BY <3>2, ServerSends
      <4>3. down' = Append(down, x) \/ down' = down
        <5>1. down \o <<x>> = Append(down, x)
          BY <1>0, <3>2, AppendTwo
        <5> QED
          BY <3>4, <5>1 DEF Answers
      <4>4. Complete(down', Covered' \cup Carried(remote') \cup Carried(hubq'))
        BY <1>4, <4>1, <4>2, <4>3 DEF Gapless
      <4>5. Told' = Told
        BY <1>4, <4>1, <4>2, <4>3 DEF Told
      <4>6. UNCHANGED <<subbed, bufr>>
        BY <3>4
      <4> QED
        BY <1>1, <1>2, <1>3, <4>1, <4>4, <4>5, <4>6 DEF Buffered
    <3>5. CASE /\ Rev < MaxEvents /\ log' = Append(log, q)
               /\ Answers(IF bufr = {} THEN <<r>> ELSE <<u, r>>)
               /\ bufr' = {} /\ replied' = replied \cup {Rev + 1}
               /\ UNCHANGED subbed
      <4>1. Covered' = Covered \cup {Rev + 1}
        BY <1>1, <3>5 DEF Covered
      <4>2. 1..Rev' = 1..Rev \cup {Rev + 1}
        BY <3>1, <3>5, LogGrows
      <4>3. CASE ~open
        <5>1. down' = down
          BY <3>5, <4>3 DEF Answers
        <5>2. Complete(down, Covered' \cup Carried(remote') \cup Carried(hubq'))
          BY <1>1, <4>1, Widens
        <5>3. Buffered'
          BY <1>1, <3>5, <4>3 DEF Buffered
        <5> QED
          BY <1>3, <4>1, <5>1, <5>2, <5>3
      <4>4. CASE open /\ bufr = {}
        <5>1. down' = Append(down, r)
          <6>1. down \o <<r>> = Append(down, r)
            BY <1>0, <3>2, AppendTwo
          <6> QED
            BY <3>5, <4>4, <6>1 DEF Answers
        <5>2. /\ Complete(Append(down, r), Covered' \cup Carried(remote) \cup Carried(hubq))
              /\ Carried(Append(down, r)) = Carried(down)
          BY <3>2, <4>1, ServerSends
        <5>3. Told' = Told \cup {Rev + 1}
          BY <1>4, <4>1, <5>1, <5>2 DEF Told
        <5>4. subbed' => \A e \in 1..Rev' : e \in Told'
          BY <1>2, <3>5, <4>2, <4>4, <5>3
        <5>5. Buffered'
          BY <3>5, <5>4 DEF Buffered
        <5> QED
          BY <1>3, <1>4, <4>1, <5>1, <5>2, <5>5
      <4>5. CASE open /\ bufr # {}
        <5> DEFINE d == Append(down, u)
        <5>1. down' = Append(d, r)
          <6>1. down \o <<u, r>> = Append(d, r)
            BY <1>0, <3>2, AppendTwo
          <6> QED
            BY <3>5, <4>5, <6>1 DEF Answers
        <5>2. subbed /\ \A e \in 1..Rev : e \in bufr \cup Told
          BY <1>0, <1>2, <4>5
        <5>3. IsUpdate(u) => \A e \in 1..u.rev : e \in Told \cup Brings(u)
          BY <3>3, <5>2
        <5>4. /\ Complete(d, Covered' \cup Carried(remote) \cup Carried(hubq))
              /\ d \in Seq(Downs) /\ Carried(d) = Carried(down) \cup bufr
          BY <3>2, <3>3, <4>1, <5>3, ServerSends
        <5> HIDE DEF d
        <5>5. /\ Complete(Append(d, r), Covered' \cup Carried(remote) \cup Carried(hubq))
              /\ Carried(Append(d, r)) = Carried(down) \cup bufr
          BY <3>2, <5>4, CompleteAppend, CarriedAppend
        <5>6. Told' = Told \cup bufr \cup {Rev + 1}
          BY <1>4, <4>1, <5>1, <5>5 DEF Told
        <5>7. subbed' => \A e \in 1..Rev' : e \in Told'
          BY <4>2, <5>2, <5>6
        <5>8. Buffered'
          BY <3>5, <5>7 DEF Buffered
        <5> QED
          BY <1>3, <1>4, <4>1, <5>1, <5>5, <5>8
      <4> QED
        BY <1>0, <4>3, <4>4, <4>5
    <3> QED
      BY <3>1, <3>4, <3>5 DEF ServesPub, r, x, u
  <2> QED
    BY <2>5, <2>6
<1>6. CASE Publishes
  <2>1. /\ Rev < MaxEvents /\ log' = Append(log, Other)
        /\ bufr' = IF subbed THEN bufr \cup {Rev + 1} ELSE bufr
        /\ UNCHANGED <<down, subbed, replied>>
    BY <1>6 DEF Publishes
  <2>2. 1..Rev' = 1..Rev \cup {Rev + 1}
    BY <2>1, LogGrows
  <2>3. Covered' = Covered /\ Told' = Told
    BY <1>1, <2>1 DEF Covered, Told
  <2>4. Complete(down', Covered' \cup Carried(remote') \cup Carried(hubq'))
    BY <1>4, <2>1, <2>3 DEF Gapless
  <2>5. Buffered'
    BY <1>0, <1>1, <1>2, <2>1, <2>2, <2>3 DEF Buffered
  <2> QED
    BY <1>3, <2>3, <2>4, <2>5
<1>7. CASE Broadcasts
  <2> DEFINE u == Update(Rev, bufr)
  <2>1. /\ subbed /\ open /\ down' = Append(down, u) /\ bufr' = {}
        /\ UNCHANGED <<log, subbed, replied>>
    BY <1>7 DEF Broadcasts
  <2>2. u \in Downs /\ IsUpdate(u) /\ u.rev = Rev /\ Brings(u) = bufr
    BY <1>0, UpdateBrings
  <2> HIDE DEF u
  <2>3. Covered' = Covered /\ Rev' = Rev
    BY <1>1, <2>1 DEF Covered, Rev
  <2>4. IsUpdate(u) => \A e \in 1..u.rev : e \in Told \cup Brings(u)
    BY <1>2, <2>1, <2>2
  <2>5. /\ Complete(Append(down, u), Covered \cup Carried(remote) \cup Carried(hubq))
        /\ Carried(Append(down, u)) = Carried(down) \cup bufr
    BY <2>2, <2>4, ServerSends
  <2>6. Complete(down', Covered' \cup Carried(remote') \cup Carried(hubq'))
    BY <1>4, <2>1, <2>3, <2>5
  <2>7. Told' = Told \cup bufr
    BY <1>4, <2>1, <2>3, <2>5 DEF Told
  <2>8. Buffered'
    BY <1>2, <2>1, <2>3, <2>7 DEF Buffered
  <2> QED
    BY <1>3, <2>3, <2>6, <2>8
<1> QED
  BY <1>5, <1>6, <1>7

LEMMA UpdatesStep ==
    ASSUME TypeOK, UpdatesInv, [Next]_vars
    PROVE  UpdatesInv'
<1> USE DEF cliVars, hubVars, satVars, servVars
<1>0. AsksFromOwn'
  <2>1. CASE UNCHANGED vars
    BY <2>1 DEF vars, UpdatesInv, AsksFromOwn
  <2> QED
    BY <2>1, AsksStep DEF UpdatesInv
<1> SUFFICES Gapless' /\ Buffered'
  BY <1>0 DEF UpdatesInv
<1>1. ASSUME UNCHANGED <<down, remote, hubq, replica, replied, log>>,
             \/ UNCHANGED <<open, subbed, bufr>>
             \/ ~subbed' /\ bufr' = {}
      PROVE  Gapless' /\ Buffered'
  <2>1. Covered' = Covered
    BY <1>1 DEF Covered
  <2>2. Gapless'
    BY <1>1, <2>1 DEF UpdatesInv, Gapless, UpdatesComplete
  <2>3. Told' = Told /\ Rev' = Rev
    BY <1>1, <2>1 DEF Told, Rev
  <2>4. Buffered'
    BY <1>1, <2>3 DEF UpdatesInv, Buffered
  <2> QED
    BY <2>2, <2>4
<1>2. ASSUME Hangs, UNCHANGED <<remote, hubq, replica, replied, subbed, bufr>>
      PROVE  Gapless' /\ Buffered'
  <2>1. Covered' = Covered /\ down' = << >> /\ open' = FALSE
    BY <1>2 DEF Covered, Hangs
  <2>2. Complete(down', Covered' \cup Carried(remote') \cup Carried(hubq'))
    BY <2>1, CompleteEmpty
  <2>3. Gapless'
    BY <1>2, <2>1, <2>2 DEF UpdatesInv, Gapless, UpdatesComplete
  <2>4. Buffered'
    BY <1>2, <2>1 DEF UpdatesInv, Buffered
  <2> QED
    BY <2>3, <2>4
<1>3. CASE Dial
  BY <1>1, <1>3 DEF Dial
<1>4. CASE SignsOn \/ SignsOff
  <2>1. PICK m \in {Signon, Signoff} :
            /\ Announce(m)
            /\ UNCHANGED <<down, remote, replica, replied, log, open, subbed, bufr>>
    BY <1>4 DEF SignsOn, SignsOff
  <2>2. hubq' = Append(hubq, m) /\ hubq \in Seq(Routed) /\ m \in Routed
    BY <2>1, ChannelTypes DEF Announce, Routed
  <2>3. ~IsUpdate(m) /\ Brings(m) = {}
    <3>1. m = Signon \/ m = Signoff
      BY <2>1
    <3> QED
      BY <3>1, BringsFacts
  <2>4. Carried(hubq') = Carried(hubq)
    <3>1. Carried(Append(hubq, m)) = Carried(hubq) \cup Brings(m)
      BY <2>2, CarriedAppend
    <3> QED
      BY <2>2, <2>3, <3>1
  <2>5. Complete(Append(hubq, m), Covered \cup Carried(remote))
    BY <2>2, <2>3, CompleteAppend DEF UpdatesInv, Gapless
  <2>6. Covered' = Covered
    BY <2>1 DEF Covered
  <2>7. Gapless'
    BY <2>1, <2>2, <2>4, <2>5, <2>6 DEF UpdatesInv, Gapless, UpdatesComplete
  <2>8. Buffered'
    <3>1. Told' = Told /\ Rev' = Rev
      BY <2>1, <2>4, <2>6 DEF Told, Rev
    <3> QED
      BY <2>1, <3>1 DEF UpdatesInv, Buffered
  <2> QED
    BY <2>7, <2>8
<1>5. CASE ReadEnds
  BY <1>1, <1>2, <1>5 DEF ReadEnds
<1>6. CASE SendsNil \/ \E d \in 1..MaxDials : Writes(d)
  BY <1>1, <1>6 DEF SendsNil, Writes
<1>7. CASE \E d \in 1..MaxDials : WriterEnds(d)
  BY <1>1, <1>2, <1>7 DEF WriterEnds
<1>8. CASE Reads \/ Routes \/ handleRemote
  BY <1>8, UpdatesPass DEF UpdatesInv
<1>9. CASE Parts \/ HandlesLocal \/ Sends \/ \E q \in Requests : Asks(q)
  BY <1>1, <1>9 DEF Parts, HandlesLocal, Sends, Asks
<1>10. CASE Serves \/ Publishes \/ Broadcasts
  BY <1>10, UpdatesSent
<1>11. CASE UNCHANGED vars
  BY <1>1, <1>11 DEF vars
<1> QED
  BY <1>3, <1>4, <1>5, <1>6, <1>7, <1>8, <1>9, <1>10, <1>11 DEF Next

\* No event slips between a lost update, the revision a reconnecting satellite
\* asks from and its next update: the replica has what updates carried and the
\* server's answers did not, up to its revision.
THEOREM UpdatesLeaveNothingOut == Spec => []UpdatesComplete
<1>1. Init => UpdatesInv
  <2> SUFFICES ASSUME Init PROVE UpdatesInv
    OBVIOUS
  <2>1. /\ remote = << >> /\ hubq = << >> /\ down = << >> /\ todo = << >> /\ send = << >> /\ up = << >>
        /\ replica.rev = 0 /\ bufr = {} /\ open = FALSE
    BY DEF Init
  <2>2. \A e \in 1..0 : FALSE
    OBVIOUS
  <2>3. Gapless
    BY <2>1, <2>2, CompleteEmpty DEF Gapless, UpdatesComplete
  <2>4. AsksFromOwn
    BY <2>1, ToSetEmpty DEF AsksFromOwn
  <2> QED
    BY <2>1, <2>3, <2>4 DEF UpdatesInv, Buffered
<1>2. TypeOK /\ UpdatesInv /\ [Next]_vars => UpdatesInv'
  BY UpdatesStep
<1>3. UpdatesInv => UpdatesComplete
  BY DEF UpdatesInv, Gapless
<1> QED
  BY <1>1, <1>2, <1>3, SatelliteTypes, PTL DEF Spec

-----------------------------------------------------------------------------
(* Answers. *)

LEMMA Tellings ==
    /\ <<"null">> # << >> /\ <<"error">> # << >> /\ <<"null">> # <<"error">>
    /\ <<"null", "res">> # << >> /\ <<"null", "err">> # << >>
    /\ <<"null", "res">> # <<"null">> /\ <<"null", "err">> # <<"null">>
    /\ <<"null", "res">> # <<"error">> /\ <<"null", "err">> # <<"error">>
    /\ <<"null", "res">> # <<"null", "err">>
    /\ Append(<< >>, "null") = <<"null">> /\ Append(<< >>, "error") = <<"error">>
    /\ Append(<<"null">>, "res") = <<"null", "res">>
    /\ Append(<<"null">>, "err") = <<"null", "err">>
<1>1. Append(<< >>, "null") = <<"null">> /\ Append(<< >>, "error") = <<"error">>
  OBVIOUS
<1>2. \A x, y \in {"null", "res", "err"} : Append(<<x>>, y) = <<x, y>>
  <2> SUFFICES ASSUME NEW x \in {"null", "res", "err"}, NEW y \in {"null", "res", "err"}
               PROVE  Append(<<x>>, y) = <<x, y>>
    OBVIOUS
  <2> DEFINE S == {"null", "res", "err"}
  <2>1. << >> \in Seq(S) /\ x \in S /\ y \in S /\ <<x>> \in Seq(S) /\ <<x, y>> \in Seq(S)
    BY EmptySeq
  <2> HIDE DEF S
  <2>2. /\ << >> \o <<x>> = Append(<< >>, x)
        /\ << >> \o <<x, y>> = Append(Append(<< >>, x), y)
    BY <2>1, AppendTwo
  <2>3. << >> \o <<x>> = <<x>> /\ << >> \o <<x, y>> = <<x, y>>
    BY <2>1, ConcatEmptySeq
  <2> QED
    BY <2>2, <2>3
<1>3. /\ <<"null">> # << >> /\ <<"error">> # << >> /\ <<"null">> # <<"error">>
      /\ <<"null", "res">> # << >> /\ <<"null", "err">> # << >>
      /\ <<"null", "res">> # <<"null">> /\ <<"null", "err">> # <<"null">>
      /\ <<"null", "res">> # <<"error">> /\ <<"null", "err">> # <<"error">>
      /\ <<"null", "res">> # <<"null", "err">>
  OBVIOUS
<1> QED
  BY <1>1, <1>2, <1>3

LEMMA PutOnce ==
    ASSUME NEW S, NEW s \in Seq(S), NEW m \in S, NEW e, Once(s, e), m = e => e \notin ToSet(s)
    PROVE  Once(Append(s, m), e) /\ ToSet(Append(s, m)) = ToSet(s) \cup {m}
  BY OnceAppend, ToSetAppend

LEMMA TakenOnce ==
    ASSUME NEW S, NEW s \in Seq(S), s # << >>, NEW e, Once(s, e)
    PROVE  /\ Once(Tail(s), e) /\ ToSet(s) = {Head(s)} \cup ToSet(Tail(s))
           /\ Head(s) = e => e \notin ToSet(Tail(s))
  BY OnceTail, ToSetTail

LEMMA PutOnceIn ==
    ASSUME NEW S, NEW s \in Seq(S), NEW m \in S, NEW F, OnceIn(s, F),
           m \in F => ToSet(s) \cap F = {}
    PROVE  OnceIn(Append(s, m), F) /\ ToSet(Append(s, m)) = ToSet(s) \cup {m}
  BY OnceInAppend, ToSetAppend

LEMMA TakenOnceIn ==
    ASSUME NEW S, NEW s \in Seq(S), s # << >>, NEW F, OnceIn(s, F)
    PROVE  /\ OnceIn(Tail(s), F) /\ ToSet(s) = {Head(s)} \cup ToSet(Tail(s))
           /\ Head(s) \in F => ToSet(Tail(s)) \cap F = {}
  BY OnceInTail, ToSetTail

\* Only the server's answers to q answer it.
LEMMA AnswersToFacts ==
    ASSUME NEW q \in Requests
    PROVE  /\ AnswersTo(q) = {PubAnswer(q, "res"), PubAnswer(q, "err")}
           /\ AnswersTo(q) \subseteq Downs
           /\ PubAnswer(q, "res") # PubAnswer(q, "err")
           /\ Signon \notin AnswersTo(q) /\ Signoff \notin AnswersTo(q)
           /\ SatAnswer \notin AnswersTo(q) /\ \A r, e : Update(r, e) \notin AnswersTo(q)
           /\ \A m \in Routed : m \in AnswersTo(q) <=> m.subj = "evt.pub" /\ m.req = q
           /\ \A x \in Requests \ {q}, res \in {"res", "err"} : PubAnswer(x, res) \notin AnswersTo(q)
<1>1. AnswersTo(q) = {PubAnswer(q, "res"), PubAnswer(q, "err")}
  BY DEF AnswersTo
<1>2. \A m \in AnswersTo(q) : m.subj = "evt.pub" /\ m.req = q
  BY <1>1, Subjects
<1>3. AnswersTo(q) \subseteq Downs /\ PubAnswer(q, "res") # PubAnswer(q, "err")
  BY <1>1, DownShapes, Subjects
<1>4. \A m \in Routed : m.subj = "evt.pub" /\ m.req = q => m \in AnswersTo(q)
  <2>1. \A m \in Routed : m \in Downs \/ m = Signon \/ m = Signoff
    BY DEF Routed
  <2> QED
    BY <1>1, <2>1, DownShapes, Subjects
<1>5. /\ Signon \notin AnswersTo(q) /\ Signoff \notin AnswersTo(q)
      /\ SatAnswer \notin AnswersTo(q) /\ \A r, e : Update(r, e) \notin AnswersTo(q)
  BY <1>2, Subjects
<1>6. \A x \in Requests \ {q}, res \in {"res", "err"} : PubAnswer(x, res) \notin AnswersTo(q)
  BY <1>2, Subjects
<1> QED
  BY <1>1, <1>2, <1>3, <1>4, <1>5, <1>6

\* A request or an answer that only moves, or is lost, tells nothing new.
LEMMA Moves ==
    ASSUME NEW q \in Requests, AnswersInv(q), UNCHANGED <<toks, answers, log>>,
           InOnePlace(q)', AnsweredOnce(q)', Forwarded(q)' => Forwarded(q),
           Answered(q)' => Answered(q), Pub(q) \in ToSet(input') => answers[q] = << >>
    PROVE  AnswersInv(q)'
<1>1. Once(log, q)' /\ answers'[q] = answers[q]
  BY DEF AnswersInv
<1>2. /\ answers'[q] \in {<< >>, <<"error">>, <<"null">>, <<"null", "res">>, <<"null", "err">>}
      /\ q \in toks' \/ Forwarded(q)' \/ Answered(q)' => answers'[q] = <<"null">>
      /\ Forwarded(q)' => q \notin ToSet(log') /\ ~Answered(q)'
      /\ q \in ToSet(log') => answers'[q] \in {<<"null">>, <<"null", "res">>}
      /\ answers'[q] = <<"null", "res">> => q \in ToSet(log')
  BY DEF AnswersInv
<1> QED
  BY <1>1, <1>2 DEF AnswersInv

LEMMA WayTypes ==
    ASSUME TypeOK
    PROVE  /\ input \in Seq({Pub(q) : q \in Requests} \cup {Stat})
           /\ todo \in Seq(Ups \cup {Stat}) /\ send \in Seq(Ups \cup {Nil}) /\ up \in Seq(Ups)
           /\ answers \in [Requests -> Seq({"null", "error", "res", "err"})]
           /\ \A q \in Requests : Pub(q) # Nil /\ Pub(q) # Stat
           /\ \A q \in Requests : \A r : Pub(q) # Sat(r)
           /\ \A q, x \in Requests : Pub(q) = Pub(x) => q = x
<1>1. /\ input \in Seq({Pub(q) : q \in Requests} \cup {Stat})
      /\ todo \in Seq(Ups \cup {Stat}) /\ send \in Seq(Ups \cup {Nil}) /\ up \in Seq(Ups)
      /\ answers \in [Requests -> Seq({"null", "error", "res", "err"})]
  BY DEF TypeOK
<1>2. /\ \A q \in Requests : Pub(q) # Nil /\ Pub(q) # Stat
      /\ \A q \in Requests : \A r : Pub(q) # Sat(r)
  BY Subjects
<1>3. \A q, x \in Requests : Pub(q) = Pub(x) => q = x
  BY Subjects
<1> QED
  BY <1>1, <1>2, <1>3

\* What ends a connection.
LEMMA HangsMoves ==
    ASSUME TypeOK, NEW q \in Requests, AnswersInv(q),
           Hangs \/ UNCHANGED <<up, down>>, UNCHANGED <<hubq, remote, log>>
    PROVE  /\ AnsweredOnce(q)' /\ (Answered(q)' => Answered(q))
           /\ Once(up', Pub(q)) /\ ToSet(up') \subseteq ToSet(up)
<1>1. CASE Hangs
  <2>1. /\ down' = << >> /\ ToSet(up') \subseteq ToSet(up) /\ Once(up', Pub(q))
    BY <1>1, HangsFacts DEF AnswersInv, InOnePlace
  <2>2. ToSet(down') = {} /\ OnceIn(down', AnswersTo(q))
    BY <2>1, ToSetEmpty, EmptySeq DEF OnceIn
  <2>3. AnsweredOnce(q)'
    BY <2>2 DEF AnswersInv, AnsweredOnce, AnswersTo
  <2>4. Answered(q)' => Answered(q)
    BY <2>2 DEF Answered, AnswersTo
  <2> QED
    BY <2>1, <2>3, <2>4
<1>2. CASE UNCHANGED <<up, down>>
  BY <1>2 DEF AnswersInv, AnsweredOnce, InOnePlace, Answered, AnswersTo
<1> QED
  BY <1>1, <1>2

\* The client's side.
LEMMA ClientAnswers ==
    ASSUME TypeOK, NEW q \in Requests, AnswersInv(q),
           \/ Dial \/ SignsOn \/ Reads \/ ReadEnds \/ SendsNil \/ SignsOff \/ Parts \/ Routes
           \/ \E d \in 1..MaxDials : Writes(d) \/ WriterEnds(d)
    PROVE  AnswersInv(q)'
<1> USE DEF cliVars, hubVars, satVars, servVars
<1>0. /\ UNCHANGED <<toks, answers, log, input, todo>>
      /\ Pub(q) \in ToSet(input) => answers[q] = << >>
  BY DEF Dial, SignsOn, Reads, ReadEnds, SendsNil, SignsOff, Parts, Routes, Writes, WriterEnds,
         AnswersInv
<1> SUFFICES /\ InOnePlace(q)' /\ AnsweredOnce(q)'
             /\ (Forwarded(q)' => Forwarded(q)) /\ (Answered(q)' => Answered(q))
  BY <1>0, Moves
<1>1. InOnePlace(q) /\ AnsweredOnce(q)
  BY DEF AnswersInv
<1>2. ASSUME UNCHANGED <<send, up>> PROVE InOnePlace(q)' /\ (Forwarded(q)' => Forwarded(q))
  BY <1>0, <1>1, <1>2 DEF InOnePlace, Forwarded
<1>3. ASSUME UNCHANGED <<down, hubq, remote>>
      PROVE  AnsweredOnce(q)' /\ (Answered(q)' => Answered(q))
  BY <1>0, <1>1, <1>3 DEF AnsweredOnce, Answered, AnswersTo
<1>4. /\ remote \in Seq(Routed) /\ hubq \in Seq(Routed) /\ down \in Seq(Routed)
      /\ Signon \in Routed /\ Signoff \in Routed
  BY ChannelTypes DEF Routed
<1>5. CASE Dial
  BY <1>2, <1>3, <1>5 DEF Dial
<1>6. CASE SignsOn \/ SignsOff
  <2>1. PICK m \in {Signon, Signoff} :
            hubq' = Append(hubq, m) /\ UNCHANGED <<down, remote, send, up>>
    BY <1>6 DEF SignsOn, SignsOff, Announce
  <2>2. m \in Routed /\ m \notin AnswersTo(q)
    BY <1>4, AnswersToFacts
  <2>3. OnceIn(hubq', AnswersTo(q)) /\ ToSet(hubq') = ToSet(hubq) \cup {m}
    BY <1>1, <1>4, <2>1, <2>2, PutOnceIn DEF AnsweredOnce
  <2>4. m # PubAnswer(q, "res") /\ m # PubAnswer(q, "err")
    BY <2>2, AnswersToFacts
  <2>5. AnsweredOnce(q)' /\ (Answered(q)' => Answered(q))
    BY <1>0, <1>1, <2>1, <2>3, <2>4 DEF AnsweredOnce, Answered, AnswersTo
  <2> QED
    BY <1>2, <2>1, <2>5
<1>7. CASE Reads
  <2> DEFINE m == Head(down)
  <2>1. /\ down # << >> /\ hubq' = Append(hubq, m) /\ down' = Tail(down)
        /\ UNCHANGED <<remote, send, up>>
    BY <1>7 DEF Reads, Announce
  <2>2. /\ OnceIn(down', AnswersTo(q)) /\ ToSet(down) = {m} \cup ToSet(down')
        /\ m \in AnswersTo(q) => ToSet(down') \cap AnswersTo(q) = {}
    BY <1>1, <1>4, <2>1, TakenOnceIn DEF AnsweredOnce
  <2>3. m \in Routed
    BY <1>4, <2>1, HeadTailProperties
  <2> HIDE DEF m
  <2>4. m \in AnswersTo(q) => ToSet(hubq) \cap AnswersTo(q) = {} /\ ToSet(remote) \cap AnswersTo(q) = {}
    BY <1>1, <2>2 DEF AnsweredOnce
  <2>5. OnceIn(hubq', AnswersTo(q)) /\ ToSet(hubq') = ToSet(hubq) \cup {m}
    BY <1>1, <1>4, <2>1, <2>3, <2>4, PutOnceIn DEF AnsweredOnce
  <2>6. AnsweredOnce(q)' /\ (Answered(q)' => Answered(q))
    BY <1>0, <1>1, <2>1, <2>2, <2>4, <2>5 DEF AnsweredOnce, Answered, AnswersTo
  <2> QED
    BY <1>2, <2>1, <2>6
<1>8. CASE Routes
  <2> DEFINE m == Head(hubq)
  <2>1. /\ hubq # << >> /\ remote' = Append(remote, m) /\ hubq' = Tail(hubq)
        /\ UNCHANGED <<down, send, up>>
    BY <1>8 DEF Routes
  <2>2. /\ OnceIn(hubq', AnswersTo(q)) /\ ToSet(hubq) = {m} \cup ToSet(hubq')
        /\ m \in AnswersTo(q) => ToSet(hubq') \cap AnswersTo(q) = {}
    BY <1>1, <1>4, <2>1, TakenOnceIn DEF AnsweredOnce
  <2>3. m \in Routed
    BY <1>4, <2>1, HeadTailProperties
  <2> HIDE DEF m
  <2>4. m \in AnswersTo(q) => ToSet(remote) \cap AnswersTo(q) = {}
    BY <1>1, <2>2 DEF AnsweredOnce
  <2>5. OnceIn(remote', AnswersTo(q)) /\ ToSet(remote') = ToSet(remote) \cup {m}
    BY <1>1, <1>4, <2>1, <2>3, <2>4, PutOnceIn DEF AnsweredOnce
  <2>6. AnsweredOnce(q)' /\ (Answered(q)' => Answered(q))
    BY <1>0, <1>1, <2>1, <2>2, <2>4, <2>5 DEF AnsweredOnce, Answered, AnswersTo
  <2> QED
    BY <1>2, <2>1, <2>6
<1>9. ASSUME Chan(Nil), UNCHANGED up PROVE InOnePlace(q)' /\ (Forwarded(q)' => Forwarded(q))
  <2> DEFINE S == Ups \cup {Nil}
  <2>1. send \in Seq(S) /\ Nil \in S /\ Pub(q) # Nil
    BY WayTypes
  <2>2. send' = Append(send, Nil) /\ Once(send, Pub(q))
    BY <1>1, <1>9 DEF Chan, InOnePlace
  <2> HIDE DEF S
  <2>3. Once(send', Pub(q)) /\ ToSet(send') = ToSet(send) \cup {Nil}
    BY <2>1, <2>2, PutOnce
  <2> QED
    BY <1>0, <1>1, <1>9, <2>1, <2>3 DEF InOnePlace, Forwarded
<1>10. CASE SendsNil \/ Parts
  BY <1>3, <1>9, <1>10 DEF SendsNil, Parts
<1>11. ASSUME send # << >>, send' = Tail(send)
       PROVE  /\ Once(send', Pub(q)) /\ ToSet(send) = {Head(send)} \cup ToSet(send')
              /\ Head(send) = Pub(q) => Pub(q) \notin ToSet(send')
  <2> DEFINE S == Ups \cup {Nil}
  <2>1. send \in Seq(S) /\ Once(send, Pub(q))
    BY <1>1, WayTypes DEF InOnePlace
  <2> HIDE DEF S
  <2> QED
    BY <1>11, <2>1, TakenOnce
<1>12. CASE ReadEnds
  <2>1. /\ Hangs \/ UNCHANGED <<up, down>>
        /\ UNCHANGED <<hubq, remote, send>>
    BY <1>12 DEF ReadEnds
  <2>2. /\ AnsweredOnce(q)' /\ (Answered(q)' => Answered(q))
        /\ Once(up', Pub(q)) /\ ToSet(up') \subseteq ToSet(up)
    BY <1>0, <2>1, HangsMoves
  <2>3. InOnePlace(q)' /\ (Forwarded(q)' => Forwarded(q))
    BY <1>0, <1>1, <2>1, <2>2 DEF InOnePlace, Forwarded
  <2> QED
    BY <2>2, <2>3
<1>13. ASSUME NEW d \in 1..MaxDials, WriterEnds(d)
       PROVE  /\ InOnePlace(q)' /\ AnsweredOnce(q)'
              /\ (Forwarded(q)' => Forwarded(q)) /\ (Answered(q)' => Answered(q))
  <2>1. /\ Hangs \/ UNCHANGED <<up, down>>
        /\ UNCHANGED <<hubq, remote>>
        /\ (send # << >> /\ send' = Tail(send)) \/ send' = send
    BY <1>13 DEF WriterEnds
  <2>2. /\ AnsweredOnce(q)' /\ (Answered(q)' => Answered(q))
        /\ Once(up', Pub(q)) /\ ToSet(up') \subseteq ToSet(up)
    BY <1>0, <2>1, HangsMoves
  <2>3. Once(send', Pub(q)) /\ ToSet(send') \subseteq ToSet(send)
    BY <1>1, <1>11, <2>1 DEF InOnePlace
  <2>4. InOnePlace(q)' /\ (Forwarded(q)' => Forwarded(q))
    BY <1>0, <1>1, <2>2, <2>3 DEF InOnePlace, Forwarded
  <2> QED
    BY <2>2, <2>4
<1>14. ASSUME NEW d \in 1..MaxDials, Writes(d)
       PROVE  /\ InOnePlace(q)' /\ AnsweredOnce(q)'
              /\ (Forwarded(q)' => Forwarded(q)) /\ (Answered(q)' => Answered(q))
  <2> DEFINE m == Head(send)
  <2>1. /\ send # << >> /\ m # Nil /\ send' = Tail(send) /\ UNCHANGED <<down, hubq, remote>>
        /\ up' = Append(up, m) \/ up' = up
    BY <1>14 DEF Writes
  <2>2. m \in Ups /\ up \in Seq(Ups)
    BY <2>1, SendFacts, WayTypes
  <2>3. /\ Once(send', Pub(q)) /\ ToSet(send) = {m} \cup ToSet(send')
        /\ m = Pub(q) => Pub(q) \notin ToSet(send')
    BY <1>11, <2>1
  <2> HIDE DEF m
  <2>4. m = Pub(q) => Pub(q) \notin ToSet(up) /\ Pub(q) \notin ToSet(todo)
    BY <1>1, <2>3 DEF InOnePlace
  <2>5. Once(up', Pub(q)) /\ ToSet(up') \subseteq ToSet(up) \cup {m}
    <3>1. Once(up, Pub(q))
      BY <1>1 DEF InOnePlace
    <3>2. Once(Append(up, m), Pub(q)) /\ ToSet(Append(up, m)) = ToSet(up) \cup {m}
      BY <2>2, <2>4, <3>1, PutOnce
    <3> QED
      BY <2>1, <3>1, <3>2
  <2>6. InOnePlace(q)' /\ (Forwarded(q)' => Forwarded(q))
    BY <1>0, <1>1, <2>3, <2>4, <2>5 DEF InOnePlace, Forwarded
  <2> QED
    BY <1>3, <2>1, <2>6
<1> QED
  BY <1>5, <1>6, <1>7, <1>8, <1>10, <1>12, <1>13, <1>14

\* The satellite's side.
LEMMA LocalAnswers ==
    ASSUME TypeOK, NEW q \in Requests, AnswersInv(q),
           \/ HandlesLocal \/ handleRemote \/ Sends
           \/ \E x \in Requests : Asks(x)
    PROVE  AnswersInv(q)'
<1> USE DEF cliVars, hubVars, satVars, servVars
<1>0. UNCHANGED <<up, down, hubq, log>>
  BY DEF HandlesLocal, handleRemote, Sends, Asks
<1>1. InOnePlace(q) /\ AnsweredOnce(q)
  BY DEF AnswersInv
<1>2. ASSUME UNCHANGED remote
      PROVE  AnsweredOnce(q)' /\ (Answered(q)' <=> Answered(q))
  BY <1>0, <1>1, <1>2 DEF AnsweredOnce, Answered, AnswersTo
<1>3. ASSUME UNCHANGED send, Once(todo', Pub(q)), ToSet(todo') \subseteq ToSet(todo),
             Once(input', Pub(q))
      PROVE  InOnePlace(q)' /\ (Forwarded(q)' => Forwarded(q))
  BY <1>0, <1>1, <1>3 DEF InOnePlace, Forwarded
<1>4. /\ Pub(q) \in ToSet(input) => answers[q] = << >>
      /\ q \in toks \/ Forwarded(q) \/ Answered(q) => answers[q] = <<"null">>
      /\ q \in ToSet(log) => answers[q] \in {<<"null">>, <<"null", "res">>}
      /\ Forwarded(q) => q \notin ToSet(log) /\ ~Answered(q)
      /\ answers[q] = <<"null", "res">> => q \in ToSet(log)
      /\ Once(log, q)
      /\ answers[q] \in {<< >>, <<"error">>, <<"null">>, <<"null", "res">>, <<"null", "err">>}
  BY DEF AnswersInv
<1> DEFINE P == {Pub(x) : x \in Requests} \cup {Stat}
           T == Ups \cup {Stat}
<1>5. /\ input \in Seq(P) /\ Stat \in P /\ \A x \in Requests : Pub(x) \in P
      /\ Pub(q) # Stat /\ todo \in Seq(T)
  BY WayTypes
<1>6. \A m \in P : m = Stat \/ \E x \in Requests : m = Pub(x)
  OBVIOUS
<1> HIDE DEF P, T
<1>7. ASSUME NEW x \in Requests, Asks(x) PROVE AnswersInv(q)'
  <2>1. /\ answers[x] = << >> /\ Pub(x) \notin ToSet(input) /\ input' = Append(input, Pub(x))
        /\ UNCHANGED <<send, remote, todo, toks, answers>>
    BY <1>7 DEF Asks
  <2>2. Pub(x) = Pub(q) => x = q
    BY WayTypes
  <2>3. Once(input, Pub(q)) /\ Once(todo, Pub(q))
    BY <1>1 DEF InOnePlace
  <2>4. Once(input', Pub(q)) /\ ToSet(input') = ToSet(input) \cup {Pub(x)}
    BY <1>5, <2>1, <2>3, PutOnce
  <2>5. InOnePlace(q)' /\ (Forwarded(q)' => Forwarded(q))
    BY <1>3, <2>1, <2>3, <2>4
  <2>6. Pub(q) \in ToSet(input') => answers[q] = << >>
    BY <1>4, <2>1, <2>2, <2>4
  <2> QED
    BY <1>0, <1>2, <2>1, <2>5, <2>6, Moves
<1>8. CASE Sends
  <2> DEFINE m == Head(todo)
  <2>1. /\ todo # << >> /\ todo' = Tail(todo) /\ UNCHANGED <<remote, toks, answers>>
        /\ IF m = Stat THEN input' = Append(input, Stat) /\ UNCHANGED send
           ELSE Chan(m) /\ UNCHANGED input
    BY <1>8 DEF Sends
  <2>2. Once(input, Pub(q)) /\ Once(todo, Pub(q)) /\ Once(send, Pub(q))
    BY <1>1 DEF InOnePlace
  <2>3. /\ Once(todo', Pub(q)) /\ ToSet(todo) = {m} \cup ToSet(todo')
        /\ m = Pub(q) => Pub(q) \notin ToSet(todo')
    BY <1>5, <2>1, <2>2, TakenOnce
  <2>4. m \in T
    BY <1>5, <2>1, HeadTailProperties
  <2> HIDE DEF m
  <2>5. CASE m = Stat
    <3>1. Once(input', Pub(q)) /\ ToSet(input') = ToSet(input) \cup {Stat}
      <4>1. /\ input' = Append(input, Stat) /\ input \in Seq(P) /\ Stat \in P
            /\ Once(input, Pub(q)) /\ Stat # Pub(q)
        BY <1>5, <2>1, <2>2, <2>5
      <4> QED
        BY <4>1, PutOnce
    <3>2. InOnePlace(q)' /\ (Forwarded(q)' => Forwarded(q))
      BY <1>3, <2>1, <2>3, <2>5, <3>1
    <3>3. Pub(q) \in ToSet(input') => answers[q] = << >>
      BY <1>4, <1>5, <3>1
    <3> QED
      BY <1>0, <1>2, <2>1, <3>2, <3>3, Moves
  <2>6. CASE m # Stat
    <3> DEFINE S == Ups \cup {Nil}
    <3>1. send \in Seq(S) /\ m \in S
      BY <2>4, <2>6, WayTypes DEF T
    <3>2. m = Pub(q) => Pub(q) \notin ToSet(send) /\ Pub(q) \notin ToSet(up)
      BY <1>1, <2>3 DEF InOnePlace
    <3>3. send' = Append(send, m) /\ input' = input
      BY <2>1, <2>6 DEF Chan
    <3> HIDE DEF S
    <3>4. Once(send', Pub(q)) /\ ToSet(send') = ToSet(send) \cup {m}
      BY <2>2, <3>1, <3>2, <3>3, PutOnce
    <3>5. InOnePlace(q)' /\ (Forwarded(q)' => Forwarded(q))
      BY <1>0, <1>1, <2>3, <3>2, <3>3, <3>4 DEF InOnePlace, Forwarded
    <3> QED
      BY <1>0, <1>2, <1>4, <2>1, <3>3, <3>5, Moves
  <2> QED
    BY <2>5, <2>6
<1>9. CASE HandlesLocal
  <2> DEFINE m == Head(input)
  <2>1. /\ todo = << >> /\ input # << >> /\ input' = Tail(input)
        /\ UNCHANGED <<send, remote>>
        /\ IF m = Stat THEN UNCHANGED <<toks, todo, answers>> ELSE pub(m.req)
    BY <1>9 DEF HandlesLocal
  <2>2. Once(input, Pub(q)) /\ Once(todo, Pub(q)) /\ ToSet(todo) = {}
    BY <1>1, <2>1, ToSetEmpty DEF InOnePlace
  <2>3. /\ Once(input', Pub(q)) /\ ToSet(input) = {m} \cup ToSet(input')
        /\ m = Pub(q) => Pub(q) \notin ToSet(input')
    BY <1>5, <2>1, <2>2, TakenOnce
  <2>4. m \in P
    BY <1>5, <2>1, HeadTailProperties
  <2> HIDE DEF m
  <2>5. CASE m = Stat
    <3>1. InOnePlace(q)' /\ (Forwarded(q)' => Forwarded(q))
      BY <1>3, <2>1, <2>2, <2>3, <2>5
    <3> QED
      BY <1>0, <1>2, <1>4, <2>1, <2>3, <2>5, <3>1, Moves
  <2>6. CASE m # Stat
    <3>1. PICK x \in Requests : m = Pub(x)
      BY <1>6, <2>4, <2>6
    <3>2. m.req = x /\ (Pub(x) = Pub(q) => x = q)
      BY <3>1, Subjects, WayTypes
    <3>3. pub(x)
      BY <2>1, <2>6, <3>2
    <3>4. \A r : [answers EXCEPT ![x] = Append(@, r)][q] = IF q = x THEN Append(answers[q], r) ELSE answers[q]
      BY WayTypes
    <3>5. \/ /\ UNCHANGED <<toks, todo>>
             /\ answers'[q] = IF q = x THEN Append(answers[q], "error") ELSE answers[q]
          \/ /\ toks' = toks \cup {x} /\ todo' = <<Pub(x)>>
             /\ answers'[q] = IF q = x THEN Append(answers[q], "null") ELSE answers[q]
      BY <3>3, <3>4 DEF pub
    <3>6. ToSet(<<Pub(x)>>) = {Pub(x)} /\ \A e : Once(<<Pub(x)>>, e)
      BY DEF ToSet, Once
    <3>7. AnsweredOnce(q)' /\ (Answered(q)' <=> Answered(q))
      BY <1>2, <2>1
    <3>8. CASE x # q
      <4>1. Once(todo', Pub(q)) /\ Pub(q) \notin ToSet(todo')
        BY <2>2, <3>2, <3>5, <3>6, <3>8
      <4>2. InOnePlace(q)' /\ (Forwarded(q)' => Forwarded(q))
        BY <1>0, <1>1, <2>1, <2>3, <4>1 DEF InOnePlace, Forwarded
      <4>3. answers'[q] = answers[q] /\ (q \in toks' => q \in toks)
        BY <3>5, <3>8
      <4>4. Pub(q) \in ToSet(input') => answers'[q] = << >>
        BY <1>4, <2>3, <4>3
      <4>5. /\ q \in toks' \/ Forwarded(q)' \/ Answered(q)' => answers'[q] = <<"null">>
            /\ Forwarded(q)' => q \notin ToSet(log') /\ ~Answered(q)'
        BY <1>0, <1>4, <3>7, <4>2, <4>3
      <4> QED
        BY <1>0, <1>4, <3>7, <4>2, <4>3, <4>4, <4>5 DEF AnswersInv
    <3>9. CASE x = q
      <4>1. answers[q] = << >> /\ Pub(q) \notin ToSet(input')
        BY <1>4, <2>3, <3>1, <3>9
      <4>2. q \notin toks /\ ~Forwarded(q) /\ ~Answered(q) /\ q \notin ToSet(log)
        BY <1>4, <4>1, Tellings
      <4>3. Pub(q) \notin ToSet(send) \cup ToSet(up)
        BY <4>2 DEF Forwarded
      <4>4. CASE UNCHANGED <<toks, todo>> /\ answers'[q] = Append(answers[q], "error")
        <5>1. answers'[q] = <<"error">>
          BY <4>1, <4>4, Tellings
        <5>2. InOnePlace(q)' /\ ~Forwarded(q)'
          BY <1>0, <1>1, <2>1, <2>3, <4>2, <4>4 DEF InOnePlace, Forwarded
        <5>3. answers'[q] # <<"null", "res">>
          BY <5>1, Tellings
        <5> QED
          BY <1>0, <1>4, <3>7, <4>1, <4>2, <4>4, <5>1, <5>2, <5>3 DEF AnswersInv
      <4>5. CASE todo' = <<Pub(x)>> /\ answers'[q] = Append(answers[q], "null")
        <5>1. answers'[q] = <<"null">>
          BY <4>1, <4>5, Tellings
        <5>2. InOnePlace(q)'
          BY <1>0, <1>1, <2>1, <2>3, <3>6, <4>3, <4>5 DEF InOnePlace
        <5>3. answers'[q] # <<"null", "res">>
          BY <5>1, Tellings
        <5> QED
          BY <1>0, <1>4, <3>7, <4>1, <4>2, <5>1, <5>2, <5>3 DEF AnswersInv
      <4> QED
        BY <3>5, <3>9, <4>4, <4>5
    <3> QED
      BY <3>8, <3>9
  <2> QED
    BY <2>5, <2>6
<1>10. CASE handleRemote
  <2> DEFINE m == Head(remote)
  <2>1. /\ todo = << >> /\ remote # << >> /\ remote' = Tail(remote) /\ UNCHANGED <<send, input>>
        /\ \/ todo' = todo
           \/ todo' = <<Stat>>
           \/ todo' = <<Sat(replica.rev), Stat>>
        /\ \/ UNCHANGED <<toks, answers>>
           \/ m.subj = "evt.pub" /\ Respond(m.req, m.res)
    BY <1>10 DEF handleRemote
  <2>2. remote \in Seq(Routed) /\ OnceIn(remote, AnswersTo(q)) /\ Once(input, Pub(q))
    BY <1>1, ChannelTypes DEF AnsweredOnce, InOnePlace
  <2>3. /\ OnceIn(remote', AnswersTo(q)) /\ ToSet(remote) = {m} \cup ToSet(remote')
        /\ m \in AnswersTo(q) => ToSet(remote') \cap AnswersTo(q) = {}
    BY <2>1, <2>2, TakenOnceIn
  <2>4. m \in Routed
    BY <2>1, <2>2, HeadTailProperties
  <2> HIDE DEF m
  <2>5. Once(todo', Pub(q)) /\ Pub(q) \notin ToSet(todo')
    <3>1. Pub(q) # Stat /\ Pub(q) # Sat(replica.rev)
      BY WayTypes
    <3>2. \A i \in 1..Len(todo') : todo'[i] # Pub(q)
      BY <2>1, <3>1
    <3>3. DOMAIN todo' = 1..Len(todo')
      BY <2>1
    <3> QED
      BY <3>2, <3>3 DEF Once, ToSet
  <2>6. InOnePlace(q)' /\ (Forwarded(q)' => Forwarded(q))
    BY <1>0, <1>1, <2>1, <2>5 DEF InOnePlace, Forwarded
  <2>7. AnsweredOnce(q)' /\ (Answered(q)' => Answered(q))
    BY <1>0, <1>1, <2>3 DEF AnsweredOnce, Answered, AnswersTo
  <2>8. CASE UNCHANGED <<toks, answers>>
    BY <1>0, <1>4, <2>1, <2>6, <2>7, <2>8, Moves
  <2>9. CASE m.subj = "evt.pub" /\ Respond(m.req, m.res)
    <3>1. PICK x \in Requests, res \in {"res", "err"} : m = PubAnswer(x, res)
      <4>1. m.req \in Requests /\ m.res \in {"res", "err"} /\ m = PubAnswer(m.req, m.res)
        BY <2>4, <2>9, DownShapes, Subjects DEF Routed
      <4> QED
        BY <4>1
    <3>2. m.req = x /\ m.res = res /\ Respond(x, res)
      BY <2>9, <3>1, Subjects
    <3>3. \A r : [answers EXCEPT ![x] = Append(@, r)][q] = IF q = x THEN Append(answers[q], r) ELSE answers[q]
      BY WayTypes
    <3>4. CASE x \notin toks
      BY <1>0, <1>4, <2>1, <2>6, <2>7, <3>2, <3>4, Moves DEF Respond
    <3>5. CASE x \in toks
      <4>1. toks' = toks \ {x} /\ answers'[q] = IF q = x THEN Append(answers[q], res) ELSE answers[q]
        BY <3>2, <3>3, <3>5 DEF Respond
      <4>2. CASE x # q
        <5>1. answers'[q] = answers[q] /\ (q \in toks' => q \in toks)
          BY <4>1, <4>2
        <5>2. /\ q \in toks' \/ Forwarded(q)' \/ Answered(q)' => answers'[q] = <<"null">>
              /\ Forwarded(q)' => q \notin ToSet(log') /\ ~Answered(q)'
          BY <1>0, <1>4, <2>6, <2>7, <5>1
        <5> QED
          BY <1>0, <1>4, <2>1, <2>6, <2>7, <5>1, <5>2 DEF AnswersInv
      <4>3. CASE x = q
        <5>1. m \in AnswersTo(q) /\ m \in ToSet(remote)
          BY <2>3, <3>1, <4>3, AnswersToFacts
        <5>2. Answered(q) /\ ~Answered(q)'
          BY <1>0, <1>1, <2>3, <5>1 DEF Answered, AnsweredOnce, AnswersTo
        <5>3. ~Forwarded(q)' /\ q \notin toks' /\ answers[q] = <<"null">>
          BY <1>4, <2>6, <4>1, <4>3, <5>2
        <5>4. /\ res = "res" => q \in ToSet(log)
              /\ res = "err" => q \notin ToSet(log)
          BY <1>1, <3>1, <4>3, <5>1 DEF AnsweredOnce
        <5>5. answers'[q] = Append(<<"null">>, res)
          BY <4>1, <4>3, <5>3
        <5>6. CASE res = "res"
          BY <1>0, <1>4, <2>1, <2>6, <2>7, <5>2, <5>3, <5>4, <5>5, <5>6, Tellings DEF AnswersInv
        <5>7. CASE res = "err"
          BY <1>0, <1>4, <2>1, <2>6, <2>7, <5>2, <5>3, <5>4, <5>5, <5>7, Tellings DEF AnswersInv
        <5> QED
          BY <5>6, <5>7
      <4> QED
        BY <4>2, <4>3
    <3> QED
      BY <3>4, <3>5
  <2> QED
    BY <2>1, <2>8, <2>9
<1> QED
  BY <1>7, <1>8, <1>9, <1>10

\* The server's side: it answers a request it takes, and tells the satellite
\* whether the event is in its ledger.
LEMMA ServerAnswers ==
    ASSUME TypeOK, NEW q \in Requests, AnswersInv(q), Serves \/ Publishes \/ Broadcasts
    PROVE  AnswersInv(q)'
<1> USE DEF cliVars, hubVars, satVars, servVars
<1>0. UNCHANGED <<toks, answers, input, todo, send, hubq, remote>>
  BY DEF Serves, Publishes, Broadcasts
<1>1. InOnePlace(q) /\ AnsweredOnce(q)
  BY DEF AnswersInv
<1>2. /\ Pub(q) \in ToSet(input) => answers[q] = << >>
      /\ q \in toks \/ Forwarded(q) \/ Answered(q) => answers[q] = <<"null">>
      /\ q \in ToSet(log) => answers[q] \in {<<"null">>, <<"null", "res">>}
      /\ Forwarded(q) => q \notin ToSet(log) /\ ~Answered(q)
      /\ answers[q] = <<"null", "res">> => q \in ToSet(log)
      /\ Once(log, q)
      /\ answers[q] \in {<< >>, <<"error">>, <<"null">>, <<"null", "res">>, <<"null", "err">>}
  BY DEF AnswersInv
<1> DEFINE A == AnswersTo(q)
           L == Requests \cup {Other}
<1>3. down \in Seq(Downs) /\ log \in Seq(L) /\ q # Other
  BY ChannelTypes, Caps DEF TypeOK
<1> HIDE DEF L
<1>4. ASSUME NEW x \in L, log' = Append(log, x), x = q => q \notin ToSet(log)
      PROVE  Once(log', q) /\ ToSet(log') = ToSet(log) \cup {x}
  BY <1>2, <1>3, <1>4, PutOnce
\* The requester is told nothing yet.
<1>5. ASSUME Once(log', q), q \in ToSet(log') <=> q \in ToSet(log),
             OnceIn(down', A), ToSet(down') \cap A = ToSet(down) \cap A,
             InOnePlace(q)', Forwarded(q)' => Forwarded(q)
      PROVE  AnswersInv(q)'
  <2>1. /\ PubAnswer(q, "res") \in ToSet(down') <=> PubAnswer(q, "res") \in ToSet(down)
        /\ PubAnswer(q, "err") \in ToSet(down') <=> PubAnswer(q, "err") \in ToSet(down)
    BY <1>5, AnswersToFacts
  <2>2. AnsweredOnce(q)' /\ (Answered(q)' <=> Answered(q))
    BY <1>0, <1>1, <1>5, <2>1 DEF AnsweredOnce, Answered, AnswersTo
  <2>3. /\ q \in toks' \/ Forwarded(q)' \/ Answered(q)' => answers'[q] = <<"null">>
        /\ Forwarded(q)' => q \notin ToSet(log') /\ ~Answered(q)'
        /\ Pub(q) \in ToSet(input') => answers'[q] = << >>
    BY <1>0, <1>2, <1>5, <2>2
  <2> QED
    BY <1>0, <1>2, <1>5, <2>2, <2>3 DEF AnswersInv
\* What is not an answer to q goes unnoticed.
<1>6. ASSUME NEW s \in Seq(Downs), NEW m \in Downs, m \notin A, OnceIn(s, A)
      PROVE  /\ Append(s, m) \in Seq(Downs) /\ OnceIn(Append(s, m), A)
             /\ ToSet(Append(s, m)) \cap A = ToSet(s) \cap A
  <2>1. OnceIn(Append(s, m), A) /\ ToSet(Append(s, m)) = ToSet(s) \cup {m}
    <3> HIDE DEF A
    <3> QED
      BY <1>6, PutOnceIn
  <2> QED
    BY <1>6, <2>1, AppendProperties
<1>7. OnceIn(down, A)
  BY <1>1 DEF AnsweredOnce
<1>8. CASE Publishes
  <2>1. log' = Append(log, Other) /\ UNCHANGED <<up, down>>
    BY <1>8 DEF Publishes
  <2>2. Once(log', q) /\ ToSet(log') = ToSet(log) \cup {Other}
    BY <1>3, <1>4, <2>1 DEF L
  <2>3. InOnePlace(q)' /\ (Forwarded(q)' => Forwarded(q))
    BY <1>0, <1>1, <2>1 DEF InOnePlace, Forwarded
  <2> QED
    BY <1>3, <1>5, <1>7, <2>1, <2>2, <2>3
<1>9. CASE Broadcasts
  <2>1. down' = Append(down, Update(Rev, bufr)) /\ UNCHANGED <<up, log>>
    BY <1>9 DEF Broadcasts
  <2>2. Update(Rev, bufr) \in Downs
    BY RevType, UpdateBrings DEF TypeOK
  <2>3. OnceIn(down', A) /\ ToSet(down') \cap A = ToSet(down) \cap A
    BY <1>3, <1>6, <1>7, <2>1, <2>2, AnswersToFacts
  <2>4. InOnePlace(q)' /\ (Forwarded(q)' => Forwarded(q))
    BY <1>0, <1>1, <2>1 DEF InOnePlace, Forwarded
  <2> QED
    BY <1>2, <1>5, <2>1, <2>3, <2>4
<1>10. CASE Serves
  <2> DEFINE m == Head(up)
  <2>1. /\ up # << >> /\ up' = Tail(up)
        /\ IF m.subj = "evt.sat" THEN ServesSat(m.rev) ELSE ServesPub(m.req)
    BY <1>10 DEF Serves
  <2>2. up \in Seq(Ups) /\ Once(up, Pub(q))
    BY <1>1, WayTypes DEF InOnePlace
  <2>3. /\ Once(up', Pub(q)) /\ ToSet(up) = {m} \cup ToSet(up')
        /\ m = Pub(q) => Pub(q) \notin ToSet(up')
    BY <2>1, <2>2, TakenOnce
  <2>4. m \in Ups
    BY <2>1, <2>2, HeadTailProperties
  <2> HIDE DEF m
  <2>5. InOnePlace(q)' /\ (Forwarded(q)' => Forwarded(q))
    BY <1>0, <1>1, <2>3 DEF InOnePlace, Forwarded
  <2>6. CASE m.subj = "evt.sat"
    <3>1. Answers(<<SatAnswer>>) /\ UNCHANGED log
      BY <2>1, <2>6 DEF ServesSat
    <3>2. SatAnswer \in Downs /\ down \o <<SatAnswer>> = Append(down, SatAnswer)
      BY <1>3, DownShapes, AppendTwo
    <3>3. OnceIn(down', A) /\ ToSet(down') \cap A = ToSet(down) \cap A
      <4>1. down' = Append(down, SatAnswer) \/ down' = down
        BY <3>1, <3>2 DEF Answers
      <4>2. SatAnswer \notin A
        BY AnswersToFacts
      <4> QED
        BY <1>3, <1>6, <1>7, <3>2, <4>1, <4>2
    <3> QED
      BY <1>2, <1>5, <2>5, <3>1, <3>3
  <2>7. CASE m.subj # "evt.sat"
    <3> DEFINE x == m.req
               u == Update(Rev, bufr)
    <3>1. x \in Requests /\ m = Pub(x) /\ ServesPub(x)
      BY <2>1, <2>4, <2>7, UpShapes
    <3>2. u \in Downs /\ u \notin A
      BY RevType, UpdateBrings, AnswersToFacts DEF TypeOK
    <3> HIDE DEF u, x
    <3>3. \A res \in {"res", "err"} : PubAnswer(x, res) \in Downs
      BY <3>1, DownShapes
    <3>4. PICK s \in Seq(Downs), res \in {"res", "err"} :
              /\ OnceIn(s, A) /\ ToSet(s) \cap A = ToSet(down) \cap A
              /\ down' = IF open THEN Append(s, PubAnswer(x, res)) ELSE down
              /\ log' = IF res = "res" THEN Append(log, x) ELSE log
      <4>1. \/ Answers(<<PubAnswer(x, "err")>>) /\ log' = log
            \/ /\ log' = Append(log, x)
               /\ \/ Answers(<<PubAnswer(x, "res")>>)
                  \/ Answers(<<u, PubAnswer(x, "res")>>)
        BY <3>1 DEF ServesPub, u
      <4>2. \A res \in {"res", "err"} :
                down \o <<PubAnswer(x, res)>> = Append(down, PubAnswer(x, res))
        BY <1>3, <3>3, AppendTwo
      <4>3. down \o <<u, PubAnswer(x, "res")>> = Append(Append(down, u), PubAnswer(x, "res"))
        BY <1>3, <3>2, <3>3, AppendTwo
      <4>4. /\ Append(down, u) \in Seq(Downs) /\ OnceIn(Append(down, u), A)
            /\ ToSet(Append(down, u)) \cap A = ToSet(down) \cap A
        BY <1>3, <1>6, <1>7, <3>2
      <4>5. CASE Answers(<<PubAnswer(x, "err")>>) /\ log' = log
        BY <1>3, <1>7, <4>2, <4>5 DEF Answers
      <4>6. CASE log' = Append(log, x) /\ Answers(<<PubAnswer(x, "res")>>)
        BY <1>3, <1>7, <4>2, <4>6 DEF Answers
      <4>7. CASE log' = Append(log, x) /\ Answers(<<u, PubAnswer(x, "res")>>)
        BY <4>3, <4>4, <4>7 DEF Answers
      <4> QED
        BY <4>1, <4>5, <4>6, <4>7
    <3> DEFINE a == PubAnswer(x, res)
    <3>5. CASE x # q
      <4>1. a \in Downs /\ a \notin A
        BY <3>1, <3>3, <3>5, AnswersToFacts
      <4> HIDE DEF a
      <4>2. OnceIn(Append(s, a), A) /\ ToSet(Append(s, a)) \cap A = ToSet(s) \cap A
        BY <1>6, <3>4, <4>1
      <4>3. OnceIn(down', A) /\ ToSet(down') \cap A = ToSet(down) \cap A
        BY <1>7, <3>4, <4>2 DEF a
      <4>4. Once(log', q) /\ (q \in ToSet(log') <=> q \in ToSet(log))
        BY <1>2, <1>4, <3>1, <3>4, <3>5 DEF L
      <4> QED
        BY <1>5, <2>5, <4>3, <4>4
    <3>6. CASE x = q
      <4>1. /\ Forwarded(q) /\ q \notin ToSet(log) /\ ~Answered(q)
            /\ answers[q] = <<"null">> /\ Pub(q) \notin ToSet(input)
        BY <1>2, <2>3, <3>1, <3>6, Tellings DEF Forwarded
      <4>2. ~Forwarded(q)'
        BY <1>0, <1>1, <2>3, <3>1, <3>6 DEF Forwarded, InOnePlace
      <4>3. (ToSet(down) \cup ToSet(hubq) \cup ToSet(remote)) \cap A = {}
        BY <4>1 DEF Answered
      <4>4. Once(log', q) /\ (q \in ToSet(log') <=> res = "res")
        BY <1>2, <1>4, <3>1, <3>4, <3>6, <4>1 DEF L
      <4>5. /\ a \in Downs /\ a = PubAnswer(q, res)
            /\ a = PubAnswer(q, "res") <=> res = "res"
            /\ a = PubAnswer(q, "err") <=> res = "err"
        BY <3>1, <3>3, <3>6, AnswersToFacts
      <4> HIDE DEF a
      <4>6. ToSet(s) \cap A = {}
        BY <3>4, <4>3
      <4>7. OnceIn(Append(s, a), A) /\ ToSet(Append(s, a)) = ToSet(s) \cup {a}
        <5> HIDE DEF A
        <5> QED
          BY <3>4, <4>5, <4>6, PutOnceIn
      <4>8. OnceIn(down', A) /\ ToSet(down') \cap A \subseteq {a}
        BY <1>7, <3>4, <4>3, <4>6, <4>7 DEF a
      <4>9. AnsweredOnce(q)'
        <5>1. /\ PubAnswer(q, "res") \in ToSet(down') => res = "res"
              /\ PubAnswer(q, "err") \in ToSet(down') => res = "err"
          BY <4>5, <4>8, AnswersToFacts
        <5>2. (ToSet(hubq') \cup ToSet(remote')) \cap A = {}
          BY <1>0, <4>3
        <5>3. OnceIn(hubq', A) /\ OnceIn(remote', A)
          BY <1>0, <1>1 DEF AnsweredOnce
        <5>4. res = "err" => q \notin ToSet(log')
          BY <4>4
        <5>5. PubAnswer(q, "res") \in A /\ PubAnswer(q, "err") \in A
          BY AnswersToFacts
        <5> QED
          BY <4>4, <4>8, <5>1, <5>2, <5>3, <5>4, <5>5 DEF AnsweredOnce, AnswersTo
      <4> QED
        BY <1>0, <2>5, <4>1, <4>2, <4>4, <4>9, Tellings DEF AnswersInv
    <3> QED
      BY <3>5, <3>6
  <2> QED
    BY <2>6, <2>7
<1> QED
  BY <1>8, <1>9, <1>10

LEMMA AnswersStep ==
    ASSUME TypeOK, [Next]_vars, NEW q \in Requests, AnswersInv(q)
    PROVE  AnswersInv(q)'
<1>1. CASE UNCHANGED vars
  BY <1>1 DEF vars, cliVars, hubVars, satVars, servVars, AnswersInv, InOnePlace, AnsweredOnce,
              Forwarded, Answered, AnswersTo
<1>2. CASE Next
  BY <1>2, ClientAnswers, LocalAnswers, ServerAnswers DEF Next
<1> QED
  BY <1>1, <1>2

\* A local connection that asked to publish learns what became of it: it is
\* refused, or told null and then once whether its event is in the server's
\* ledger, where it is once at most, whatever is lost on the way.
THEOREM AnswersAreTrue == Spec => []AnswersTell
<1> DEFINE AllInv == \A q \in Requests : AnswersInv(q)
<1>1. Init => AllInv
  <2> SUFFICES ASSUME Init, NEW q \in Requests PROVE AnswersInv(q)
    OBVIOUS
  <2>1. /\ input = << >> /\ todo = << >> /\ send = << >> /\ up = << >> /\ down = << >>
        /\ hubq = << >> /\ remote = << >> /\ log = << >> /\ toks = {} /\ answers[q] = << >>
    BY DEF Init
  <2>2. ToSet(<< >>) = {} /\ (\A e : Once(<< >>, e)) /\ (\A F : OnceIn(<< >>, F))
    BY ToSetEmpty, EmptySeq DEF Once, OnceIn
  <2>3. InOnePlace(q) /\ AnsweredOnce(q) /\ ~Forwarded(q) /\ ~Answered(q)
    BY <2>1, <2>2 DEF InOnePlace, AnsweredOnce, Forwarded, Answered
  <2> QED
    BY <2>1, <2>2, <2>3, Tellings DEF AnswersInv
<1>2. TypeOK /\ AllInv /\ [Next]_vars => AllInv'
  BY AnswersStep
<1>3. TypeOK /\ AllInv => AnswersTell
  <2> SUFFICES ASSUME TypeOK, AllInv, NEW q \in Requests
               PROVE  /\ answers[q] \in {<< >>, <<"error">>, <<"null">>, <<"null", "res">>, <<"null", "err">>}
                      /\ Cardinality({e \in 1..Rev : log[e] = q}) <= 1
                      /\ q \in ToSet(log) => answers[q] \in {<<"null">>, <<"null", "res">>}
                      /\ answers[q] = <<"null", "res">> => q \in ToSet(log)
    BY DEF AnswersTell
  <2>1. AnswersInv(q)
    OBVIOUS
  <2>2. \A x, y \in {e \in 1..Rev : log[e] = q} : x = y
    BY <2>1 DEF AnswersInv, Once, Rev
  <2>3. Cardinality({e \in 1..Rev : log[e] = q}) <= 1
    BY <2>2, AtMostOne
  <2> QED
    BY <2>1, <2>3 DEF AnswersInv
<1> QED
  BY <1>1, <1>2, <1>3, SatelliteTypes, PTL DEF Spec
=============================================================================
