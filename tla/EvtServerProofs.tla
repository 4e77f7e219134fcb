--------------------------- MODULE EvtServerProofs ---------------------------
(***************************************************************************)
(* Proofs about the event server, for all connections, topics, keys,       *)
(* transactions, clocks and bounds: its state stays well typed, and no     *)
(* broadcast trigger is lost.                                              *)
(***************************************************************************)
EXTENDS EvtServer, SequenceTheorems, TLAPS

-----------------------------------------------------------------------------
(* The ledger. *)

\* NextRev gives a revision after the last one, whatever the clock reads.
LEMMA NextRevAfter ==
    ASSUME NEW last \in Nat, NEW rev \in Nat
    PROVE  NextRev(last, rev) \in Nat /\ NextRev(last, rev) > last
<1>1. Ms \in Nat /\ Ms > 0
  BY MsAssumption
<1>2. rev % Ms \in 0..(Ms - 1) /\ rev % Ms <= rev
  BY <1>1
<1> QED
  BY <1>1, <1>2 DEF NextRev

\* The revision of a well typed ledger is a number.
LEMMA RevNat == ASSUME NEW lg \in Seq(Events) PROVE Rev(lg) \in Nat
<1>1. CASE lg = << >>
  BY <1>1 DEF Rev
<1>2. CASE lg # << >>
  <2>1. Len(lg) \in 1..Len(lg)
    BY <1>2, EmptySeq, LenProperties
  <2>2. lg[Len(lg)] \in Events
    BY <2>1, ElementOfSeq
  <2> QED
    BY <1>2, <2>2 DEF Rev, Events
<1> QED
  BY <1>1, <1>2

LEMMA EventRevs ==
    ASSUME NEW lg \in Seq(Events)
    PROVE  \A e \in 1..Len(lg) : lg[e] \in Events /\ lg[e].rev \in Nat
<1> SUFFICES ASSUME NEW e \in 1..Len(lg)
             PROVE  lg[e] \in Events /\ lg[e].rev \in Nat
  OBVIOUS
<1>1. lg[e] \in Events
  BY ElementOfSeq
<1> QED
  BY <1>1 DEF Events

LEMMA InBounds ==
    \A n \in Nat : n <= MaxEvents => \A e \in 1..n : e \in 1..MaxEvents
  BY BoundsAssumption

\* Publishing a transaction appends its events at one revision after the last.
LEMMA PublishedLog ==
    ASSUME NEW lg \in Seq(Events), NEW acts \in Seq(Actions), acts # << >>,
           NEW now \in Nat
    PROVE  LET next == Published(lg, acts, now)
           IN  /\ next \in Seq(Events)
               /\ Len(next) = Len(lg) + Len(acts) /\ Len(next) > Len(lg)
               /\ \A e \in 1..Len(lg) : next[e] = lg[e]
               /\ \A e \in (Len(lg) + 1)..Len(next) : next[e].rev = Rev(next)
               /\ Rev(next) > Rev(lg) /\ Rev(next) \in Nat
<1> DEFINE rev  == NextRev(Rev(lg), now)
           add  == [i \in 1..Len(acts) |-> [act |-> acts[i], rev |-> rev]]
           next == Published(lg, acts, now)
<1>1. Rev(lg) \in Nat
  BY RevNat
<1>2. rev \in Nat /\ rev > Rev(lg)
  BY <1>1, NextRevAfter
<1>3. Len(acts) \in Nat /\ Len(acts) > 0
  OBVIOUS
<1> HIDE DEF rev
<1>4. add \in Seq(Events) /\ Len(add) = Len(acts)
  BY <1>2, <1>3 DEF Events
<1>5. next = lg \o add
  BY DEF Published, rev
<1> HIDE DEF add, next
<1>6. next \in Seq(Events) /\ Len(next) = Len(lg) + Len(acts)
  <2>1. lg \o add \in Seq(Events)
    BY <1>4, ConcatProperties
  <2>2. Len(lg \o add) = Len(lg) + Len(add)
    BY <1>4, ConcatProperties
  <2> QED
    BY <1>4, <1>5, <2>1, <2>2
<1>7. \A e \in 1..Len(lg) : next[e] = lg[e]
  BY <1>4, <1>5, ConcatProperties
<1>8. \A e \in (Len(lg) + 1)..Len(next) : next[e].rev = rev
  <2> SUFFICES ASSUME NEW e \in (Len(lg) + 1)..Len(next)
               PROVE  next[e].rev = rev
    OBVIOUS
  <2>1. e - Len(lg) \in 1..Len(acts) /\ next[e] = add[e - Len(lg)]
    BY <1>3, <1>4, <1>5, <1>6, ConcatProperties
  <2> QED
    BY <2>1 DEF add
<1>9. Rev(next) = rev
  BY <1>3, <1>6, <1>8 DEF Rev
<1> QED
  BY <1>2, <1>3, <1>6, <1>7, <1>8, <1>9 DEF next

-----------------------------------------------------------------------------
(* The subscriber registry. *)

LEMMA NoSubType == NoEvents \in Bufr /\ NoSub \in Subscriber
  BY BoundsAssumption DEF NoEvents, Bufr, NoSub, Subscriber

\* An update clears everything it carries and never takes a revision back.
LEMMA UpdateProperties ==
    ASSUME NEW s \in Subscriber, NEW rev \in Nat
    PROVE  /\ Update(s, rev) \in Subscriber
           /\ Update(s, rev).subs = s.subs
           /\ Update(s, rev).rev >= s.rev
           /\ Answers(s, rev) => /\ Update(s, rev).bufr = NoEvents
                                 /\ Update(s, rev).note = FALSE
           /\ ~Answers(s, rev) => Update(s, rev) = s
<1>1. CASE ~Answers(s, rev)
  BY <1>1 DEF Update, Subscriber
<1>2. CASE Answers(s, rev)
  <2> DEFINE mons == IF s.note THEN {[m EXCEPT !.bufr = {}] : m \in s.mons} ELSE s.mons
             r    == IF rev > s.rev THEN rev ELSE s.rev
             u    == [s EXCEPT !.rev = r, !.bufr = NoEvents, !.mons = mons, !.note = FALSE]
  <2>1. Update(s, rev) = u
    BY <1>2 DEF Update
  <2>2. mons \in SUBSET Monitor
    BY DEF Subscriber, Monitor
  <2>3. r \in Nat /\ r >= s.rev
    BY DEF Subscriber
  <2> HIDE DEF mons, r
  <2>4. u \in Subscriber /\ u.subs = s.subs /\ u.rev = r /\ u.bufr = NoEvents /\ u.note = FALSE
    BY <2>2, <2>3, NoSubType DEF Subscriber
  <2> QED
    BY <1>2, <2>1, <2>3, <2>4
<1> QED
  BY <1>1, <1>2

\* Showing events changes buffers, monitors and flags only.
LEMMA ShownProperties ==
    ASSUME sub \in [Conns -> Subscriber], NEW lg, NEW new, NEW from,
           \A e \in new : lg[e] \in Events
    PROVE  /\ Shown(lg, new, from) \in [Conns -> Subscriber]
           /\ \A c \in Conns : /\ Shown(lg, new, from)[c].rev = sub[c].rev
                               /\ Shown(lg, new, from)[c].subs = sub[c].subs
<1> SUFFICES ASSUME NEW c \in Conns
             PROVE  LET s == Shown(lg, new, from)[c]
                    IN  s \in Subscriber /\ s.rev = sub[c].rev /\ s.subs = sub[c].subs
  BY DEF Shown
<1> DEFINE bufr == [e \in 1..MaxEvents |->
                       IF e \in new /\ c # from /\ c \in tmap[lg[e].act.top]
                       THEN sub[c].bufr[e] + 1 ELSE sub[c].bufr[e]]
           mons == {[m EXCEPT !.bufr = @ \cup Noticed(lg, new, c, m.id)] : m \in sub[c].mons}
           note == sub[c].note \/ \E e \in new : \E r \in Watchers(lg[e].act) :
                                      r.conn = c /\ r.live
<1>1. sub[c] \in Subscriber
  OBVIOUS
<1>2. bufr \in Bufr
  <2>1. sub[c].bufr \in [1..MaxEvents -> Nat]
    BY <1>1 DEF Subscriber, Bufr
  <2>2. \A e \in 1..MaxEvents : sub[c].bufr[e] \in Nat
    BY <2>1
  <2>3. \A n \in Nat : n + 1 \in Nat
    OBVIOUS
  <2> QED
    BY <2>2, <2>3 DEF Bufr
<1>3. mons \in SUBSET Monitor
  <2> SUFFICES ASSUME NEW m \in sub[c].mons
               PROVE  [m EXCEPT !.bufr = @ \cup Noticed(lg, new, c, m.id)] \in Monitor
    OBVIOUS
  <2>1. m \in Monitor
    BY <1>1 DEF Subscriber
  <2>2. Noticed(lg, new, c, m.id) \subseteq Sigs
    BY DEF Noticed, Sig, Sigs, Events, Actions
  <2> QED
    BY <2>1, <2>2 DEF Monitor
<1>4. note \in BOOLEAN
  BY <1>1 DEF Subscriber
<1>5. Shown(lg, new, from)[c] = [sub[c] EXCEPT !.bufr = bufr, !.mons = mons, !.note = note]
  BY DEF Shown
<1> HIDE DEF bufr, mons, note
<1> QED
  BY <1>1, <1>2, <1>3, <1>4, <1>5 DEF Subscriber

\* Unsub keeps some of the topics.
LEMMA UnsubKeeps ==
    ASSUME NEW subs \in SUBSET Topics, NEW tops \in SUBSET Topics,
           NEW r \in UnsubOutcomes(subs, tops)
    PROVE  r.keep \subseteq subs
<1>1. CASE tops # {} \/ subs = {}
  BY <1>1 DEF UnsubOutcomes
<1>2. CASE tops = {} /\ subs # {}
  <2>1. PICK k \in SUBSET subs, t \in subs : r = [keep |-> k, drop |-> k \cup {t}]
    BY <1>2 DEF UnsubOutcomes
  <2> QED
    BY <2>1
<1> QED
  BY <1>1, <1>2

\* Removing a monitor from a list of references leaves only former members.
LEMMA DropMonProperties ==
    ASSUME NEW list \in Seq(MonRef), NEW id
    PROVE  /\ DropMon(list, id) \in Seq(MonRef)
           /\ \A i \in DOMAIN DropMon(list, id) :
                 \E j \in DOMAIN list : DropMon(list, id)[i] = list[j]
<1>1. CASE \A i \in DOMAIN list : list[i].id # id
  BY <1>1 DEF DropMon
<1>2. CASE \E i \in DOMAIN list : list[i].id = id
  <2> DEFINE d == [i \in 1..(Len(list) - 1) |->
                      IF \A j \in 1..i : list[j].id # id THEN list[i] ELSE list[i+1]]
  <2>1. DropMon(list, id) = d
    BY <1>2 DEF DropMon
  <2>2. Len(list) \in Nat /\ Len(list) - 1 \in Nat /\ DOMAIN list = 1..Len(list)
    BY <1>2, LenProperties
  <2>3. \A i \in 1..(Len(list) - 1) : i \in DOMAIN list /\ i+1 \in DOMAIN list
    BY <2>2
  <2>4. \A i \in 1..(Len(list) - 1) : d[i] = list[i] \/ d[i] = list[i+1]
    OBVIOUS
  <2>5. \A i \in DOMAIN list : list[i] \in MonRef
    BY ElementOfSeq, LenProperties
  <2>6. d \in [1..(Len(list) - 1) -> MonRef]
    BY <2>3, <2>5
  <2>7. d \in Seq(MonRef)
    BY <2>2, <2>6, IsASeq
  <2> QED
    BY <2>1, <2>3, <2>4, <2>7
<1> QED
  BY <1>1, <1>2

\* The registry operations keep the registry well typed.
LEMMA OrphanedType ==
    ASSUME NEW map \in [Sigs -> Seq(MonRef)], NEW c
    PROVE  Orphaned(c, map) \in [Sigs -> Seq(MonRef)]
<1> SUFFICES ASSUME NEW g \in Sigs
             PROVE  Orphaned(c, map)[g] \in Seq(MonRef)
  BY DEF Orphaned
<1> DEFINE mark1(i) == IF map[g][i].conn = c THEN [map[g][i] EXCEPT !.live = FALSE]
                       ELSE map[g][i]
<1>1. map[g] \in Seq(MonRef) /\ Len(map[g]) \in Nat /\ DOMAIN map[g] = 1..Len(map[g])
  BY LenProperties
<1>2. \A i \in 1..Len(map[g]) : map[g][i] \in MonRef
  BY <1>1, ElementOfSeq
<1>3. \A i \in 1..Len(map[g]) : mark1(i) \in MonRef
  BY <1>2 DEF MonRef
<1> HIDE DEF mark1
<1>4. [i \in 1..Len(map[g]) |-> mark1(i)] \in Seq(MonRef)
  BY <1>1, <1>3, IsASeq
<1> QED
  BY <1>1, <1>4 DEF Orphaned, mark1

RegistryType ==
    /\ sub \in [Conns -> Subscriber]
    /\ smap \subseteq Conns
    /\ tmap \in [Topics -> SUBSET Conns]
    /\ mmap \in [Sigs -> Seq(MonRef)]

LEMMA UnsubType ==
    ASSUME RegistryType, NEW c \in Conns, NEW tops \in SUBSET Topics,
           Unsub(log, c, tops)
    PROVE  RegistryType'
<1>1. CASE c \notin smap
  BY <1>1 DEF Unsub, subsVars, RegistryType
<1>2. CASE c \in smap
  <2>0. sub[c] \in Subscriber
    BY DEF RegistryType
  <2>1. PICK r \in UnsubOutcomes(sub[c].subs, tops) :
            /\ tmap' = [t \in Topics |->
                           IF t \in sub[c].subs \ r.keep THEN tmap[t] \ {c} ELSE tmap[t]]
            /\ IF r.keep = {} /\ sub[c].mons = {}
               THEN /\ smap' = smap \ {c}
                    /\ sub'  = [sub EXCEPT ![c] = NoSub]
                    /\ mmap' = Orphaned(c, mmap)
               ELSE /\ sub'  = [sub EXCEPT ![c].subs = r.keep,
                                           ![c].bufr = Filter(log, @, r.drop)]
                    /\ UNCHANGED <<smap, mmap>>
    BY <1>2 DEF Unsub
  <2>2. r.keep \subseteq Topics
    BY <2>0, UnsubKeeps DEF Subscriber
  <2>3. Filter(log, sub[c].bufr, r.drop) \in Bufr
    BY <2>0 DEF Filter, Bufr, Subscriber
  <2>4. tmap' \in [Topics -> SUBSET Conns]
    BY <2>1 DEF RegistryType
  <2>5. CASE r.keep = {} /\ sub[c].mons = {}
    BY <2>1, <2>4, <2>5, NoSubType, OrphanedType DEF RegistryType
  <2>6. CASE ~(r.keep = {} /\ sub[c].mons = {})
    <3>1. sub' = [sub EXCEPT ![c] = [sub[c] EXCEPT !.subs = r.keep,
                                        !.bufr = Filter(log, sub[c].bufr, r.drop)]]
      BY <2>0, <2>1, <2>6 DEF RegistryType
    <3>2. sub' \in [Conns -> Subscriber]
      BY <2>0, <2>2, <2>3, <3>1 DEF RegistryType, Subscriber
    <3> QED
      BY <2>1, <2>4, <2>6, <3>2 DEF RegistryType
  <2> QED
    BY <2>5, <2>6
<1> QED
  BY <1>1, <1>2

LEMMA MonType ==
    ASSUME RegistryType, NEW c \in Conns, NEW watch \in SUBSET Sigs,
           sub[c].monid < MaxMons, Mon(c, watch)
    PROVE  RegistryType'
<1> DEFINE id == sub[c].monid + 1
           m  == [id |-> id, watch |-> watch, bufr |-> {}]
<1>1. sub[c] \in Subscriber
  BY DEF RegistryType
<1>2. id \in 1..MaxMons /\ m \in Monitor
  BY <1>1, BoundsAssumption DEF Subscriber, Monitor
<1>3. sub' = [sub EXCEPT ![c] = [sub[c] EXCEPT !.monid = id, !.mons = sub[c].mons \cup {m}]]
  BY <1>1 DEF Mon, RegistryType
<1>4. mmap' \in [Sigs -> Seq(MonRef)]
  <2> DEFINE ref == [conn |-> c, id |-> id, live |-> TRUE]
  <2>1. ref \in MonRef
    BY <1>2 DEF MonRef
  <2>2. mmap' = [g \in Sigs |-> IF g \in watch THEN Append(mmap[g], ref) ELSE mmap[g]]
    BY DEF Mon
  <2> HIDE DEF ref
  <2>3. \A g \in Sigs : Append(mmap[g], ref) \in Seq(MonRef)
    BY <2>1, AppendProperties DEF RegistryType
  <2> QED
    BY <2>2, <2>3 DEF RegistryType
<1> HIDE DEF id, m
<1>5. sub' \in [Conns -> Subscriber]
  <2>1. id \in 0..MaxMons
    BY <1>2
  <2> QED
    BY <1>1, <1>2, <1>3, <2>1 DEF RegistryType, Subscriber
<1> QED
  BY <1>4, <1>5 DEF Mon, RegistryType

LEMMA UnmonType ==
    ASSUME RegistryType, NEW c \in Conns, NEW id, Unmon(c, id)
    PROVE  RegistryType'
<1>1. CASE c \notin smap \/ \A m \in sub[c].mons : m.id # id
  BY <1>1 DEF Unmon, subsVars, RegistryType
<1>2. CASE c \in smap /\ \E m \in sub[c].mons : m.id = id
  <2> DEFINE m    == CHOOSE m \in sub[c].mons : m.id = id
             left == sub[c].mons \ {m}
             map  == [g \in Sigs |->
                         IF g \in m.watch THEN DropMon(mmap[g], id) ELSE mmap[g]]
  <2>1. sub[c] \in Subscriber
    BY DEF RegistryType
  <2>2. map \in [Sigs -> Seq(MonRef)]
    BY DropMonProperties DEF RegistryType
  <2>3. left \in SUBSET Monitor
    BY <2>1 DEF Subscriber
  <2>4. /\ IF left = {} /\ sub[c].subs = {}
           THEN /\ smap' = smap \ {c}
                /\ sub'  = [sub EXCEPT ![c] = NoSub]
                /\ mmap' = Orphaned(c, map)
           ELSE /\ sub'  = [sub EXCEPT ![c].mons = left]
                /\ mmap' = map
                /\ UNCHANGED smap
        /\ UNCHANGED tmap
    BY <1>2 DEF Unmon
  <2> HIDE DEF m, left, map
  <2>5. CASE left = {} /\ sub[c].subs = {}
    <3>1. Orphaned(c, map) \in [Sigs -> Seq(MonRef)]
      BY <2>2, OrphanedType
    <3> QED
      BY <2>4, <2>5, <3>1, NoSubType DEF RegistryType
  <2>6. CASE ~(left = {} /\ sub[c].subs = {})
    <3>1. sub' = [sub EXCEPT ![c] = [sub[c] EXCEPT !.mons = left]]
      BY <2>4, <2>6
    <3>2. sub' \in [Conns -> Subscriber]
      BY <2>1, <2>3, <3>1 DEF RegistryType, Subscriber
    <3> QED
      BY <2>2, <2>4, <2>6, <3>2 DEF RegistryType
  <2> QED
    BY <2>5, <2>6
<1> QED
  BY <1>1, <1>2

-----------------------------------------------------------------------------
(* Type correctness of the server. *)

LEMMA BufrType ==
    /\ \A a \in Bufr, b \in Bufr : Plus(a, b) \in Bufr
    /\ \A es : Once(es) \in Bufr
    /\ \A s \in Subscriber, rev \in Nat : Carried(s, rev) \in Bufr
<1>1. ASSUME NEW a \in Bufr, NEW b \in Bufr PROVE Plus(a, b) \in Bufr
  <2>1. \A e \in 1..MaxEvents : a[e] \in Nat /\ b[e] \in Nat
    BY DEF Bufr
  <2>2. \A m \in Nat, n \in Nat : m + n \in Nat
    OBVIOUS
  <2> QED
    BY <2>1, <2>2 DEF Plus, Bufr
<1>2. \A es : Once(es) \in Bufr
  BY DEF Once, Bufr
<1>3. \A s \in Subscriber, rev \in Nat : Carried(s, rev) \in Bufr
  BY NoSubType DEF Carried, Subscriber
<1> QED
  BY <1>1, <1>2, <1>3

LEMMA BtrigType ==
    ASSUME TypeOK, NEW trig, Btrig(trig)
    PROVE  /\ bcast' \in Nat /\ window' \in BOOLEAN /\ stopped' \in BOOLEAN
           /\ timers' \in Nat /\ queued' \in Nat
<1>1. timers \in Nat /\ timers + 1 \in Nat
  BY DEF TypeOK
<1> QED
  BY <1>1 DEF Btrig, TypeOK

\* Ctrl.sub on well typed subscribers.
LEMMA SubscribeType ==
    ASSUME TypeOK, NEW c \in Conns, NEW r \in Nat, NEW tops \in SUBSET Topics,
           NEW subs \in [Conns -> Subscriber], Subscribe(c, r, tops, subs)
    PROVE  /\ RegistryType'
           /\ got' \in [Conns -> Bufr] /\ mark' \in [Conns -> Nat]
           /\ DOMAIN since' = Conns
           /\ \A d \in Conns : /\ since'[d] \in [DOMAIN since'[d] -> Nat]
                               /\ DOMAIN since'[d] \subseteq Topics
<1> DEFINE s     == subs[c]
           fresh == tops \ s.subs
           s1    == [s EXCEPT !.subs = @ \cup fresh]
           s2    == [s1 EXCEPT !.bufr = Plus(@, Once(EventsSince(log, r, fresh)))]
           again == [e \in 1..MaxEvents |->
                        IF e <= Len(log) /\ log[e].act.top \in fresh THEN 0 ELSE got[c][e]]
<1>0. s \in Subscriber /\ Rev(log) \in Nat
  BY RevNat DEF TypeOK
<1>1. fresh \subseteq Topics /\ s1 \in Subscriber
  BY <1>0 DEF Subscriber
<1>2. s1.bufr \in Bufr
  BY <1>1 DEF Subscriber
<1>3. Plus(s1.bufr, Once(EventsSince(log, r, fresh))) \in Bufr
  BY <1>2, BufrType
<1>4. s2 \in Subscriber
  BY <1>1, <1>3 DEF Subscriber
<1>5. again \in Bufr
  <2>1. got[c] \in [1..MaxEvents -> Nat]
    BY DEF Bufr, TypeOK
  <2>2. \A e \in 1..MaxEvents : again[e] \in Nat
    BY <2>1
  <2> QED
    BY <2>2 DEF Bufr
<1>6. smap' \subseteq Conns /\ tmap' \in [Topics -> SUBSET Conns] /\ mmap' = mmap
  BY DEF Subscribe, Sub, TypeOK
<1>7. \/ sub' = subs /\ UNCHANGED feedVars
      \/ /\ sub' = [subs EXCEPT ![c] = Update(s2, Rev(log))]
         /\ since' = [since EXCEPT ![c] = [t \in DOMAIN @ \cup fresh |->
                         IF t \in fresh THEN r ELSE @[t]]]
         /\ got' = [got EXCEPT ![c] = Plus(again, Carried(s2, Rev(log)))]
         /\ mark' = IF Answers(s2, Rev(log)) THEN [mark EXCEPT ![c] = Rev(log)] ELSE mark
      \/ sub' = [subs EXCEPT ![c] = s1] /\ UNCHANGED feedVars
  BY DEF Subscribe, Sub
<1> HIDE DEF s2, s1, again, fresh
<1>8. CASE \/ sub' = subs /\ UNCHANGED feedVars
           \/ sub' = [subs EXCEPT ![c] = s1] /\ UNCHANGED feedVars
  BY <1>1, <1>6, <1>8 DEF feedVars, RegistryType, TypeOK
<1>9. CASE /\ sub' = [subs EXCEPT ![c] = Update(s2, Rev(log))]
           /\ since' = [since EXCEPT ![c] = [t \in DOMAIN @ \cup fresh |->
                           IF t \in fresh THEN r ELSE @[t]]]
           /\ got' = [got EXCEPT ![c] = Plus(again, Carried(s2, Rev(log)))]
           /\ mark' = IF Answers(s2, Rev(log)) THEN [mark EXCEPT ![c] = Rev(log)] ELSE mark
  <2>1. Update(s2, Rev(log)) \in Subscriber
    BY <1>0, <1>4, UpdateProperties
  <2>2. sub' \in [Conns -> Subscriber]
    BY <1>9, <2>1
  <2>3. Plus(again, Carried(s2, Rev(log))) \in Bufr
    BY <1>0, <1>4, <1>5, BufrType
  <2>4. got' \in [Conns -> Bufr]
    BY <1>9, <2>3 DEF TypeOK
  <2>5. mark' \in [Conns -> Nat]
    BY <1>0, <1>9 DEF TypeOK
  <2>6. DOMAIN since' = Conns
    BY <1>9 DEF TypeOK
  <2>7. ASSUME NEW d \in Conns
        PROVE  since'[d] \in [DOMAIN since'[d] -> Nat] /\ DOMAIN since'[d] \subseteq Topics
    <3>1. since[d] \in [DOMAIN since[d] -> Nat] /\ DOMAIN since[d] \subseteq Topics
      BY DEF TypeOK
    <3>2. CASE d = c
      <4>1. since'[d] = [t \in DOMAIN since[d] \cup fresh |->
                            IF t \in fresh THEN r ELSE since[d][t]]
        BY <1>9, <3>2 DEF TypeOK
      <4> QED
        BY <1>1, <3>1, <4>1
    <3>3. CASE d # c
      BY <1>9, <3>1, <3>3 DEF TypeOK
    <3> QED
      BY <3>2, <3>3
  <2> QED
    BY <1>6, <2>2, <2>4, <2>5, <2>6, <2>7 DEF RegistryType, TypeOK
<1> QED
  BY <1>7, <1>8, <1>9

\* Who changes what of the state beside the registry.
LEMMA TypeParts ==
    TypeOK <=> /\ RegistryType
               /\ log \in Seq(Events) /\ Len(log) <= MaxEvents
               /\ bcast \in Nat
               /\ window \in BOOLEAN /\ stopped \in BOOLEAN /\ ignored \in BOOLEAN
               /\ timers \in Nat /\ queued \in Nat
               /\ sat \in SatReqs \cup {NoSat}
               /\ got \in [Conns -> Bufr]
               /\ mark \in [Conns -> Nat]
               /\ DOMAIN since = Conns
               /\ \A c \in Conns : /\ since[c] \in [DOMAIN since[c] -> Nat]
                                   /\ DOMAIN since[c] \subseteq Topics
               /\ gone \subseteq Conns
  BY DEF TypeOK, RegistryType

LEMMA ForgoType ==
    ASSUME TypeOK, NEW c \in Conns, NEW tops, Forgo(c, tops)
    PROVE  /\ DOMAIN since' = Conns
           /\ \A d \in Conns : /\ since'[d] \in [DOMAIN since'[d] -> Nat]
                               /\ DOMAIN since'[d] \subseteq Topics
<1>1. DOMAIN since' = Conns
  BY DEF Forgo, TypeOK
<1>2. ASSUME NEW d \in Conns
      PROVE  since'[d] \in [DOMAIN since'[d] -> Nat] /\ DOMAIN since'[d] \subseteq Topics
  <2>1. since[d] \in [DOMAIN since[d] -> Nat] /\ DOMAIN since[d] \subseteq Topics
    BY DEF TypeOK
  <2> DEFINE left == IF tops = {} THEN {} ELSE DOMAIN since[d] \ tops
  <2>2. CASE d = c
    <3>1. since'[d] = [t \in left |-> since[d][t]]
      BY <2>2 DEF Forgo, TypeOK
    <3> QED
      BY <2>1, <3>1
  <2>3. CASE d # c
    BY <2>1, <2>3 DEF Forgo, TypeOK
  <2> QED
    BY <2>2, <2>3
<1> QED
  BY <1>1, <1>2

LEMMA PubType ==
    ASSUME TypeOK, NEW c \in Conns, NEW acts \in Transs, NEW now \in Nows, Pub(c, acts, now)
    PROVE  TypeOK'
<1> DEFINE next  == Published(log, acts, now)
           new   == (Len(log) + 1)..Len(next)
           shown == Shown(next, new, c)
           s     == shown[c]
           s1    == IF Unsent(s) THEN Update(s, Rev(log)) ELSE s
           s2    == IF c \notin smap THEN NoSub
                    ELSE IF Rev(next) > s1.rev THEN [s1 EXCEPT !.rev = Rev(next)] ELSE s1
           sent  == IF Unsent(s) THEN Plus(got[c], Carried(s, Rev(log))) ELSE got[c]
<1>1. log \in Seq(Events) /\ acts \in Seq(Actions) /\ acts # << >> /\ now \in Nat
  BY ServerAssumption DEF TypeOK, ActionLists
<1>2. next \in Seq(Events) /\ Rev(next) \in Nat /\ Rev(log) \in Nat
  BY <1>1, PublishedLog, RevNat
<1>3. \A e \in new : next[e] \in Events
  <2>1. Len(log) \in Nat /\ Len(next) \in Nat
    BY <1>1, <1>2, LenProperties
  <2>2. \A e \in new : e \in 1..Len(next)
    BY <2>1
  <2> QED
    BY <1>2, <2>2, ElementOfSeq
<1>4. shown \in [Conns -> Subscriber]
  BY <1>3, ShownProperties DEF TypeOK
<1>5. s1 \in Subscriber
  BY <1>2, <1>4, UpdateProperties
<1>6. s2 \in Subscriber
  BY <1>2, <1>5, NoSubType DEF Subscriber
<1>7. sub' = [shown EXCEPT ![c] = s2]
  BY DEF Pub
<1>8. Plus(Once(new), sent) \in Bufr
  <2>1. got[c] \in Bufr
    BY DEF TypeOK
  <2>2. sent \in Bufr
    BY <1>2, <1>4, <2>1, BufrType
  <2> QED
    BY <2>2, BufrType
<1>9. got' = [got EXCEPT ![c] = Plus(Once(new), sent)] /\ mark' = [mark EXCEPT ![c] = Rev(next)]
  BY DEF Pub, TypeOK
<1>10. log' = next /\ Len(next) <= MaxEvents /\ UNCHANGED <<smap, tmap, mmap, sat, ignored, since, gone>>
  BY DEF Pub
<1>11. \E trig : Btrig(trig)
  BY DEF Pub
<1>12. /\ bcast' \in Nat /\ window' \in BOOLEAN /\ stopped' \in BOOLEAN
       /\ timers' \in Nat /\ queued' \in Nat
  BY <1>11, BtrigType
<1> HIDE DEF next, new, shown, s2, sent
<1>13. sub' \in [Conns -> Subscriber]
  BY <1>4, <1>6, <1>7
<1>14. got' \in [Conns -> Bufr] /\ mark' \in [Conns -> Nat]
  BY <1>2, <1>8, <1>9 DEF TypeOK
<1> QED
  BY <1>2, <1>10, <1>12, <1>13, <1>14 DEF TypeOK

LEMMA SatType ==
    ASSUME TypeOK
    PROVE  /\ \A c \in Conns, batch \in Batches, r \in KnownRevs, tops \in SUBSET Topics :
                 SatBegin(c, batch, r, tops) => TypeOK'
           /\ \A now \in Nows : SatPublish(now) => TypeOK'
           /\ SatFails => TypeOK'
           /\ \A c \in Conns : SatEnd(c) => TypeOK'
<1>0. log \in Seq(Events) /\ Len(log) \in Nat /\ KnownRevs \subseteq Nat
  <2>1. \A e \in 1..Len(log) : log[e] \in Events
    BY ElementOfSeq DEF TypeOK
  <2> QED
    BY <2>1, LenProperties DEF TypeOK, KnownRevs, Events
<1>1. ASSUME NEW c \in Conns, NEW batch \in Batches, NEW r \in KnownRevs,
             NEW tops \in SUBSET Topics, SatBegin(c, batch, r, tops)
      PROVE  TypeOK'
  <2>1. batch \in Seq(ActionLists)
    BY ServerAssumption
  <2>2. sat' \in SatReqs
    BY <1>0, <1>1, <2>1, BoundsAssumption DEF SatBegin, SatReqs, TypeOK
  <2> QED
    BY <1>1, <2>2 DEF SatBegin, TypeOK, subsVars, ctrlVars, feedVars
<1>2. ASSUME ~Idle PROVE sat \in SatReqs
  BY <1>2 DEF Idle, TypeOK
<1>3. ASSUME NEW now \in Nows, SatPublish(now) PROVE TypeOK'
  <2>1. sat \in SatReqs /\ sat.batch # << >>
    BY <1>2, <1>3 DEF SatPublish
  <2>2. sat.batch \in Seq(ActionLists)
    BY <2>1 DEF SatReqs
  <2>3. Head(sat.batch) \in ActionLists /\ Tail(sat.batch) \in Seq(ActionLists)
    BY <2>1, <2>2, HeadTailProperties
  <2>4. sat' \in SatReqs
    BY <1>3, <2>1, <2>3 DEF SatPublish, SatReqs
  <2>5. log' \in Seq(Events) /\ Len(log') <= MaxEvents
    <3> DEFINE acts == Head(sat.batch)
    <3>1. acts \in Seq(Actions) /\ acts # << >> /\ now \in Nat
      BY <2>3, ServerAssumption DEF ActionLists
    <3>2. log' = Published(log, acts, now) /\ Len(log) + Len(acts) <= MaxEvents
      BY <1>3 DEF SatPublish
    <3> HIDE DEF acts
    <3> QED
      BY <1>0, <3>1, <3>2, PublishedLog
  <2> QED
    BY <1>3, <2>4, <2>5 DEF SatPublish, TypeOK, subsVars, ctrlVars, feedVars
<1>4. ASSUME SatFails PROVE TypeOK'
  BY <1>4 DEF SatFails, TypeOK, subsVars, ctrlVars, feedVars
<1>5. ASSUME NEW c \in Conns, SatEnd(c) PROVE TypeOK'
  <2> DEFINE new   == (sat.from + 1)..Len(log)
             shown == Shown(log, new, c)
  <2>1. sat \in SatReqs /\ sat.rev \in Nat /\ sat.tops \in SUBSET Topics /\ sat.from \in Nat
    BY <1>2, <1>5 DEF SatEnd, SatReqs
  <2>2. \A e \in new : log[e] \in Events
    BY <1>0, <2>1, ElementOfSeq
  <2>3. shown \in [Conns -> Subscriber]
    BY <2>2, ShownProperties DEF TypeOK
  <2>4. Subscribe(c, sat.rev, sat.tops, shown)
    BY <1>5 DEF SatEnd
  <2>5. /\ RegistryType'
        /\ got' \in [Conns -> Bufr] /\ mark' \in [Conns -> Nat]
        /\ DOMAIN since' = Conns
        /\ \A d \in Conns : /\ since'[d] \in [DOMAIN since'[d] -> Nat]
                            /\ DOMAIN since'[d] \subseteq Topics
    BY <2>1, <2>3, <2>4, SubscribeType
  <2>6. \E trig : Btrig(trig)
    BY <1>5 DEF SatEnd
  <2>7. /\ bcast' \in Nat /\ window' \in BOOLEAN /\ stopped' \in BOOLEAN
        /\ timers' \in Nat /\ queued' \in Nat
    BY <2>6, BtrigType
  <2>8. sat' = NoSat /\ UNCHANGED <<log, ignored, gone>>
    BY <1>5 DEF SatEnd
  <2> QED
    BY <2>5, <2>7, <2>8 DEF TypeOK, RegistryType
<1> QED
  BY <1>1, <1>3, <1>4, <1>5

\* Every step keeps the state well typed.
LEMMA TypeStep == ASSUME TypeOK, [Next]_vars PROVE TypeOK'
<1>0. log \in Seq(Events) /\ KnownRevs \subseteq Nat /\ Rev(log) \in Nat
  <2>1. \A e \in 1..Len(log) : log[e] \in Events
    BY ElementOfSeq DEF TypeOK
  <2>2. KnownRevs \subseteq Nat
    BY <2>1 DEF KnownRevs, Events
  <2> QED
    BY <2>2, RevNat DEF TypeOK
<1>1. ASSUME NEW c \in Conns, NEW acts \in Transs, NEW now \in Nows, Pub(c, acts, now)
      PROVE  TypeOK'
  BY <1>1, PubType
<1>2. ASSUME NEW c \in Conns, NEW r \in KnownRevs, NEW tops \in SUBSET Topics,
             SubReq(c, r, tops)
      PROVE  TypeOK'
  <2>1. sub \in [Conns -> Subscriber] /\ r \in Nat
    BY <1>0 DEF TypeOK
  <2>2. Subscribe(c, r, tops, sub) /\ UNCHANGED <<log, ctrlVars, sat, ignored, gone>>
    BY <1>2 DEF SubReq
  <2>3. /\ RegistryType'
        /\ got' \in [Conns -> Bufr] /\ mark' \in [Conns -> Nat]
        /\ DOMAIN since' = Conns
        /\ \A d \in Conns : /\ since'[d] \in [DOMAIN since'[d] -> Nat]
                            /\ DOMAIN since'[d] \subseteq Topics
    BY <2>1, <2>2, SubscribeType
  <2> QED
    BY <2>2, <2>3 DEF TypeOK, RegistryType, ctrlVars
<1>3. ASSUME NEW c \in Conns, NEW tops \in SUBSET Topics, Unsub(log, c, tops), Forgo(c, tops),
             UNCHANGED <<log, ctrlVars, sat, ignored, got, mark>>, gone' \subseteq Conns
      PROVE  TypeOK'
  <2>1. RegistryType'
    BY <1>3, UnsubType, TypeParts
  <2>2. /\ DOMAIN since' = Conns
        /\ \A d \in Conns : /\ since'[d] \in [DOMAIN since'[d] -> Nat]
                            /\ DOMAIN since'[d] \subseteq Topics
    BY <1>3, ForgoType
  <2> QED
    BY <1>3, <2>1, <2>2 DEF TypeOK, RegistryType, ctrlVars
<1>4. ASSUME NEW c \in Conns, NEW watch \in Watches, MonReq(c, watch)
      PROVE  TypeOK'
  <2>1. watch \in SUBSET Sigs
    BY ServerAssumption
  <2>2. RegistryType'
    BY <1>4, <2>1, MonType, TypeParts DEF MonReq
  <2> QED
    BY <1>4, <2>2 DEF MonReq, TypeOK, RegistryType, ctrlVars, feedVars
<1>5. ASSUME NEW c \in Conns, NEW id, UnmonReq(c, id)
      PROVE  TypeOK'
  <2>1. RegistryType'
    BY <1>5, UnmonType, TypeParts DEF UnmonReq
  <2> QED
    BY <1>5, <2>1 DEF UnmonReq, TypeOK, RegistryType, ctrlVars, feedVars
<1>6. ASSUME NEW c \in Conns, NEW subj, Unknown(c, subj)
      PROVE  TypeOK'
  BY <1>6 DEF Unknown, TypeOK, subsVars, ctrlVars, feedVars
<1>7. ASSUME WindowCloses \/ TimerFires \/ Stop
      PROVE  TypeOK'
  <2>1. UNCHANGED <<log, subsVars, bcast, sat, ignored, feedVars, gone>>
    BY <1>7 DEF WindowCloses, TimerFires, Stop
  <2>2. window' \in BOOLEAN /\ stopped' \in BOOLEAN
    BY <1>7 DEF WindowCloses, TimerFires, Stop, TypeOK
  <2>3. timers \in Nat /\ queued \in Nat
    BY DEF TypeOK
  <2>4. timers' \in Nat /\ queued' \in Nat
    <3>1. CASE WindowCloses
      BY <2>3, <3>1 DEF WindowCloses
    <3>2. CASE TimerFires
      BY <2>3, <3>2 DEF TimerFires
    <3>3. CASE Stop
      BY <2>3, <3>3 DEF Stop
    <3> QED
      BY <1>7, <3>1, <3>2, <3>3
  <2> QED
    BY <2>1, <2>2, <2>4 DEF TypeOK, subsVars, feedVars
<1>8. ASSUME HandleBcast
      PROVE  TypeOK'
  <2> DEFINE rev == Rev(log)
             takes(c) == Due(rev) /\ c \in smap /\ Answers(sub[c], rev)
  <2>1. /\ queued' \in Nat /\ bcast' \in Nat
        /\ UNCHANGED <<log, smap, tmap, mmap, window, timers, stopped, sat, ignored, since, gone>>
    BY <1>0, <1>8 DEF HandleBcast, TypeOK
  <2>2. sub' = [c \in Conns |-> IF takes(c) THEN Update(sub[c], rev) ELSE sub[c]]
    BY <1>8 DEF HandleBcast
  <2>3. got' = [c \in Conns |-> IF takes(c) THEN Plus(got[c], sub[c].bufr) ELSE got[c]]
    BY <1>8 DEF HandleBcast
  <2>4. mark' = [c \in Conns |-> IF takes(c) THEN rev ELSE mark[c]]
    BY <1>8 DEF HandleBcast
  <2> HIDE DEF takes
  <2>5. \A c \in Conns : sub[c] \in Subscriber /\ sub[c].bufr \in Bufr /\ got[c] \in Bufr
    BY DEF TypeOK, Subscriber
  <2>6. \A c \in Conns : Update(sub[c], rev) \in Subscriber /\ Plus(got[c], sub[c].bufr) \in Bufr
    BY <1>0, <2>5, UpdateProperties, BufrType
  <2>7. sub' \in [Conns -> Subscriber] /\ got' \in [Conns -> Bufr]
    BY <2>2, <2>3, <2>5, <2>6
  <2>8. mark' \in [Conns -> Nat]
    BY <1>0, <2>4 DEF TypeOK
  <2> QED
    BY <2>1, <2>7, <2>8 DEF TypeOK
<1>9. ASSUME HandleBtrig
      PROVE  TypeOK'
  <2>1. Btrig(TRUE)
    BY <1>9 DEF HandleBtrig
  <2>2. /\ bcast' \in Nat /\ window' \in BOOLEAN /\ stopped' \in BOOLEAN
        /\ timers' \in Nat /\ queued' \in Nat
    BY <2>1, BtrigType
  <2> QED
    BY <1>9, <2>2 DEF HandleBtrig, TypeOK, subsVars, feedVars
<1>10. ASSUME UNCHANGED vars
       PROVE  TypeOK'
  BY <1>10 DEF vars, TypeOK, subsVars, ctrlVars, feedVars
<1>11. ASSUME NEW c \in Conns, NEW tops \in SUBSET Topics, UnsubReq(c, tops)
       PROVE  TypeOK'
  BY <1>3, <1>11 DEF UnsubReq, TypeOK
<1>12. ASSUME NEW c \in Conns, Signoff(c)
       PROVE  TypeOK'
  BY <1>3, <1>12 DEF Signoff, TypeOK
<1> QED
  BY <1>1, <1>2, <1>4, <1>5, <1>6, <1>7, <1>8, <1>9, <1>10, <1>11, <1>12, SatType DEF Next

LEMMA TypeInit == ASSUME Init PROVE TypeOK
<1>1. NoSub \in Subscriber /\ NoEvents \in Bufr
  BY NoSubType
<1>2. log \in Seq(Events) /\ Len(log) <= MaxEvents
  BY BoundsAssumption DEF Init
<1>3. RegistryType
  BY <1>1 DEF Init, SubscribersInit, RegistryType
<1>4. got \in [Conns -> Bufr] /\ mark \in [Conns -> Nat]
  BY <1>1 DEF Init
<1>5. DOMAIN since = Conns
  BY DEF Init
<1>6. \A c \in Conns : since[c] \in [DOMAIN since[c] -> Nat] /\ DOMAIN since[c] \subseteq Topics
  BY DEF Init
<1> QED
  BY <1>2, <1>3, <1>4, <1>5, <1>6, TypeParts DEF Init

\* The server's state is well typed in every behaviour.
THEOREM TypeCorrect == Spec => []TypeOK
  BY TypeInit, TypeStep, PTL DEF Spec

-----------------------------------------------------------------------------
(* The registry stays consistent. *)

LiveRefs(map, conns) ==
    \A g \in Sigs : \A i \in DOMAIN map[g] : map[g][i].live => map[g][i].conn \in conns

LEMMA OrphanedRefs ==
    ASSUME NEW map \in [Sigs -> Seq(MonRef)], NEW c, NEW conns, LiveRefs(map, conns)
    PROVE  LiveRefs(Orphaned(c, map), conns \ {c})
<1> SUFFICES ASSUME NEW g \in Sigs, NEW i \in DOMAIN Orphaned(c, map)[g],
                    Orphaned(c, map)[g][i].live
             PROVE  Orphaned(c, map)[g][i].conn \in conns \ {c}
  BY DEF LiveRefs
<1>1. i \in DOMAIN map[g]
  BY DEF Orphaned
<1>2. Orphaned(c, map)[g][i] = IF map[g][i].conn = c THEN [map[g][i] EXCEPT !.live = FALSE]
                               ELSE map[g][i]
  BY <1>1 DEF Orphaned
<1>3. map[g][i] \in MonRef
  <2>1. map[g] \in Seq(MonRef) /\ DOMAIN map[g] = 1..Len(map[g])
    BY LenProperties
  <2> QED
    BY <1>1, <2>1, ElementOfSeq
<1>4. map[g][i].conn # c
  BY <1>2, <1>3 DEF MonRef
<1> QED
  BY <1>1, <1>2, <1>4 DEF LiveRefs

LEMMA UnsubRegistered ==
    ASSUME TypeOK, OnlyRegistered, NEW c \in Conns, NEW tops \in SUBSET Topics,
           Unsub(log, c, tops)
    PROVE  /\ OnlyRegistered'
           /\ smap' \subseteq smap
           /\ \A d \in Conns :
                \/ sub'[d] = NoSub
                \/ /\ sub'[d].note = sub[d].note /\ sub'[d].rev = sub[d].rev
                   /\ \A e \in 1..MaxEvents : sub'[d].bufr[e] > 0 => sub[d].bufr[e] > 0
<1>1. CASE c \notin smap
  BY <1>1 DEF Unsub, subsVars, OnlyRegistered
<1>2. CASE c \in smap
  <2>0. sub[c] \in Subscriber /\ sub \in [Conns -> Subscriber] /\ tmap \in [Topics -> SUBSET Conns]
    BY DEF TypeOK
  <2>1. PICK r \in UnsubOutcomes(sub[c].subs, tops) :
            /\ tmap' = [t \in Topics |->
                           IF t \in sub[c].subs \ r.keep THEN tmap[t] \ {c} ELSE tmap[t]]
            /\ IF r.keep = {} /\ sub[c].mons = {}
               THEN /\ smap' = smap \ {c}
                    /\ sub'  = [sub EXCEPT ![c] = NoSub]
                    /\ mmap' = Orphaned(c, mmap)
               ELSE /\ sub'  = [sub EXCEPT ![c].subs = r.keep,
                                           ![c].bufr = Filter(log, @, r.drop)]
                    /\ UNCHANGED <<smap, mmap>>
    BY <1>2 DEF Unsub
  <2>2. r.keep \subseteq sub[c].subs
    BY <2>0, UnsubKeeps DEF Subscriber
  <2>3. sub' \in [Conns -> Subscriber] /\ \A d \in Conns \ {c} : sub'[d] = sub[d]
    BY <2>0, <2>1, UnsubType, TypeParts DEF RegistryType
  <2>4. sub'[c].subs = r.keep
    <3>1. CASE r.keep = {} /\ sub[c].mons = {}
      <4>1. sub'[c] = NoSub
        BY <2>0, <2>1, <3>1
      <4> QED
        BY <3>1, <4>1 DEF NoSub
    <3>2. CASE ~(r.keep = {} /\ sub[c].mons = {})
      <4>1. sub'[c] = [sub[c] EXCEPT !.subs = r.keep,
                                     !.bufr = Filter(log, sub[c].bufr, r.drop)]
        BY <2>0, <2>1, <3>2
      <4> QED
        BY <2>0, <4>1 DEF Subscriber
    <3> QED
      BY <3>1, <3>2
  <2>5. \A d \in Conns, t \in Topics : d \in tmap'[t] <=> t \in sub'[d].subs
    <3> SUFFICES ASSUME NEW d \in Conns, NEW t \in Topics
                 PROVE  d \in tmap'[t] <=> t \in sub'[d].subs
      OBVIOUS
    <3>1. d \in tmap[t] <=> t \in sub[d].subs
      BY DEF OnlyRegistered
    <3>2. tmap'[t] = IF t \in sub[c].subs \ r.keep THEN tmap[t] \ {c} ELSE tmap[t]
      BY <2>1
    <3>3. CASE d = c
      BY <2>2, <2>4, <3>1, <3>2, <3>3
    <3>4. CASE d # c
      BY <2>3, <3>1, <3>2, <3>4
    <3> QED
      BY <3>3, <3>4
  <2>6. CASE r.keep = {} /\ sub[c].mons = {}
    <3>1. mmap' = Orphaned(c, mmap) /\ smap' = smap \ {c} /\ sub'[c] = NoSub
      BY <2>0, <2>1, <2>6
    <3>2. LiveRefs(mmap, smap)
      BY DEF LiveRefs, OnlyRegistered
    <3>3. LiveRefs(mmap', smap')
      BY <3>1, <3>2, OrphanedRefs DEF TypeOK
    <3>4. \A d \in Conns \ smap' : sub'[d] = NoSub
      BY <2>3, <3>1 DEF OnlyRegistered
    <3> QED
      BY <2>3, <2>5, <3>1, <3>3, <3>4 DEF OnlyRegistered, LiveRefs
  <2>7. CASE ~(r.keep = {} /\ sub[c].mons = {})
    <3>1. UNCHANGED <<smap, mmap>>
      BY <2>1, <2>7
    <3>2. sub'[c] = [sub[c] EXCEPT !.subs = r.keep,
                                   !.bufr = Filter(log, sub[c].bufr, r.drop)]
      BY <2>0, <2>1, <2>7
    <3>3. sub'[c].note = sub[c].note /\ sub'[c].rev = sub[c].rev
      BY <2>0, <3>2 DEF Subscriber
    <3>4. sub'[c].bufr = Filter(log, sub[c].bufr, r.drop)
      BY <2>0, <3>2 DEF Subscriber
    <3>5. \A e \in 1..MaxEvents : sub'[c].bufr[e] > 0 => sub[c].bufr[e] > 0
      BY <3>4 DEF Filter
    <3>6. \A d \in Conns \ smap' : sub'[d] = NoSub
      BY <1>2, <2>3, <3>1 DEF OnlyRegistered
    <3> QED
      BY <2>3, <2>5, <3>1, <3>3, <3>5, <3>6 DEF OnlyRegistered
  <2> QED
    BY <2>6, <2>7
<1> QED
  BY <1>1, <1>2

LEMMA MonRegistered ==
    ASSUME TypeOK, OnlyRegistered, NEW c \in Conns, NEW watch \in SUBSET Sigs,
           sub[c].monid < MaxMons, Mon(c, watch)
    PROVE  /\ OnlyRegistered'
           /\ smap \subseteq smap'
           /\ \A d \in Conns : /\ sub'[d].note = sub[d].note /\ sub'[d].rev = sub[d].rev
                               /\ sub'[d].bufr = sub[d].bufr
<1> DEFINE id == sub[c].monid + 1
           m  == [id |-> id, watch |-> watch, bufr |-> {}]
           ref == [conn |-> c, id |-> id, live |-> TRUE]
<1>1. sub[c] \in Subscriber /\ sub \in [Conns -> Subscriber] /\ mmap \in [Sigs -> Seq(MonRef)]
  BY DEF TypeOK
<1>2. sub' = [sub EXCEPT ![c] = [sub[c] EXCEPT !.monid = id, !.mons = sub[c].mons \cup {m}]]
  BY <1>1 DEF Mon
<1>3. /\ smap' = smap \cup {c} /\ tmap' = tmap
      /\ mmap' = [g \in Sigs |-> IF g \in watch THEN Append(mmap[g], ref) ELSE mmap[g]]
  BY DEF Mon
<1>4. ref.conn = c /\ ref \in MonRef
  BY <1>1, BoundsAssumption DEF MonRef, Subscriber
<1> HIDE DEF id, m, ref
<1>5. \A d \in Conns : /\ sub'[d].note = sub[d].note /\ sub'[d].rev = sub[d].rev
                       /\ sub'[d].bufr = sub[d].bufr /\ sub'[d].subs = sub[d].subs
                       /\ d # c => sub'[d] = sub[d]
  BY <1>1, <1>2 DEF Subscriber
<1>6. ASSUME NEW g \in Sigs, NEW i \in DOMAIN mmap'[g], mmap'[g][i].live
      PROVE  mmap'[g][i].conn \in smap'
  <2>1. mmap[g] \in Seq(MonRef) /\ DOMAIN mmap[g] = 1..Len(mmap[g]) /\ Len(mmap[g]) \in Nat
    BY <1>1, LenProperties
  <2>2. CASE g \in watch
    <3>1. mmap'[g] = Append(mmap[g], ref)
      BY <1>3, <2>2
    <3>2. i \in 1..(Len(mmap[g]) + 1)
      BY <1>4, <1>6, <2>1, <3>1, AppendProperties, LenProperties
    <3>3. CASE i = Len(mmap[g]) + 1
      BY <1>3, <1>4, <2>1, <3>1, <3>3, AppendProperties
    <3>4. CASE i \in 1..Len(mmap[g])
      <4>1. mmap'[g][i] = mmap[g][i]
        BY <1>4, <2>1, <3>1, <3>4, AppendProperties
      <4> QED
        BY <1>3, <1>6, <2>1, <3>4, <4>1 DEF OnlyRegistered
    <3> QED
      BY <2>1, <3>2, <3>3, <3>4
  <2>3. CASE g \notin watch
    BY <1>3, <1>6, <2>3 DEF OnlyRegistered
  <2> QED
    BY <2>2, <2>3
<1> QED
  BY <1>3, <1>5, <1>6 DEF OnlyRegistered

LEMMA UnmonRegistered ==
    ASSUME TypeOK, OnlyRegistered, NEW c \in Conns, NEW id, Unmon(c, id)
    PROVE  /\ OnlyRegistered'
           /\ smap' \subseteq smap
           /\ \A d \in Conns :
                \/ sub'[d] = NoSub
                \/ /\ sub'[d].note = sub[d].note /\ sub'[d].rev = sub[d].rev
                   /\ sub'[d].bufr = sub[d].bufr
<1>1. CASE c \notin smap \/ \A m \in sub[c].mons : m.id # id
  BY <1>1 DEF Unmon, subsVars, OnlyRegistered
<1>2. CASE c \in smap /\ \E m \in sub[c].mons : m.id = id
  <2> DEFINE m    == CHOOSE m \in sub[c].mons : m.id = id
             left == sub[c].mons \ {m}
             map  == [g \in Sigs |->
                         IF g \in m.watch THEN DropMon(mmap[g], id) ELSE mmap[g]]
  <2>1. sub[c] \in Subscriber /\ sub \in [Conns -> Subscriber] /\ mmap \in [Sigs -> Seq(MonRef)]
    BY DEF TypeOK
  <2>2. map \in [Sigs -> Seq(MonRef)]
    BY <2>1, DropMonProperties
  <2>3. LiveRefs(map, smap)
    <3> SUFFICES ASSUME NEW g \in Sigs, NEW i \in DOMAIN map[g], map[g][i].live
                 PROVE  map[g][i].conn \in smap
      BY DEF LiveRefs
    <3>0. mmap[g] \in Seq(MonRef) /\ (map[g] = mmap[g] \/ map[g] = DropMon(mmap[g], id))
      BY <2>1
    <3>1. \E j \in DOMAIN mmap[g] : map[g][i] = mmap[g][j]
      <4>1. CASE map[g] = mmap[g]
        BY <4>1
      <4>2. CASE map[g] = DropMon(mmap[g], id)
        <5> HIDE DEF map
        <5> QED
          BY <3>0, <4>2, DropMonProperties
      <4> QED
        BY <3>0, <4>1, <4>2
    <3> QED
      BY <3>1 DEF OnlyRegistered
  <2>4. /\ IF left = {} /\ sub[c].subs = {}
           THEN /\ smap' = smap \ {c}
                /\ sub'  = [sub EXCEPT ![c] = NoSub]
                /\ mmap' = Orphaned(c, map)
           ELSE /\ sub'  = [sub EXCEPT ![c].mons = left]
                /\ mmap' = map
                /\ UNCHANGED smap
        /\ UNCHANGED tmap
    BY <1>2 DEF Unmon
  <2> HIDE DEF m, left, map
  <2>5. CASE left = {} /\ sub[c].subs = {}
    <3>1. /\ smap' = smap \ {c} /\ tmap' = tmap /\ mmap' = Orphaned(c, map)
          /\ sub' = [sub EXCEPT ![c] = NoSub]
      BY <2>4, <2>5
    <3>2. LiveRefs(mmap', smap')
      BY <2>2, <2>3, <3>1, OrphanedRefs
    <3>3. sub'[c].subs = {} /\ sub'[c] = NoSub /\ \A d \in Conns \ {c} : sub'[d] = sub[d]
      BY <2>1, <3>1 DEF NoSub
    <3> QED
      BY <2>5, <3>1, <3>2, <3>3 DEF OnlyRegistered, LiveRefs
  <2>6. CASE ~(left = {} /\ sub[c].subs = {})
    <3>1. /\ sub' = [sub EXCEPT ![c] = [sub[c] EXCEPT !.mons = left]]
          /\ UNCHANGED <<smap, tmap>> /\ mmap' = map
      BY <2>4, <2>6
    <3>2. \A d \in Conns : /\ sub'[d].note = sub[d].note /\ sub'[d].rev = sub[d].rev
                           /\ sub'[d].bufr = sub[d].bufr /\ sub'[d].subs = sub[d].subs
                           /\ d # c => sub'[d] = sub[d]
      BY <2>1, <3>1 DEF Subscriber
    <3> QED
      BY <1>2, <2>3, <3>1, <3>2 DEF OnlyRegistered, LiveRefs
  <2> QED
    BY <2>5, <2>6
<1> QED
  BY <1>1, <1>2

-----------------------------------------------------------------------------
(* What is pending, and what a trigger guarantees. *)

\* Pending for a subscriber s and a ledger lg, to speak of both states of a step.
PendingIn(s, lg) ==
    s.note \/ \E e \in 1..Len(lg) : s.bufr[e] > 0 /\ lg[e].rev > s.rev

LEMMA PendingDef ==
    \A c : (Pending(c) <=> PendingIn(sub[c], log)) /\ (Pending(c)' <=> PendingIn(sub'[c], log'))
  BY DEF Pending, PendingIn, Fresh

\* A connection without a subscriber has nothing pending.
LEMMA NoSubIdle ==
    ASSUME TypeOK PROVE ~PendingIn(NoSub, log) /\ \A e \in 1..MaxEvents : NoSub.bufr[e] = 0
  BY BoundsAssumption DEF PendingIn, NoSub, NoEvents, TypeOK

\* Show changes nothing for a connection without a subscriber; where it adds
\* an event or a note it asks for a broadcast.
LEMMA ShownPending ==
    ASSUME TypeOK, OnlyRegistered, NEW lg, NEW new, NEW from, NEW c \in Conns,
           \A e \in new : lg[e] \in Events
    PROVE  LET s == Shown(lg, new, from)[c]
           IN  /\ \A e \in 1..MaxEvents : s.bufr[e] > 0 => e \in new \/ sub[c].bufr[e] > 0
               /\ \A e \in 1..MaxEvents : c = from => s.bufr[e] = sub[c].bufr[e]
               /\ ~Trigger(lg, new, from) => s.note = sub[c].note /\ s.bufr = sub[c].bufr
               /\ c \notin smap => s = NoSub
<1> DEFINE s    == Shown(lg, new, from)[c]
           bufr == [e \in 1..MaxEvents |->
                       IF e \in new /\ c # from /\ c \in tmap[lg[e].act.top]
                       THEN sub[c].bufr[e] + 1 ELSE sub[c].bufr[e]]
           mons == {[m EXCEPT !.bufr = @ \cup Noticed(lg, new, c, m.id)] : m \in sub[c].mons}
           seen == \E e \in new : \E r \in Watchers(lg[e].act) : r.conn = c /\ r.live
           note == sub[c].note \/ seen
<1>1. sub[c] \in Subscriber /\ sub[c].bufr \in [1..MaxEvents -> Nat]
  BY DEF TypeOK, Subscriber, Bufr
<1>2. s = [sub[c] EXCEPT !.bufr = bufr, !.mons = mons, !.note = note]
  BY DEF Shown
<1>3. s.bufr = bufr /\ s.note = note /\ s.mons = mons /\ s.rev = sub[c].rev
      /\ s.subs = sub[c].subs /\ s.monid = sub[c].monid
  <2> HIDE DEF bufr, note, mons, s
  <2> QED
    BY <1>1, <1>2 DEF Subscriber
<1>4. \A e \in new : lg[e].act.top \in Topics
  BY DEF Events, Actions
<1>5. ASSUME ~Trigger(lg, new, from) PROVE note = sub[c].note /\ bufr = sub[c].bufr
  <2>1. \A e \in new : Watchers(lg[e].act) = {} /\ tmap[lg[e].act.top] \ {from} = {}
    BY <1>5 DEF Trigger
  <2>2. note = sub[c].note
    BY <1>1, <2>1 DEF Subscriber
  <2>3. bufr = sub[c].bufr
    <3>1. \A e \in 1..MaxEvents : bufr[e] = sub[c].bufr[e]
      BY <2>1
    <3>2. bufr = [e \in 1..MaxEvents |-> bufr[e]]
      OBVIOUS
    <3> HIDE DEF bufr
    <3> QED
      BY <1>1, <3>1, <3>2
  <2> QED
    BY <2>2, <2>3
<1>6. ASSUME c \notin smap PROVE s = NoSub
  <2>1. sub[c] = NoSub /\ \A t \in Topics : c \notin tmap[t]
    <3>1. sub[c] = NoSub
      BY <1>6 DEF OnlyRegistered
    <3>2. sub[c].subs = {}
      BY <3>1 DEF NoSub
    <3> QED
      BY <3>1, <3>2 DEF OnlyRegistered
  <2>2. ~seen
    <3> SUFFICES ASSUME NEW e \in new, NEW r \in Watchers(lg[e].act), r.conn = c, r.live
                 PROVE  FALSE
      OBVIOUS
    <3>1. Sig(lg[e].act) \in Sigs /\ NewSig(lg[e].act) \in Sigs
      BY DEF Events, Actions, Sig, NewSig, Sigs
    <3>2. \E g \in Sigs : \E i \in DOMAIN mmap[g] : r = mmap[g][i]
      BY <3>1 DEF Watchers
    <3> QED
      BY <1>6, <3>2 DEF OnlyRegistered
  <2>3. bufr = NoEvents /\ mons = {} /\ note = FALSE
    <3>1. sub[c].note = FALSE /\ sub[c].mons = {} /\ sub[c].bufr = NoEvents
      BY <2>1 DEF NoSub
    <3>2. note = FALSE /\ mons = {}
      BY <2>2, <3>1
    <3>3. \A e \in 1..MaxEvents : bufr[e] = NoEvents[e]
      BY <1>4, <2>1, <3>1
    <3> QED
      BY <3>2, <3>3 DEF NoEvents
  <2> HIDE DEF bufr, mons, note, s
  <2>4. s = [NoSub EXCEPT !.bufr = NoEvents, !.mons = {}, !.note = FALSE]
    BY <1>2, <2>1, <2>3
  <2> QED
    BY <2>4 DEF NoSub
<1>7. \A e \in 1..MaxEvents : bufr[e] > 0 => e \in new \/ sub[c].bufr[e] > 0
  BY <1>1
<1>8. \A e \in 1..MaxEvents : c = from => bufr[e] = sub[c].bufr[e]
  BY <1>1
<1> HIDE DEF bufr, note
<1> QED
  BY <1>3, <1>5, <1>6, <1>7, <1>8 DEF s

\* Btrig keeps every broadcast on its way and, asked to, leaves one on its way.
LEMMA BtrigArmed ==
    ASSUME TypeOK, WindowArmed, NEW trig \in BOOLEAN, Btrig(trig)
    PROVE  /\ WindowArmed'
           /\ Armed => Armed'
           /\ trig /\ ~stopped => Armed'
           /\ UNCHANGED <<bcast, stopped>>
<1>1. timers \in Nat /\ queued \in Nat
  BY DEF TypeOK
<1> QED
  BY <1>1 DEF Btrig, WindowArmed, Armed

\* A step that leaves the ledger, the triggers and the satellite alone and
\* makes nothing pending keeps the invariant.
LEMMA QuietStep ==
    ASSUME TriggerInv, UNCHANGED <<log, ctrlVars>>, SatAhead',
           OnlyRegistered', BuffersLogged',
           \A c \in smap' : PendingIn(sub'[c], log) => c \in smap /\ PendingIn(sub[c], log)
    PROVE  TriggerInv'
<1>1. log' = log /\ UNCHANGED <<bcast, window, timers, queued, stopped>>
  BY DEF ctrlVars
<1>2. LedgerLeads' /\ WindowArmed'
  BY <1>1 DEF TriggerInv, LedgerLeads, WindowArmed
<1>3. NoLostTrigger'
  <2> SUFFICES ASSUME ~stopped', NEW c \in smap', Pending(c)'
               PROVE  Armed' /\ bcast' < Rev(log)'
    BY DEF NoLostTrigger
  <2>1. c \in smap /\ Pending(c)
    BY <1>1, PendingDef
  <2>2. Armed /\ bcast < Rev(log)
    BY <1>1, <2>1 DEF TriggerInv, NoLostTrigger
  <2> QED
    BY <1>1, <2>2 DEF Armed
<1> QED
  BY <1>2, <1>3 DEF TriggerInv

-----------------------------------------------------------------------------
(* Each step keeps TriggerInv. *)

\* After Ctrl.sub nothing is pending that was not pending before it: the new
\* subscription is either answered up to date or left as it was.
LEMMA SubscribeRegistered ==
    ASSUME TypeOK, NEW c \in Conns, NEW r \in Nat, NEW tops \in SUBSET Topics,
           NEW subs \in [Conns -> Subscriber],
           OnlyRegistered, \A d \in Conns : subs[d].subs = sub[d].subs,
           \A d \in Conns \ smap : subs[d] = NoSub,
           \A e \in 1..Len(log) : log[e].rev <= Rev(log),
           \A d \in Conns : \A e \in 1..MaxEvents : subs[d].bufr[e] > 0 => e <= Len(log),
           Subscribe(c, r, tops, subs)
    PROVE  /\ OnlyRegistered' /\ smap \subseteq smap'
           /\ \A d \in Conns : PendingIn(sub'[d], log) => PendingIn(subs[d], log)
           /\ \A d \in Conns : \A e \in 1..MaxEvents : sub'[d].bufr[e] > 0 => e <= Len(log)
<1> DEFINE s     == subs[c]
           fresh == tops \ s.subs
           s1    == [s EXCEPT !.subs = @ \cup fresh]
           b2    == Plus(s.bufr, Once(EventsSince(log, r, fresh)))
           s2    == [s1 EXCEPT !.bufr = b2]
           rev   == Rev(log)
<1>1. s \in Subscriber /\ s.bufr \in [1..MaxEvents -> Nat] /\ fresh \subseteq Topics
  BY DEF Subscriber, Bufr
<1>2. rev \in Nat /\ log \in Seq(Events) /\ Len(log) \in Nat
  BY RevNat, LenProperties DEF TypeOK
<1>3. /\ smap' = IF tops = {} THEN smap ELSE smap \cup {c}
      /\ tmap' = [t \in Topics |-> IF t \in fresh THEN tmap[t] \cup {c} ELSE tmap[t]]
      /\ mmap' = mmap
  BY DEF Subscribe, Sub
<1>4. \/ fresh = {} /\ sub' = subs
      \/ sub' = [subs EXCEPT ![c] = Update(s2, rev)]
      \/ sub' = [subs EXCEPT ![c] = s1]
  BY DEF Subscribe, Sub
<1>5. s1 \in Subscriber /\ s1.bufr = s.bufr /\ s1.note = s.note /\ s1.rev = s.rev
      /\ s1.subs = s.subs \cup fresh
  BY <1>1 DEF Subscriber
<1>6. b2 \in Bufr /\ \A e \in 1..MaxEvents : b2[e] > 0 => e <= Len(log)
  <2>1. b2 \in Bufr
    BY <1>1, BufrType DEF Bufr
  <2>2. \A e \in EventsSince(log, r, fresh) : e <= Len(log)
    BY <1>2 DEF EventsSince
  <2>3. \A e \in 1..MaxEvents : s.bufr[e] \in Nat /\ (s.bufr[e] > 0 => e <= Len(log))
    BY <1>1
  <2>4. \A e \in 1..MaxEvents : b2[e] = s.bufr[e] + (IF e \in EventsSince(log, r, fresh) THEN 1 ELSE 0)
    BY DEF Plus, Once
  <2>5. ASSUME NEW e \in 1..MaxEvents, b2[e] > 0 PROVE e <= Len(log)
    <3> HIDE DEF b2, s
    <3>1. CASE e \in EventsSince(log, r, fresh)
      BY <2>2, <3>1
    <3>2. CASE e \notin EventsSince(log, r, fresh)
      BY <2>3, <2>4, <2>5, <3>2
    <3> QED
      BY <3>1, <3>2
  <2> QED
    BY <2>1, <2>5
<1> HIDE DEF b2
<1>7. s2 \in Subscriber /\ s2.bufr = b2 /\ s2.note = s.note /\ s2.rev = s.rev
      /\ s2.subs = s.subs \cup fresh
  <2> HIDE DEF s1
  <2> QED
    BY <1>5, <1>6 DEF Subscriber
<1> HIDE DEF s, s1, s2, fresh, rev
<1> DEFINE u == Update(s2, rev)
<1>8. /\ u.subs = s.subs \cup fresh
      /\ ~PendingIn(u, log)
      /\ \A e \in 1..MaxEvents : u.bufr[e] > 0 => e <= Len(log)
  <2>1. CASE Answers(s2, rev)
    <3>1. u.bufr = NoEvents /\ u.note = FALSE /\ u.subs = s2.subs
      BY <1>2, <1>7, <2>1, UpdateProperties
    <3>2. \A e \in 1..MaxEvents : u.bufr[e] = 0
      BY <3>1 DEF NoEvents
    <3> HIDE DEF u
    <3>3. \A e \in 1..Len(log) : e \in 1..MaxEvents
      BY <1>2, InBounds DEF TypeOK
    <3> QED
      BY <1>7, <3>1, <3>2, <3>3 DEF PendingIn
  <2>2. CASE ~Answers(s2, rev)
    <3>1. u = s2 /\ s2.note = FALSE /\ ~(rev > s2.rev) /\ s2.rev \in Nat
      BY <1>7, <2>2 DEF Update, Answers, Subscriber
    <3>2. \A e \in 1..Len(log) : log[e].rev \in Nat /\ log[e].rev <= rev
      BY <1>2, EventRevs DEF rev
    <3>3. ~PendingIn(s2, log)
      BY <1>2, <3>1, <3>2 DEF PendingIn
    <3> QED
      BY <1>6, <1>7, <3>1, <3>3
  <2> QED
    BY <2>1, <2>2
<1> HIDE DEF u
<1>9. /\ \A d \in Conns \ {c} : sub'[d] = subs[d]
      /\ sub'[c].subs = s.subs \cup fresh
      /\ PendingIn(sub'[c], log) => PendingIn(s, log)
      /\ \A e \in 1..MaxEvents : sub'[c].bufr[e] > 0 => e <= Len(log)
  <2>1. CASE fresh = {} /\ sub' = subs
    BY <2>1 DEF s
  <2>2. CASE sub' = [subs EXCEPT ![c] = u]
    BY <1>8, <2>2
  <2>3. CASE sub' = [subs EXCEPT ![c] = s1]
    BY <1>5, <2>3 DEF PendingIn, s
  <2> QED
    BY <1>4, <2>1, <2>2, <2>3 DEF u
<1>10. \A d \in Conns, t \in Topics : d \in tmap'[t] <=> t \in sub'[d].subs
  <2> SUFFICES ASSUME NEW d \in Conns, NEW t \in Topics
               PROVE  d \in tmap'[t] <=> t \in sub'[d].subs
    OBVIOUS
  <2>1. d \in tmap[t] <=> t \in subs[d].subs
    BY DEF OnlyRegistered
  <2>2. tmap'[t] = IF t \in fresh THEN tmap[t] \cup {c} ELSE tmap[t]
    BY <1>3
  <2>3. CASE d = c
    BY <1>9, <2>1, <2>2, <2>3 DEF s
  <2>4. CASE d # c
    BY <1>9, <2>1, <2>2, <2>4
  <2> QED
    BY <2>3, <2>4
<1>11. \A d \in Conns \ smap' : sub'[d] = NoSub
  <2> SUFFICES ASSUME NEW d \in Conns \ smap' PROVE sub'[d] = NoSub
    OBVIOUS
  <2>1. d \notin smap /\ (d = c => tops = {})
    BY <1>3
  <2>2. d = c => sub' = subs
    BY <1>4, <2>1, Zenon DEF Subscribe, Sub, fresh
  <2> QED
    BY <1>9, <2>1, <2>2
<1>12. \A g \in Sigs : \A i \in DOMAIN mmap'[g] : mmap'[g][i].live => mmap'[g][i].conn \in smap'
  BY <1>3 DEF OnlyRegistered
<1>13. OnlyRegistered'
  BY <1>10, <1>11, <1>12 DEF OnlyRegistered
<1> QED
  BY <1>3, <1>9, <1>13 DEF s

LEMMA PubTrigger ==
    ASSUME TypeOK, TriggerInv, NEW c \in Conns, NEW acts \in Transs, NEW now \in Nows,
           Pub(c, acts, now)
    PROVE  TriggerInv'
<1> DEFINE old   == Rev(log)
           next  == Published(log, acts, now)
           new   == (Len(log) + 1)..Len(next)
           shown == Shown(next, new, c)
           s     == shown[c]
           flush == Unsent(s)
           s1    == IF flush THEN Update(s, old) ELSE s
           s2    == IF Rev(next) > s1.rev THEN [s1 EXCEPT !.rev = Rev(next)] ELSE s1
<1>1. log \in Seq(Events) /\ old \in Nat /\ Len(log) \in Nat
  BY RevNat, LenProperties DEF TypeOK
<1>2. acts \in Seq(Actions) /\ acts # << >> /\ now \in Nat
  BY ServerAssumption DEF ActionLists
<1>3. /\ next \in Seq(Events)
      /\ Len(next) > Len(log) /\ Len(next) \in Nat
      /\ \A e \in 1..Len(log) : next[e] = log[e]
      /\ \A e \in (Len(log) + 1)..Len(next) : next[e].rev = Rev(next)
      /\ Rev(next) > old /\ Rev(next) \in Nat
  BY <1>1, <1>2, PublishedLog, LenProperties
<1>4. /\ log' = next /\ Len(next) <= MaxEvents
      /\ sub' = [shown EXCEPT ![c] = IF c \notin smap THEN NoSub ELSE s2]
      /\ Btrig(Trigger(next, new, c))
      /\ UNCHANGED <<smap, tmap, mmap, sat>> /\ Idle
  BY DEF Pub, Serves
<1> HIDE DEF next
<1>5. \A e \in new : next[e] \in Events /\ e \notin 1..Len(log)
  BY <1>1, <1>3, ElementOfSeq
<1>6. shown \in [Conns -> Subscriber]
      /\ \A d \in Conns : shown[d].rev = sub[d].rev /\ shown[d].subs = sub[d].subs
  <2> HIDE DEF new
  <2>1. sub \in [Conns -> Subscriber] /\ \A e \in new : next[e] \in Events
    BY <1>5 DEF TypeOK
  <2> QED
    BY <2>1, ShownProperties
<1>7. OnlyRegistered /\ LedgerLeads /\ WindowArmed /\ BuffersLogged
  BY DEF TriggerInv
<1>8. \A d \in Conns :
         /\ \A e \in 1..MaxEvents : shown[d].bufr[e] > 0 => e \in new \/ sub[d].bufr[e] > 0
         /\ ~Trigger(next, new, c) => shown[d].note = sub[d].note /\ shown[d].bufr = sub[d].bufr
         /\ d \notin smap => shown[d] = NoSub
  BY <1>5, <1>7, ShownPending
<1> HIDE DEF new, shown
<1>9. s1 \in Subscriber /\ s1.subs = s.subs /\ s1.note = FALSE
      /\ \A e \in 1..MaxEvents : s1.bufr[e] > 0 => s.bufr[e] > 0
  <2>1. s \in Subscriber
    BY <1>6
  <2> HIDE DEF s
  <2>2. CASE ~flush
    <3>1. s1 = s /\ s.note = FALSE
      BY <2>1, <2>2 DEF Unsent, Subscriber
    <3> QED
      BY <2>1, <3>1
  <2>3. CASE flush /\ Answers(s, old)
    <3>1. s1 \in Subscriber /\ s1.subs = s.subs /\ s1.note = FALSE /\ s1.bufr = NoEvents
      BY <1>1, <2>1, <2>3, UpdateProperties
    <3>2. \A e \in 1..MaxEvents : s1.bufr[e] = 0
      BY <3>1 DEF NoEvents
    <3> HIDE DEF s1
    <3> QED
      BY <3>1, <3>2
  <2>4. CASE flush /\ ~Answers(s, old)
    <3>1. s1 = s /\ s.note = FALSE
      BY <2>1, <2>4 DEF Update, Answers, Subscriber
    <3> QED
      BY <2>1, <3>1
  <2> QED
    BY <2>2, <2>3, <2>4
<1> HIDE DEF s1
<1>10. s2 \in Subscriber /\ s2.subs = s.subs /\ s2.note = FALSE /\ s2.bufr = s1.bufr
       /\ s2.rev >= Rev(next)
  <2> HIDE DEF s
  <2> QED
    BY <1>3, <1>9 DEF Subscriber
<1> HIDE DEF s2
<1>11. \A e \in 1..Len(next) : next[e].rev \in Nat /\ next[e].rev <= Rev(next)
  <2> SUFFICES ASSUME NEW e \in 1..Len(next)
               PROVE  next[e].rev \in Nat /\ next[e].rev <= Rev(next)
    OBVIOUS
  <2>1. next[e].rev \in Nat
    BY <1>3, EventRevs
  <2>2. CASE e \in 1..Len(log)
    BY <1>1, <1>3, <1>7, <2>1, <2>2 DEF LedgerLeads
  <2>3. CASE e \in (Len(log) + 1)..Len(next)
    BY <1>3, <2>3
  <2> QED
    BY <1>1, <1>3, <2>1, <2>2, <2>3
<1>12. sub'[c] = (IF c \notin smap THEN NoSub ELSE s2)
       /\ \A d \in Conns \ {c} : sub'[d] = shown[d]
  BY <1>4, <1>6
<1>13. \A d \in Conns : sub'[d].subs = sub[d].subs
  <2>1. c \notin smap => sub[c] = NoSub
    BY <1>7 DEF OnlyRegistered
  <2> QED
    BY <1>6, <1>10, <1>12, <2>1 DEF s
<1>14. OnlyRegistered'
  <2>1. \A d \in Conns \ smap' : sub'[d] = NoSub
    BY <1>4, <1>8, <1>12
  <2> QED
    BY <1>4, <1>7, <1>13, <2>1 DEF OnlyRegistered
<1>15. \A d \in Conns : \A e \in 1..MaxEvents : sub'[d].bufr[e] > 0 =>
          shown[d].bufr[e] > 0
  <2>1. \A e \in 1..MaxEvents : NoSub.bufr[e] = 0
    BY NoSubIdle
  <2> QED
    BY <1>9, <1>10, <1>12, <2>1 DEF s
<1>16. \A d \in Conns : \A e \in 1..MaxEvents : sub'[d].bufr[e] > 0 =>
          e \in new \/ e <= Len(log)
  BY <1>7, <1>8, <1>15 DEF BuffersLogged
<1>17. BuffersLogged'
  BY <1>1, <1>3, <1>4, <1>16 DEF BuffersLogged, new
<1>18. /\ WindowArmed' /\ (Armed => Armed') /\ UNCHANGED <<bcast, stopped>>
       /\ Trigger(next, new, c) /\ ~stopped => Armed'
  BY <1>4, <1>7, BtrigArmed DEF Trigger
<1>19. bcast \in Nat /\ bcast < Rev(next)
  BY <1>1, <1>3, <1>7 DEF LedgerLeads, TypeOK
<1>20. LedgerLeads'
  BY <1>3, <1>4, <1>11, <1>18, <1>19 DEF LedgerLeads
<1>21. ~PendingIn(sub'[c], next)
  <2>1. CASE c \in smap
    <3>1. s2.rev \in Nat
      BY <1>10 DEF Subscriber
    <3> QED
      BY <1>3, <1>10, <1>11, <1>12, <2>1, <3>1 DEF PendingIn
  <2>2. CASE c \notin smap
    <3>1. \A e \in 1..Len(next) : e \in 1..MaxEvents
      BY <1>3, <1>4, BoundsAssumption
    <3> QED
      BY <1>12, <2>2, <3>1 DEF PendingIn, NoSub, NoEvents
  <2> QED
    BY <2>1, <2>2
<1>22. ASSUME NEW d \in Conns, PendingIn(sub'[d], next), ~Trigger(next, new, c)
       PROVE  PendingIn(sub[d], log)
  <2>1. sub'[d] = shown[d] /\ shown[d].note = sub[d].note /\ shown[d].bufr = sub[d].bufr
        /\ shown[d].rev = sub[d].rev
    BY <1>6, <1>8, <1>12, <1>21, <1>22
  <2>2. \A e \in 1..Len(next) : sub[d].bufr[e] > 0 => e \in 1..Len(log) /\ next[e] = log[e]
    <3>1. \A e \in 1..Len(next) : e \in 1..MaxEvents
      BY <1>3, <1>4, InBounds
    <3>2. \A e \in 1..Len(next) : sub[d].bufr[e] > 0 => e <= Len(log)
      BY <1>7, <3>1 DEF BuffersLogged
    <3> QED
      BY <1>1, <1>3, <3>2
  <2> QED
    BY <1>22, <2>1, <2>2 DEF PendingIn
<1>23. NoLostTrigger'
  <2> SUFFICES ASSUME ~stopped', NEW d \in smap', Pending(d)'
               PROVE  Armed' /\ bcast' < Rev(log)'
    BY DEF NoLostTrigger
  <2>1. d \in smap /\ d \in Conns /\ PendingIn(sub'[d], next)
    BY <1>4, PendingDef DEF TypeOK
  <2>2. CASE Trigger(next, new, c)
    BY <1>4, <1>18, <1>19, <2>2
  <2>3. CASE ~Trigger(next, new, c)
    <3>1. Pending(d)
      BY <1>22, <2>1, <2>3, PendingDef
    <3>2. Armed
      BY <1>18, <2>1, <3>1 DEF TriggerInv, NoLostTrigger
    <3> QED
      BY <1>4, <1>18, <1>19, <3>2
  <2> QED
    BY <2>2, <2>3
<1>24. SatAhead'
  BY <1>4 DEF SatAhead, Idle
<1> QED
  BY <1>14, <1>17, <1>18, <1>20, <1>23, <1>24 DEF TriggerInv

\* The satellite steps before its events are shown: they are ahead of every
\* broadcast and reach no buffer.
LEMMA SatTrigger ==
    ASSUME TypeOK, TriggerInv,
           \/ \E c, batch, r, tops : SatBegin(c, batch, r, tops)
           \/ \E now \in Nows : SatPublish(now)
           \/ SatFails
    PROVE  TriggerInv'
<1>1. log \in Seq(Events) /\ Len(log) \in Nat
  BY LenProperties DEF TypeOK
<1>2. OnlyRegistered /\ LedgerLeads /\ WindowArmed /\ BuffersLogged /\ SatAhead
  BY DEF TriggerInv
<1>3. UNCHANGED <<sub, smap, tmap, mmap, bcast, window, timers, queued, stopped>>
  BY DEF SatBegin, SatPublish, SatFails, subsVars, ctrlVars
<1>4. OnlyRegistered' /\ WindowArmed' /\ (Armed <=> Armed')
  BY <1>2, <1>3 DEF OnlyRegistered, WindowArmed, Armed
<1>5. ASSUME log' = log, SatAhead' PROVE TriggerInv'
  <2>1. BuffersLogged'
    BY <1>2, <1>3, <1>5 DEF BuffersLogged
  <2> QED
    BY <1>3, <1>4, <1>5, <2>1, QuietStep DEF ctrlVars, TriggerInv
<1>6. ASSUME NEW c, NEW batch, NEW r, NEW tops, SatBegin(c, batch, r, tops)
      PROVE  TriggerInv'
  <2>1. log' = log /\ sat'.from = Len(log)
    BY <1>6 DEF SatBegin
  <2>2. SatAhead'
    BY <1>1, <2>1 DEF SatAhead
  <2> QED
    BY <1>5, <2>1, <2>2
<1>7. ASSUME SatFails PROVE TriggerInv'
  <2>1. log' = log /\ SatAhead'
    BY <1>7 DEF SatFails, SatAhead, Idle
  <2> QED
    BY <1>5, <2>1
<1>8. ASSUME NEW now \in Nows, SatPublish(now) PROVE TriggerInv'
  <2> DEFINE acts == Head(sat.batch)
             next == Published(log, acts, now)
  <2>1. sat \in SatReqs /\ sat.batch \in Seq(ActionLists) /\ sat.batch # << >>
        /\ sat.from \in Nat /\ now \in Nat
    <3>1. sat \in SatReqs
      BY <1>8 DEF SatPublish, Idle, TypeOK
    <3> QED
      BY <1>8, <3>1, BoundsAssumption, ServerAssumption DEF SatReqs, SatPublish
  <2>2. acts \in Seq(Actions) /\ acts # << >>
    BY <2>1, HeadTailProperties DEF ActionLists
  <2>3. log' = next /\ sat' = [sat EXCEPT !.batch = Tail(@)] /\ ~Idle
        /\ Len(log) + Len(acts) <= MaxEvents
    BY <1>8 DEF SatPublish
  <2> HIDE DEF acts
  <2>4. /\ next \in Seq(Events)
        /\ Len(next) = Len(log) + Len(acts) /\ Len(next) > Len(log)
        /\ \A e \in 1..Len(log) : next[e] = log[e]
        /\ \A e \in (Len(log) + 1)..Len(next) : next[e].rev = Rev(next)
        /\ Rev(next) > Rev(log) /\ Rev(next) \in Nat
    BY <1>1, <2>1, <2>2, PublishedLog
  <2>5. Len(next) \in Nat /\ Len(next) <= MaxEvents /\ \A e \in 1..Len(next) : e \in 1..MaxEvents
    BY <2>3, <2>4, InBounds, LenProperties
  <2> HIDE DEF next
  <2>6. bcast \in Nat /\ bcast < Rev(next) /\ Rev(log) \in Nat
    BY <1>1, <1>2, <2>4, RevNat DEF LedgerLeads, TypeOK
  <2>7. \A e \in 1..Len(next) : next[e].rev <= Rev(next)
    <3> SUFFICES ASSUME NEW e \in 1..Len(next) PROVE next[e].rev <= Rev(next)
      OBVIOUS
    <3>1. next[e].rev \in Nat
      BY <2>4, EventRevs
    <3>2. CASE e \in 1..Len(log)
      BY <1>2, <2>4, <2>6, <3>1, <3>2 DEF LedgerLeads
    <3>3. CASE e \in (Len(log) + 1)..Len(next)
      BY <2>4, <3>1, <3>3
    <3> QED
      BY <1>1, <2>5, <3>2, <3>3
  <2>8. LedgerLeads'
    BY <1>3, <2>3, <2>4, <2>6, <2>7 DEF LedgerLeads
  <2>9. BuffersLogged'
    BY <1>1, <1>2, <1>3, <2>3, <2>4, <2>5 DEF BuffersLogged
  <2>10. SatAhead'
    <3>1. sat.from <= Len(log)
      BY <1>2, <2>3 DEF SatAhead
    <3>2. sat'.from = sat.from
      BY <2>1, <2>3 DEF SatReqs
    <3> QED
      BY <1>1, <1>3, <2>1, <2>3, <2>4, <2>5, <2>6, <3>1, <3>2 DEF SatAhead
  <2>11. NoLostTrigger'
    <3> SUFFICES ASSUME ~stopped', NEW d \in smap', Pending(d)'
                 PROVE  Armed' /\ bcast' < Rev(log)'
      BY DEF NoLostTrigger
    <3>1. d \in smap /\ d \in Conns /\ PendingIn(sub[d], next)
      BY <1>3, <2>3, PendingDef DEF TypeOK
    <3>2. \A e \in 1..Len(next) : sub[d].bufr[e] > 0 => e \in 1..Len(log) /\ next[e] = log[e]
      BY <1>1, <1>2, <2>4, <2>5, <3>1 DEF BuffersLogged
    <3>3. Pending(d)
      BY <3>1, <3>2, PendingDef DEF PendingIn
    <3>4. Armed
      BY <1>3, <3>1, <3>3 DEF TriggerInv, NoLostTrigger
    <3> QED
      BY <1>3, <1>4, <2>3, <2>6, <3>4
  <2> QED
    BY <1>4, <2>8, <2>9, <2>10, <2>11 DEF TriggerInv
<1> QED
  BY <1>6, <1>7, <1>8

LEMMA SatEndTrigger ==
    ASSUME TypeOK, TriggerInv, NEW c \in Conns, SatEnd(c)
    PROVE  TriggerInv'
<1> DEFINE new   == (sat.from + 1)..Len(log)
           shown == Shown(log, new, c)
<1>1. log \in Seq(Events) /\ Len(log) \in Nat /\ Rev(log) \in Nat
  BY RevNat, LenProperties DEF TypeOK
<1>2. OnlyRegistered /\ LedgerLeads /\ WindowArmed /\ BuffersLogged /\ SatAhead
  BY DEF TriggerInv
<1>3. /\ ~Idle /\ sat' = NoSat /\ log' = log
      /\ Btrig(Trigger(log, new, c))
      /\ Subscribe(c, sat.rev, sat.tops, shown)
  BY DEF SatEnd
<1>4. sat.rev \in Nat /\ sat.tops \in SUBSET Topics /\ sat.from \in Nat
  <2>1. sat \in SatReqs
    BY <1>3 DEF Idle, TypeOK
  <2> QED
    BY <2>1, BoundsAssumption DEF SatReqs
<1>5. \A e \in new : log[e] \in Events /\ e \in 1..Len(log)
  BY <1>1, <1>4, EventRevs
<1>6. shown \in [Conns -> Subscriber]
      /\ \A d \in Conns : shown[d].rev = sub[d].rev /\ shown[d].subs = sub[d].subs
  <2> HIDE DEF new
  <2>1. sub \in [Conns -> Subscriber] /\ \A e \in new : log[e] \in Events
    BY <1>5 DEF TypeOK
  <2> QED
    BY <2>1, ShownProperties
<1>7. \A d \in Conns :
         /\ \A e \in 1..MaxEvents : shown[d].bufr[e] > 0 => e \in new \/ sub[d].bufr[e] > 0
         /\ ~Trigger(log, new, c) => shown[d].note = sub[d].note /\ shown[d].bufr = sub[d].bufr
         /\ d \notin smap => shown[d] = NoSub
  <2> HIDE DEF new
  <2>1. \A e \in new : log[e] \in Events
    BY <1>5
  <2> QED
    BY <1>2, <2>1, ShownPending
<1> HIDE DEF shown
<1>8. \A d \in Conns : \A e \in 1..MaxEvents : shown[d].bufr[e] > 0 => e <= Len(log)
  BY <1>1, <1>2, <1>5, <1>7 DEF BuffersLogged
<1>9. /\ OnlyRegistered' /\ smap \subseteq smap'
      /\ \A d \in Conns : PendingIn(sub'[d], log) => PendingIn(shown[d], log)
      /\ \A d \in Conns : \A e \in 1..MaxEvents : sub'[d].bufr[e] > 0 => e <= Len(log)
  <2>1. \A d \in Conns : shown[d].subs = sub[d].subs
    BY <1>6
  <2>2. \A d \in Conns \ smap : shown[d] = NoSub
    BY <1>7
  <2>3. \A e \in 1..Len(log) : log[e].rev <= Rev(log)
    BY <1>2 DEF LedgerLeads
  <2> QED
    BY <1>2, <1>3, <1>4, <1>6, <1>8, <2>1, <2>2, <2>3, SubscribeRegistered
<1>10. /\ WindowArmed' /\ (Armed => Armed') /\ UNCHANGED <<bcast, stopped>>
       /\ Trigger(log, new, c) /\ ~stopped => Armed'
  BY <1>2, <1>3, BtrigArmed DEF Trigger
<1>11. LedgerLeads' /\ BuffersLogged' /\ SatAhead'
  BY <1>2, <1>3, <1>9, <1>10 DEF LedgerLeads, BuffersLogged, SatAhead, Idle
<1>12. NoLostTrigger'
  <2> SUFFICES ASSUME ~stopped', NEW d \in smap', Pending(d)'
               PROVE  Armed' /\ bcast' < Rev(log)'
    BY DEF NoLostTrigger
  <2>1. d \in Conns /\ PendingIn(shown[d], log)
    <3>1. smap' \subseteq Conns
      BY <1>2, <1>3, <1>6, <1>9 DEF Subscribe, Sub, TypeOK
    <3> QED
      BY <1>3, <1>9, <3>1, PendingDef
  <2>2. CASE Trigger(log, new, c)
    <3>1. \E e \in new : TRUE
      BY <2>2 DEF Trigger
    <3>2. sat.from < Len(log)
      BY <1>1, <1>4, <3>1
    <3>3. bcast < Rev(log)
      BY <1>2, <1>3, <3>2 DEF SatAhead
    <3> QED
      BY <1>3, <1>10, <2>2, <3>3
  <2>3. CASE ~Trigger(log, new, c)
    <3>1. d \in smap
      BY <2>1, <1>7, NoSubIdle
    <3>2. Pending(d)
      BY <1>6, <1>7, <2>1, <2>3, PendingDef DEF PendingIn
    <3>3. Armed /\ bcast < Rev(log)
      BY <1>10, <3>1, <3>2 DEF TriggerInv, NoLostTrigger
    <3> QED
      BY <1>3, <1>10, <3>3
  <2> QED
    BY <2>2, <2>3
<1> QED
  BY <1>9, <1>10, <1>11, <1>12 DEF TriggerInv

\* A broadcast leaves nothing pending, and one skipped had nothing to send.
LEMMA BcastTrigger ==
    ASSUME TypeOK, TriggerInv, HandleBcast
    PROVE  TriggerInv'
<1> DEFINE rev == Rev(log)
           takes(c) == Due(rev) /\ c \in smap /\ Answers(sub[c], rev)
<1>1. log \in Seq(Events) /\ Len(log) \in Nat /\ rev \in Nat /\ bcast \in Nat
  BY RevNat, LenProperties DEF TypeOK
<1>2. OnlyRegistered /\ LedgerLeads /\ WindowArmed /\ BuffersLogged /\ Idle
  BY DEF TriggerInv, HandleBcast
<1>3. /\ sub' = [c \in Conns |-> IF takes(c) THEN Update(sub[c], rev) ELSE sub[c]]
      /\ bcast' = IF Due(rev) THEN rev ELSE bcast
      /\ queued > 0 /\ queued' = queued - 1
      /\ UNCHANGED <<log, smap, tmap, mmap, window, timers, stopped, sat>>
  BY DEF HandleBcast
<1>4. \A c \in Conns : sub[c] \in Subscriber
  BY DEF TypeOK
<1>5. ASSUME NEW c \in Conns
      PROVE  /\ sub'[c].subs = sub[c].subs
             /\ \A e \in 1..MaxEvents : sub'[c].bufr[e] > 0 => sub[c].bufr[e] > 0
             /\ c \notin smap => sub'[c] = sub[c]
             /\ Due(rev) /\ c \in smap => ~PendingIn(sub'[c], log)
             /\ ~Due(rev) => sub'[c] = sub[c]
  <2>1. CASE takes(c)
    <3>1. sub'[c] = Update(sub[c], rev) /\ Answers(sub[c], rev)
      BY <1>3, <2>1
    <3>2. sub'[c].subs = sub[c].subs /\ sub'[c].bufr = NoEvents /\ sub'[c].note = FALSE
      <4>1. sub[c] \in Subscriber
        BY <1>4
      <4>2. /\ Update(sub[c], rev).subs = sub[c].subs
            /\ Update(sub[c], rev).bufr = NoEvents /\ Update(sub[c], rev).note = FALSE
        BY <1>1, <3>1, <4>1, UpdateProperties
      <4> QED
        BY <3>1, <4>2
    <3>3. \A e \in 1..MaxEvents : sub'[c].bufr[e] = 0
      BY <3>2 DEF NoEvents
    <3>4. \A e \in 1..Len(log) : e \in 1..MaxEvents
      BY <1>1, InBounds DEF TypeOK
    <3> QED
      BY <2>1, <3>2, <3>3, <3>4 DEF PendingIn
  <2>2. CASE ~takes(c)
    <3>1. sub'[c] = sub[c]
      BY <1>3, <2>2
    <3>2. ASSUME Due(rev), c \in smap PROVE ~PendingIn(sub[c], log)
      <4>1. sub[c].note = FALSE /\ sub[c].rev \in Nat /\ sub[c].rev >= rev
        BY <1>1, <1>4, <2>2, <3>2 DEF Answers, Subscriber
      <4>2. \A e \in 1..Len(log) : log[e].rev \in Nat /\ log[e].rev <= rev
        BY <1>1, <1>2, EventRevs DEF LedgerLeads
      <4> QED
        BY <1>1, <4>1, <4>2 DEF PendingIn
    <3> QED
      BY <3>1, <3>2
  <2> QED
    BY <2>1, <2>2
<1> HIDE DEF takes
<1>6. OnlyRegistered'
  <2>1. \A c \in Conns, t \in Topics : c \in tmap'[t] <=> t \in sub'[c].subs
    BY <1>2, <1>3, <1>5 DEF OnlyRegistered
  <2>2. \A c \in Conns \ smap' : sub'[c] = NoSub
    BY <1>2, <1>3, <1>5 DEF OnlyRegistered
  <2> QED
    BY <1>2, <1>3, <2>1, <2>2 DEF OnlyRegistered
<1>7. BuffersLogged'
  BY <1>2, <1>3, <1>5 DEF BuffersLogged
<1>8. LedgerLeads' /\ WindowArmed' /\ SatAhead'
  BY <1>1, <1>2, <1>3 DEF LedgerLeads, WindowArmed, SatAhead, Idle
<1>9. NoLostTrigger'
  <2> SUFFICES ASSUME ~stopped', NEW c \in smap', Pending(c)'
               PROVE  FALSE
    BY DEF NoLostTrigger
  <2>1. c \in smap /\ c \in Conns /\ PendingIn(sub'[c], log)
    BY <1>3, PendingDef DEF TypeOK
  <2>2. ~Due(rev) /\ Pending(c)
    BY <1>5, <2>1, PendingDef
  <2>3. bcast < rev
    BY <1>3, <2>1, <2>2 DEF TriggerInv, NoLostTrigger
  <2> QED
    BY <1>1, <2>2, <2>3 DEF Due
<1> QED
  BY <1>6, <1>7, <1>8, <1>9 DEF TriggerInv

\* Every step keeps TriggerInv.
LEMMA TriggerStep == ASSUME TypeOK, TriggerInv, [Next]_vars PROVE TriggerInv'
<1>0. /\ OnlyRegistered /\ LedgerLeads /\ WindowArmed /\ BuffersLogged /\ SatAhead
      /\ log \in Seq(Events) /\ KnownRevs \subseteq Nat
      /\ \A e \in 1..Len(log) : e \in 1..MaxEvents
  <2>1. log \in Seq(Events) /\ Len(log) \in Nat /\ Len(log) <= MaxEvents
    BY LenProperties DEF TypeOK
  <2>2. KnownRevs \subseteq Nat
    BY <2>1, EventRevs DEF KnownRevs
  <2> QED
    BY <2>1, <2>2, InBounds DEF TriggerInv
<1>1. ASSUME NEW c \in Conns, NEW r \in KnownRevs, NEW tops \in SUBSET Topics,
             SubReq(c, r, tops)
      PROVE  TriggerInv'
  <2>1. Subscribe(c, r, tops, sub) /\ UNCHANGED <<log, ctrlVars, sat>> /\ r \in Nat
    BY <1>0, <1>1 DEF SubReq
  <2>2. sub \in [Conns -> Subscriber] /\ \A d \in Conns \ smap : sub[d] = NoSub
    BY <1>0 DEF OnlyRegistered, TypeOK
  <2>3. \A d \in Conns : sub[d].subs = sub[d].subs
    OBVIOUS
  <2>4. \A e \in 1..Len(log) : log[e].rev <= Rev(log)
    BY <1>0 DEF LedgerLeads
  <2>5. \A d \in Conns : \A e \in 1..MaxEvents : sub[d].bufr[e] > 0 => e <= Len(log)
    BY <1>0 DEF BuffersLogged
  <2>6. /\ OnlyRegistered'
        /\ \A d \in Conns : PendingIn(sub'[d], log) => PendingIn(sub[d], log)
        /\ \A d \in Conns : \A e \in 1..MaxEvents : sub'[d].bufr[e] > 0 => e <= Len(log)
    BY <1>0, <2>1, <2>2, <2>3, <2>4, <2>5, SubscribeRegistered
  <2>7. BuffersLogged' /\ SatAhead'
    BY <1>0, <2>1, <2>6 DEF BuffersLogged, SatAhead, Idle, ctrlVars
  <2>8. \A d \in smap' : PendingIn(sub'[d], log) => d \in smap /\ PendingIn(sub[d], log)
    <3>1. smap' \subseteq Conns
      BY <2>1 DEF Subscribe, Sub, TypeOK
    <3> QED
      BY <2>2, <2>6, <3>1, NoSubIdle
  <2> QED
    BY <2>1, <2>6, <2>7, <2>8, QuietStep
<1>2. ASSUME NEW c \in Conns, NEW tops \in SUBSET Topics, Unsub(log, c, tops),
             UNCHANGED <<log, ctrlVars, sat>>
      PROVE  TriggerInv'
  <2>1. /\ OnlyRegistered' /\ smap' \subseteq smap
        /\ \A d \in Conns :
             \/ sub'[d] = NoSub
             \/ /\ sub'[d].note = sub[d].note /\ sub'[d].rev = sub[d].rev
                /\ \A e \in 1..MaxEvents : sub'[d].bufr[e] > 0 => sub[d].bufr[e] > 0
    BY <1>0, <1>2, UnsubRegistered
  <2>2. \A e \in 1..MaxEvents : NoSub.bufr[e] = 0
    BY NoSubIdle
  <2>3. BuffersLogged' /\ SatAhead'
    BY <1>0, <1>2, <2>1, <2>2 DEF BuffersLogged, SatAhead, Idle, ctrlVars
  <2>4. \A d \in smap' : PendingIn(sub'[d], log) => d \in smap /\ PendingIn(sub[d], log)
    <3> SUFFICES ASSUME NEW d \in smap', PendingIn(sub'[d], log)
                 PROVE  PendingIn(sub[d], log)
      BY <2>1
    <3>1. d \in Conns /\ sub'[d] # NoSub
      BY <2>1, NoSubIdle DEF TypeOK
    <3> QED
      BY <1>0, <2>1, <3>1 DEF PendingIn
  <2> QED
    BY <1>2, <2>1, <2>3, <2>4, QuietStep
<1>3. ASSUME NEW c \in Conns, NEW watch \in Watches, MonReq(c, watch)
      PROVE  TriggerInv'
  <2>1. watch \in SUBSET Sigs /\ UNCHANGED <<log, ctrlVars, sat>>
    BY <1>3, ServerAssumption DEF MonReq
  <2>2. /\ OnlyRegistered'
        /\ \A d \in Conns : /\ sub'[d].note = sub[d].note /\ sub'[d].rev = sub[d].rev
                            /\ sub'[d].bufr = sub[d].bufr
    BY <1>0, <1>3, <2>1, MonRegistered DEF MonReq
  <2>3. BuffersLogged' /\ SatAhead'
    BY <1>0, <2>1, <2>2 DEF BuffersLogged, SatAhead, Idle, ctrlVars
  <2>4. \A d \in smap' : PendingIn(sub'[d], log) => d \in smap /\ PendingIn(sub[d], log)
    <3>1. \A d \in Conns : PendingIn(sub'[d], log) => PendingIn(sub[d], log)
      BY <2>2 DEF PendingIn
    <3>2. smap' \subseteq Conns
      BY <1>3 DEF MonReq, Mon, TypeOK
    <3>3. \A d \in Conns \ smap : ~PendingIn(sub[d], log)
      BY <1>0, NoSubIdle DEF OnlyRegistered
    <3> QED
      BY <3>1, <3>2, <3>3
  <2> QED
    BY <2>1, <2>2, <2>3, <2>4, QuietStep
<1>4. ASSUME NEW c \in Conns, NEW id, UnmonReq(c, id)
      PROVE  TriggerInv'
  <2>1. UNCHANGED <<log, ctrlVars, sat>>
    BY <1>4 DEF UnmonReq
  <2>2. /\ OnlyRegistered' /\ smap' \subseteq smap
        /\ \A d \in Conns :
             \/ sub'[d] = NoSub
             \/ /\ sub'[d].note = sub[d].note /\ sub'[d].rev = sub[d].rev
                /\ sub'[d].bufr = sub[d].bufr
    BY <1>0, <1>4, UnmonRegistered DEF UnmonReq
  <2>3. \A e \in 1..MaxEvents : NoSub.bufr[e] = 0
    BY NoSubIdle
  <2>4. BuffersLogged' /\ SatAhead'
    BY <1>0, <2>1, <2>2, <2>3 DEF BuffersLogged, SatAhead, Idle, ctrlVars
  <2>5. \A d \in smap' : PendingIn(sub'[d], log) => d \in smap /\ PendingIn(sub[d], log)
    <3> SUFFICES ASSUME NEW d \in smap', PendingIn(sub'[d], log)
                 PROVE  PendingIn(sub[d], log)
      BY <2>2
    <3>1. d \in Conns /\ sub'[d] # NoSub
      BY <2>2, NoSubIdle DEF TypeOK
    <3> QED
      BY <2>2, <3>1 DEF PendingIn
  <2> QED
    BY <2>1, <2>2, <2>4, <2>5, QuietStep
<1>5. ASSUME UNCHANGED <<log, sub, smap, tmap, mmap, bcast, sat>>,
             WindowArmed', Armed => Armed', stopped => stopped'
      PROVE  TriggerInv'
  <2>1. OnlyRegistered' /\ LedgerLeads' /\ BuffersLogged' /\ SatAhead'
    BY <1>0, <1>5 DEF OnlyRegistered, LedgerLeads, BuffersLogged, SatAhead, Idle
  <2>2. NoLostTrigger'
    <3> SUFFICES ASSUME ~stopped', NEW d \in smap', Pending(d)'
                 PROVE  Armed' /\ bcast' < Rev(log)'
      BY DEF NoLostTrigger
    <3>1. d \in smap /\ Pending(d)
      BY <1>5, PendingDef
    <3> QED
      BY <1>5, <3>1 DEF TriggerInv, NoLostTrigger
  <2> QED
    BY <1>5, <2>1, <2>2 DEF TriggerInv
<1>6. ASSUME NEW c \in Conns, NEW subj, Unknown(c, subj)
      PROVE  TriggerInv'
  BY <1>0, <1>5, <1>6 DEF Unknown, subsVars, ctrlVars, WindowArmed, Armed
<1>7. ASSUME UNCHANGED vars
      PROVE  TriggerInv'
  BY <1>0, <1>5, <1>7 DEF vars, subsVars, ctrlVars, WindowArmed, Armed
<1>8. timers \in Nat /\ queued \in Nat
  BY DEF TypeOK
<1>9. ASSUME WindowCloses
      PROVE  TriggerInv'
  <2>1. UNCHANGED <<log, sub, smap, tmap, mmap, bcast, sat, timers, queued, stopped>> /\ ~window'
    BY <1>9 DEF WindowCloses, subsVars
  <2>2. WindowArmed' /\ (Armed => Armed') /\ (stopped => stopped')
    BY <2>1 DEF WindowArmed, Armed
  <2> QED
    BY <1>5, <2>1, <2>2
<1>10. ASSUME TimerFires
       PROVE  TriggerInv'
  <2>1. /\ UNCHANGED <<log, sub, smap, tmap, mmap, bcast, sat, window, stopped>>
        /\ timers > (IF window /\ ~stopped THEN 1 ELSE 0)
        /\ timers' = timers - 1 /\ queued' = queued + 1
    BY <1>10 DEF TimerFires, subsVars
  <2>2. WindowArmed' /\ Armed' /\ (stopped => stopped')
    BY <1>8, <2>1 DEF WindowArmed, Armed
  <2> QED
    BY <1>5, <2>1, <2>2
<1>11. ASSUME HandleBtrig
       PROVE  TriggerInv'
  <2>1. UNCHANGED <<log, sub, smap, tmap, mmap, sat>> /\ Btrig(TRUE)
    BY <1>11 DEF HandleBtrig, subsVars
  <2>2. WindowArmed' /\ (Armed => Armed') /\ UNCHANGED <<bcast, stopped>>
    BY <1>0, <2>1, BtrigArmed
  <2> QED
    BY <1>5, <2>1, <2>2
<1>12. ASSUME Stop
       PROVE  TriggerInv'
  <2>1. UNCHANGED <<log, sub, smap, tmap, mmap, bcast, sat>> /\ stopped'
    BY <1>12 DEF Stop, subsVars
  <2>2. OnlyRegistered' /\ LedgerLeads' /\ BuffersLogged' /\ SatAhead'
    BY <1>0, <2>1 DEF OnlyRegistered, LedgerLeads, BuffersLogged, SatAhead, Idle
  <2> QED
    BY <2>1, <2>2 DEF TriggerInv, WindowArmed, NoLostTrigger
<1>13. ASSUME NEW c \in Conns, NEW tops \in SUBSET Topics, UnsubReq(c, tops)
       PROVE  TriggerInv'
  BY <1>2, <1>13 DEF UnsubReq
<1>14. ASSUME NEW c \in Conns, Signoff(c)
       PROVE  TriggerInv'
  BY <1>2, <1>14 DEF Signoff
<1> QED
  BY <1>1, <1>3, <1>4, <1>6, <1>7, <1>9, <1>10, <1>11, <1>12, <1>13, <1>14,
     PubTrigger, SatTrigger, SatEndTrigger, BcastTrigger DEF Next

LEMMA TriggerInit == ASSUME Init PROVE TriggerInv
<1>1. log = << >> /\ Rev(log) = 0 /\ bcast = 0 /\ ~window /\ Idle
  BY DEF Init, Rev, Idle
<1>2. smap = {} /\ \A c \in Conns : sub[c] = NoSub
  BY DEF Init, SubscribersInit
<1>3. OnlyRegistered
  BY <1>2 DEF Init, SubscribersInit, OnlyRegistered, NoSub
<1>4. BuffersLogged
  <2>1. \A e \in 1..MaxEvents : NoSub.bufr[e] = 0
    BY DEF NoSub, NoEvents
  <2> QED
    BY <1>2, <2>1 DEF BuffersLogged
<1> QED
  BY <1>1, <1>2, <1>3, <1>4 DEF TriggerInv, LedgerLeads, WindowArmed, SatAhead, NoLostTrigger

\* As long as the server is not stopped, a subscriber with undelivered notes or
\* newer events always has a broadcast on its way.
THEOREM NoTriggerLost == Spec => []NoLostTrigger
<1>1. TriggerInv => NoLostTrigger
  BY DEF TriggerInv
<1>2. TypeOK /\ TriggerInv /\ [Next]_vars => TriggerInv'
  BY TriggerStep
<1> QED
  BY <1>1, <1>2, TriggerInit, TypeCorrect, PTL DEF Spec

\* What reaches a subscriber by topic or by monitor is registered, a topic
\* reaches exactly the subscribers that hold it, in every behaviour.
THEOREM RegistryConsistent == Spec => [](OnlyRegistered /\ BuffersLogged)
<1>1. TriggerInv => OnlyRegistered /\ BuffersLogged
  BY DEF TriggerInv
<1>2. TypeOK /\ TriggerInv /\ [Next]_vars => TriggerInv'
  BY TriggerStep
<1> QED
  BY <1>1, <1>2, TriggerInit, TypeCorrect, PTL DEF Spec

\* The whole strengthening holds in every behaviour: broadcasts lag behind the
\* ledger, an open window has its timer, buffers hold logged events only, the
\* registry reaches nobody who left it, and no trigger is lost.
THEOREM TriggerAlways == Spec => []TriggerInv
<1>1. TypeOK /\ TriggerInv /\ [Next]_vars => TriggerInv'
  BY TriggerStep
<1> QED
  BY <1>1, TriggerInit, TypeCorrect, PTL DEF Spec
=============================================================================
