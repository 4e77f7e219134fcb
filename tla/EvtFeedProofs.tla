---------------------------- MODULE EvtFeedProofs ----------------------------
(***************************************************************************)
(* Proofs about what the clients of the event server are sent, for all     *)
(* connections, topics, transactions, clocks and bounds.                   *)
(*                                                                         *)
(* The first part says what each operation does to the subscriber and the  *)
(* client's history of one connection; every invariant after it is proved  *)
(* from these effects.  The last part is that the server implements the    *)
(* feed it promises (EventFeed).                                           *)
(***************************************************************************)
EXTENDS EvtServerProofs, FiniteSetTheorems

\* What event e adds to a count when it is one of es.
One(es, e) == IF e \in es THEN 1 ELSE 0

LEMMA OneNat == \A es, e : One(es, e) \in {0, 1}
  BY DEF One

LEMMA BufrNat ==
    /\ \A b \in Bufr : \A e \in 1..MaxEvents : b[e] \in Nat
    /\ \A a, b : \A e \in 1..MaxEvents : Plus(a, b)[e] = a[e] + b[e]
    /\ \A es : \A e \in 1..MaxEvents : Once(es)[e] = One(es, e)
    /\ \A e \in 1..MaxEvents : NoEvents[e] = 0
  BY DEF Bufr, Plus, Once, One, NoEvents

LEMMA BufrEqual ==
    ASSUME NEW a \in Bufr, NEW b \in Bufr, \A e \in 1..MaxEvents : a[e] = b[e]
    PROVE  a = b
<1>1. /\ a = [e \in 1..MaxEvents |-> a[e]]
      /\ b = [e \in 1..MaxEvents |-> b[e]]
  BY DEF Bufr
<1>2. [e \in 1..MaxEvents |-> a[e]] = [e \in 1..MaxEvents |-> b[e]]
  OBVIOUS
<1> QED
  BY <1>1, <1>2

\* A subscriber's buffer is one.
LEMMA SubscriberParts ==
    \A s \in Subscriber : s.bufr \in Bufr /\ s.rev \in Nat /\ s.subs \subseteq Topics
  BY DEF Subscriber

\* What Update does to a subscriber, with whether it has monitors at all.
LEMMA UpdateEffect ==
    ASSUME NEW s \in Subscriber, NEW rev \in Nat
    PROVE  LET u == Update(s, rev)
           IN  /\ u \in Subscriber /\ u.subs = s.subs /\ (u.mons = {} <=> s.mons = {})
               /\ u.rev = IF rev > s.rev THEN rev ELSE s.rev
               /\ u.bufr = IF Answers(s, rev) THEN NoEvents ELSE s.bufr
               /\ Answers(s, rev) => u.note = FALSE
               /\ Carried(s, rev) = IF Answers(s, rev) THEN s.bufr ELSE NoEvents
               /\ \A e \in 1..MaxEvents : Carried(s, rev)[e] + u.bufr[e] = s.bufr[e]
<1> DEFINE u == Update(s, rev)
<1>1. CASE ~Answers(s, rev)
  <2>1. u = s /\ ~(rev > s.rev) /\ Carried(s, rev) = NoEvents
    BY <1>1 DEF Update, Answers, Carried
  <2> QED
    BY <1>1, <2>1, BufrNat, SubscriberParts
<1>2. CASE Answers(s, rev)
  <2> DEFINE mons == IF s.note THEN {[m EXCEPT !.bufr = {}] : m \in s.mons} ELSE s.mons
             r    == IF rev > s.rev THEN rev ELSE s.rev
  <2>1. u = [s EXCEPT !.rev = r, !.bufr = NoEvents, !.mons = mons, !.note = FALSE]
    BY <1>2 DEF Update
  <2>2. mons = {} <=> s.mons = {}
    OBVIOUS
  <2> HIDE DEF mons, r
  <2>3. u.subs = s.subs /\ u.rev = r /\ u.bufr = NoEvents /\ u.note = FALSE /\ u.mons = mons
    BY <2>1 DEF Subscriber
  <2>4. u \in Subscriber
    BY UpdateProperties
  <2>5. Carried(s, rev) = s.bufr
    BY <1>2 DEF Carried
  <2>6. \A e \in 1..MaxEvents : s.bufr[e] + 0 = s.bufr[e] /\ NoEvents[e] = 0
    BY BufrNat, SubscriberParts
  <2> QED
    BY <1>2, <2>2, <2>3, <2>4, <2>5, <2>6 DEF r
<1> QED
  BY <1>1, <1>2

\* What Show does to a subscriber: only the buffers of the others grow.
LEMMA ShownEffect ==
    ASSUME TypeOK, NEW lg, NEW new, NEW from, \A e \in new : lg[e] \in Events
    PROVE  \A d \in Conns :
              LET s == Shown(lg, new, from)[d]
              IN  /\ s \in Subscriber /\ s.rev = sub[d].rev /\ s.subs = sub[d].subs
                  /\ s.mons = {} <=> sub[d].mons = {}
                  /\ \A e \in 1..MaxEvents :
                       s.bufr[e] = sub[d].bufr[e]
                           + One({f \in new : d # from /\ d \in tmap[lg[f].act.top]}, e)
<1> SUFFICES ASSUME NEW d \in Conns
             PROVE  LET s == Shown(lg, new, from)[d]
                    IN  /\ s \in Subscriber /\ s.rev = sub[d].rev /\ s.subs = sub[d].subs
                        /\ s.mons = {} <=> sub[d].mons = {}
                        /\ \A e \in 1..MaxEvents :
                             s.bufr[e] = sub[d].bufr[e]
                                 + One({f \in new : d # from /\ d \in tmap[lg[f].act.top]}, e)
  OBVIOUS
<1> DEFINE bufr == [e \in 1..MaxEvents |->
                       IF e \in new /\ d # from /\ d \in tmap[lg[e].act.top]
                       THEN sub[d].bufr[e] + 1 ELSE sub[d].bufr[e]]
           mons == {[m EXCEPT !.bufr = @ \cup Noticed(lg, new, d, m.id)] : m \in sub[d].mons}
           note == sub[d].note \/ \E e \in new : \E r \in Watchers(lg[e].act) :
                                      r.conn = d /\ r.live
           s    == Shown(lg, new, from)[d]
<1>1. sub[d] \in Subscriber /\ sub[d].bufr \in Bufr
  BY DEF TypeOK, Subscriber
<1>2. s \in Subscriber /\ s.rev = sub[d].rev /\ s.subs = sub[d].subs
  BY ShownProperties DEF TypeOK
<1>3. s = [sub[d] EXCEPT !.bufr = bufr, !.mons = mons, !.note = note]
  BY DEF Shown
<1>4. mons = {} <=> sub[d].mons = {}
  OBVIOUS
<1>5. \A e \in 1..MaxEvents :
         bufr[e] = sub[d].bufr[e] + One({f \in new : d # from /\ d \in tmap[lg[f].act.top]}, e)
  BY <1>1, BufrNat DEF One
<1> HIDE DEF bufr, mons, note
<1>6. s.bufr = bufr /\ s.mons = mons
  BY <1>1, <1>3 DEF Subscriber
<1> QED
  BY <1>2, <1>4, <1>5, <1>6

-----------------------------------------------------------------------------
(* The effect of each operation on the connections. *)

\* What connection d's client sees and what waits for it.
Untouched(d) == /\ sub'[d] = sub[d] /\ got'[d] = got[d]
                /\ mark'[d] = mark[d] /\ since'[d] = since[d]

\* A publication: the others' buffers grow, the sender is answered with its own
\* events after what its buffer held.
LEMMA PubEffect ==
    ASSUME TypeOK, OnlyRegistered, NEW c \in Conns, NEW acts \in Transs, NEW now \in Nows,
           Pub(c, acts, now)
    PROVE  LET old == Rev(log)
               new == (Len(log) + 1)..Len(log')
           IN  /\ Idle /\ log' = Published(log, acts, now) /\ log \in Seq(Events)
               /\ acts \in Seq(Actions) /\ acts # << >> /\ now \in Nat
               /\ UNCHANGED <<smap, tmap, sat, since, gone>>
               /\ \A d \in Conns \ {c} :
                    /\ sub'[d].rev = sub[d].rev /\ sub'[d].subs = sub[d].subs
                    /\ sub'[d].mons = {} <=> sub[d].mons = {}
                    /\ got'[d] = got[d] /\ mark'[d] = mark[d]
                    /\ \A e \in 1..MaxEvents :
                         sub'[d].bufr[e] = sub[d].bufr[e]
                             + One({f \in new : d \in tmap[log'[f].act.top]}, e)
               /\ sub'[c].subs = sub[c].subs /\ (sub'[c].mons = {} <=> sub[c].mons = {})
               /\ mark'[c] = Rev(log')
               /\ sub[c].rev <= old => sub'[c].rev <= Rev(log')
               /\ \A e \in 1..MaxEvents :
                    /\ got'[c][e] + sub'[c].bufr[e] = got[c][e] + sub[c].bufr[e] + One(new, e)
                    /\ sub'[c].bufr[e] \in {0, sub[c].bufr[e]}
                    /\ sub'[c].bufr[e] > 0 => ~(old > sub[c].rev)
<1> DEFINE old   == Rev(log)
           next  == Published(log, acts, now)
           new   == (Len(log) + 1)..Len(next)
           shown == Shown(next, new, c)
           s     == shown[c]
           s1    == IF Unsent(s) THEN Update(s, old) ELSE s
           s2    == IF c \notin smap THEN NoSub
                    ELSE IF Rev(next) > s1.rev THEN [s1 EXCEPT !.rev = Rev(next)] ELSE s1
           sent  == IF Unsent(s) THEN Plus(got[c], Carried(s, old)) ELSE got[c]
<1>1. log \in Seq(Events) /\ acts \in Seq(Actions) /\ acts # << >> /\ now \in Nat
  BY ServerAssumption DEF TypeOK, ActionLists
<1>2. next \in Seq(Events) /\ Rev(next) \in Nat /\ old \in Nat /\ Rev(next) > old
  BY <1>1, PublishedLog, RevNat
<1>3. \A e \in new : next[e] \in Events
  <2>1. Len(log) \in Nat /\ Len(next) \in Nat
    BY <1>1, <1>2, LenProperties
  <2>2. \A e \in new : e \in 1..Len(next)
    BY <2>1
  <2> QED
    BY <1>2, <2>2, ElementOfSeq
<1>4. /\ Idle /\ log' = next
      /\ UNCHANGED <<smap, tmap, sat, since, gone>>
      /\ sub' = [shown EXCEPT ![c] = s2]
      /\ got' = [got EXCEPT ![c] = Plus(Once(new), sent)]
      /\ mark' = [mark EXCEPT ![c] = Rev(next)]
  BY DEF Pub, Serves, TypeOK
<1> HIDE DEF next
<1>5. shown \in [Conns -> Subscriber]
  BY <1>3, ShownProperties DEF TypeOK
<1>6. \A d \in Conns :
        /\ shown[d] \in Subscriber /\ shown[d].rev = sub[d].rev /\ shown[d].subs = sub[d].subs
        /\ shown[d].mons = {} <=> sub[d].mons = {}
        /\ \A e \in 1..MaxEvents :
             shown[d].bufr[e] = sub[d].bufr[e]
                 + One({f \in new : d # c /\ d \in tmap[next[f].act.top]}, e)
  BY <1>3, ShownEffect
<1> HIDE DEF shown, new
<1>7. ASSUME NEW d \in Conns \ {c}
      PROVE  /\ sub'[d].rev = sub[d].rev /\ sub'[d].subs = sub[d].subs
             /\ sub'[d].mons = {} <=> sub[d].mons = {}
             /\ got'[d] = got[d] /\ mark'[d] = mark[d]
             /\ \A e \in 1..MaxEvents :
                  sub'[d].bufr[e] = sub[d].bufr[e]
                      + One({f \in new : d \in tmap[next[f].act.top]}, e)
  <2>1. sub'[d] = shown[d] /\ got'[d] = got[d] /\ mark'[d] = mark[d]
    BY <1>4, <1>5 DEF TypeOK
  <2>2. {f \in new : d # c /\ d \in tmap[next[f].act.top]}
          = {f \in new : d \in tmap[next[f].act.top]}
    OBVIOUS
  <2> QED
    BY <1>6, <2>1, <2>2
<1>8. s \in Subscriber /\ s.rev = sub[c].rev /\ s.subs = sub[c].subs /\ s.bufr = sub[c].bufr
      /\ (s.mons = {} <=> sub[c].mons = {})
  <2>1. \A e \in 1..MaxEvents : s.bufr[e] = sub[c].bufr[e]
    <3>1. \A e \in 1..MaxEvents :
             One({f \in new : c # c /\ c \in tmap[next[f].act.top]}, e) = 0
      BY DEF One
    <3>2. \A e \in 1..MaxEvents : sub[c].bufr[e] \in Nat
      BY BufrNat, SubscriberParts DEF TypeOK
    <3> QED
      BY <1>6, <3>1, <3>2
  <2>2. s.bufr \in Bufr /\ sub[c].bufr \in Bufr
    BY <1>6, SubscriberParts DEF TypeOK
  <2>3. s.bufr = sub[c].bufr
    BY <2>1, <2>2, BufrEqual
  <2> QED
    BY <1>6, <2>3
<1> HIDE DEF s
<1>9. /\ s1 \in Subscriber /\ s1.subs = s.subs /\ (s1.mons = {} <=> s.mons = {})
      /\ s1.rev = s.rev \/ s1.rev = old
      /\ s1.bufr = s.bufr \/ s1.bufr = NoEvents
      /\ old > s.rev => s1.bufr = NoEvents
  <2>1. CASE Unsent(s)
    <3>1. old > s.rev => Answers(s, old)
      BY DEF Answers
    <3>2. s1 = Update(s, old)
      BY <2>1
    <3> HIDE DEF s1, old
    <3> QED
      BY <1>2, <1>8, <3>1, <3>2, UpdateEffect DEF old
  <2>2. CASE ~Unsent(s)
    BY <1>8, <2>2 DEF Unsent
  <2> QED
    BY <2>1, <2>2
<1>10. \A e \in 1..MaxEvents :
         sent[e] + s1.bufr[e] = got[c][e] + s.bufr[e] /\ sent[e] \in Nat
  <2> SUFFICES ASSUME NEW e \in 1..MaxEvents
               PROVE  sent[e] + s1.bufr[e] = got[c][e] + s.bufr[e] /\ sent[e] \in Nat
    OBVIOUS
  <2>0. got[c][e] \in Nat /\ s.bufr[e] \in Nat
    BY <1>8, BufrNat, SubscriberParts DEF TypeOK
  <2>1. CASE Unsent(s)
    <3>1. Carried(s, old) \in Bufr /\ Update(s, old).bufr \in Bufr
      BY <1>2, <1>8, BufrType, UpdateEffect, SubscriberParts
    <3>2. Carried(s, old)[e] \in Nat /\ Update(s, old).bufr[e] \in Nat
      BY <3>1, BufrNat
    <3>3. Carried(s, old)[e] + Update(s, old).bufr[e] = s.bufr[e]
      BY <1>2, <1>8, UpdateEffect
    <3>4. sent[e] = got[c][e] + Carried(s, old)[e] /\ s1 = Update(s, old)
      BY <2>1, BufrNat
    <3> QED
      BY <2>0, <3>2, <3>3, <3>4
  <2>2. CASE ~Unsent(s)
    BY <2>0, <2>2
  <2> QED
    BY <2>1, <2>2
<1> HIDE DEF s1, sent
<1>11. sub'[c] = s2 /\ mark'[c] = Rev(next) /\ got'[c] = Plus(Once(new), sent)
  BY <1>4, <1>5 DEF TypeOK
<1>12. /\ s2.subs = s.subs /\ (s2.mons = {} <=> s.mons = {})
       /\ s.rev <= old => s2.rev <= Rev(next)
       /\ s2.bufr = s1.bufr
  <2>1. CASE c \notin smap
    <3>1. sub[c] = NoSub /\ s2 = NoSub
      BY <2>1 DEF OnlyRegistered
    <3>2. s1.bufr = NoEvents /\ s.subs = {} /\ s.mons = {}
      BY <1>8, <1>9, <3>1 DEF NoSub
    <3> QED
      BY <1>2, <3>1, <3>2 DEF NoSub
  <2>2. CASE c \in smap
    <3>1. CASE Rev(next) > s1.rev
      BY <1>2, <1>9, <2>2, <3>1 DEF Subscriber
    <3>2. CASE ~(Rev(next) > s1.rev)
      BY <1>2, <1>8, <1>9, <2>2, <3>2 DEF Subscriber
    <3> QED
      BY <3>1, <3>2
  <2> QED
    BY <2>1, <2>2
<1> HIDE DEF s2
<1>13. ASSUME NEW e \in 1..MaxEvents
       PROVE  /\ got'[c][e] + sub'[c].bufr[e] = got[c][e] + sub[c].bufr[e] + One(new, e)
              /\ sub'[c].bufr[e] \in {0, sub[c].bufr[e]}
              /\ sub'[c].bufr[e] > 0 => ~(old > sub[c].rev)
  <2>1. got[c][e] \in Nat /\ s.bufr[e] \in Nat /\ NoEvents[e] = 0
    BY <1>8, BufrNat, SubscriberParts DEF TypeOK
  <2>2. got'[c][e] = One(new, e) + sent[e] /\ sub'[c].bufr[e] = s1.bufr[e]
    BY <1>11, <1>12, BufrNat
  <2>3. s1.bufr[e] = s.bufr[e] \/ s1.bufr[e] = 0
    BY <1>9, <2>1
  <2>4. One(new, e) \in {0, 1} /\ sent[e] + s1.bufr[e] = got[c][e] + s.bufr[e] /\ sent[e] \in Nat
    BY <1>10, OneNat
  <2>5. s1.bufr[e] > 0 => ~(old > s.rev)
    BY <1>9, <2>1
  <2> QED
    BY <1>8, <2>1, <2>2, <2>3, <2>4, <2>5
<1> QED
  BY <1>1, <1>4, <1>7, <1>8, <1>11, <1>12, <1>13 DEF next, new

\* What the client counts event e again from when it asks fresh topics anew.
Again(c, fresh, e) == IF e <= Len(log) /\ log[e].act.top \in fresh THEN 0 ELSE got[c][e]

\* Ctrl.sub grants c the fresh topics from r on, where s is its subscriber: what
\* is buffered and the history are sent, unless there is no update.
Granted(c, r, fresh, s) ==
    LET hist == EventsSince(log, r, fresh)
    IN  /\ LateHistory \/ s.rev < Rev(log) \/ r = Rev(log)
        /\ since'[c] = [t \in DOMAIN since[c] \cup fresh |->
                           IF t \in fresh THEN r ELSE since[c][t]]
        /\ \A e \in 1..MaxEvents :
             got'[c][e] + sub'[c].bufr[e] = Again(c, fresh, e) + s.bufr[e] + One(hist, e)
        /\ sub'[c].rev = IF Rev(log) > s.rev THEN Rev(log) ELSE s.rev
        /\ IF Answers(s, Rev(log))
           THEN mark'[c] = Rev(log) /\ sub'[c].bufr = NoEvents
           ELSE /\ mark'[c] = mark[c]
                /\ \A e \in 1..MaxEvents : sub'[c].bufr[e] = s.bufr[e] + One(hist, e)

\* What a request for the fresh topics comes to.
Outcome(c, r, fresh, s) ==
    /\ sub'[c].subs = s.subs \cup fresh /\ (sub'[c].mons = {} <=> s.mons = {})
    /\ \/ fresh = {} /\ sub'[c] = s /\ UNCHANGED feedVars
       \/ LedgerFails /\ sub'[c].rev = s.rev /\ sub'[c].bufr = s.bufr /\ UNCHANGED feedVars
       \/ fresh # {} /\ Granted(c, r, fresh, s)

\* A subscription from r: nothing new, or granted, or failed with its topics
\* registered.
LEMMA SubscribeEffect ==
    ASSUME TypeOK, NEW c \in Conns, NEW r \in Nat, NEW tops \in SUBSET Topics,
           NEW subs \in [Conns -> Subscriber], Subscribe(c, r, tops, subs)
    PROVE  LET s     == subs[c]
               fresh == tops \ s.subs
           IN  /\ smap' = IF tops = {} THEN smap ELSE smap \cup {c}
               /\ \A d \in Conns \ {c} : /\ sub'[d] = subs[d] /\ got'[d] = got[d]
                                         /\ mark'[d] = mark[d] /\ since'[d] = since[d]
               /\ Outcome(c, r, fresh, s)
<1> DEFINE s     == subs[c]
           rev   == Rev(log)
           fresh == tops \ s.subs
           hist  == EventsSince(log, r, fresh)
           s1    == [s EXCEPT !.subs = @ \cup fresh]
           s2    == [s1 EXCEPT !.bufr = Plus(@, Once(hist))]
           again == [e \in 1..MaxEvents |->
                        IF e <= Len(log) /\ log[e].act.top \in fresh THEN 0 ELSE got[c][e]]
<1>0. s \in Subscriber /\ rev \in Nat
  BY RevNat DEF TypeOK
<1>1. fresh \subseteq Topics /\ s.bufr \in Bufr
  BY <1>0 DEF Subscriber
<1>2. smap' = IF tops = {} THEN smap ELSE smap \cup {c}
  BY DEF Subscribe, Sub
<1>3. \/ fresh = {} /\ sub' = subs /\ UNCHANGED feedVars
      \/ /\ fresh # {} /\ (LateHistory \/ s.rev < rev \/ r = rev)
         /\ sub' = [subs EXCEPT ![c] = Update(s2, rev)]
         /\ since' = [since EXCEPT ![c] = [t \in DOMAIN @ \cup fresh |->
                         IF t \in fresh THEN r ELSE @[t]]]
         /\ got' = [got EXCEPT ![c] = Plus(again, Carried(s2, rev))]
         /\ mark' = IF Answers(s2, rev) THEN [mark EXCEPT ![c] = rev] ELSE mark
      \/ LedgerFails /\ sub' = [subs EXCEPT ![c] = s1] /\ UNCHANGED feedVars
  BY DEF Subscribe, Sub
<1> HIDE DEF rev, hist, fresh
<1>4. /\ s1 \in Subscriber /\ s1.subs = s.subs \cup fresh /\ s1.mons = s.mons
      /\ s1.rev = s.rev /\ s1.bufr = s.bufr /\ s1.note = s.note
  BY <1>0, <1>1 DEF Subscriber
<1>5. Plus(s.bufr, Once(hist)) \in Bufr
  BY <1>1, BufrType
<1> HIDE DEF s1
<1>6. /\ s2 \in Subscriber /\ s2.subs = s.subs \cup fresh /\ s2.mons = s.mons
      /\ s2.rev = s.rev /\ s2.bufr = Plus(s.bufr, Once(hist)) /\ s2.note = s.note
  <2>1. s2.bufr = Plus(s.bufr, Once(hist))
    BY <1>4 DEF Subscriber
  <2> QED
    BY <1>4, <1>5, <2>1 DEF Subscriber
<1>7. \A e \in 1..MaxEvents : s2.bufr[e] = s.bufr[e] + One(hist, e)
  BY <1>6, BufrNat
<1>8. Answers(s2, rev) <=> Answers(s, rev)
  BY <1>6 DEF Answers
<1> HIDE DEF s2
<1> DEFINE u == Update(s2, rev)
<1>9. /\ u \in Subscriber /\ u.subs = s2.subs /\ (u.mons = {} <=> s2.mons = {})
      /\ u.rev = IF rev > s2.rev THEN rev ELSE s2.rev
      /\ u.bufr = IF Answers(s2, rev) THEN NoEvents ELSE s2.bufr
      /\ \A e \in 1..MaxEvents : Carried(s2, rev)[e] + u.bufr[e] = s2.bufr[e]
  BY <1>0, <1>6, UpdateEffect
<1> HIDE DEF u, s
<1>10. CASE fresh = {} /\ sub' = subs /\ UNCHANGED feedVars
  <2>1. sub'[c] = s /\ s.subs \cup fresh = s.subs
    BY <1>10 DEF s
  <2> QED
    BY <1>2, <1>10, <2>1 DEF feedVars, fresh, s, Outcome
<1>11. CASE LedgerFails /\ sub' = [subs EXCEPT ![c] = s1] /\ UNCHANGED feedVars
  <2>1. sub'[c] = s1 /\ \A d \in Conns \ {c} : sub'[d] = subs[d]
    BY <1>11
  <2> QED
    BY <1>2, <1>4, <1>11, <2>1 DEF feedVars, fresh, s, Outcome
<1>12. CASE /\ fresh # {} /\ (LateHistory \/ s.rev < rev \/ r = rev)
            /\ sub' = [subs EXCEPT ![c] = u]
            /\ since' = [since EXCEPT ![c] = [t \in DOMAIN @ \cup fresh |->
                            IF t \in fresh THEN r ELSE @[t]]]
            /\ got' = [got EXCEPT ![c] = Plus(again, Carried(s2, rev))]
            /\ mark' = IF Answers(s2, rev) THEN [mark EXCEPT ![c] = rev] ELSE mark
  <2>1. /\ sub'[c] = u /\ got'[c] = Plus(again, Carried(s2, rev))
        /\ since'[c] = [t \in DOMAIN since[c] \cup fresh |->
                           IF t \in fresh THEN r ELSE since[c][t]]
        /\ mark'[c] = IF Answers(s2, rev) THEN rev ELSE mark[c]
        /\ \A d \in Conns \ {c} : /\ sub'[d] = subs[d] /\ got'[d] = got[d]
                                  /\ mark'[d] = mark[d] /\ since'[d] = since[d]
    <3>1. /\ DOMAIN sub = Conns /\ DOMAIN got = Conns /\ DOMAIN mark = Conns
          /\ DOMAIN since = Conns
      BY DEF TypeOK
    <3>2. sub'[c] = u /\ \A d \in Conns \ {c} : sub'[d] = subs[d]
      BY <1>12, <3>1
    <3>3. got'[c] = Plus(again, Carried(s2, rev)) /\ \A d \in Conns \ {c} : got'[d] = got[d]
      BY <1>12, <3>1
    <3>4. /\ mark'[c] = IF Answers(s2, rev) THEN rev ELSE mark[c]
          /\ \A d \in Conns \ {c} : mark'[d] = mark[d]
      BY <1>12, <3>1
    <3>5. /\ since'[c] = [t \in DOMAIN since[c] \cup fresh |->
                             IF t \in fresh THEN r ELSE since[c][t]]
          /\ \A d \in Conns \ {c} : since'[d] = since[d]
      BY <1>12, <3>1
    <3> QED
      BY <3>2, <3>3, <3>4, <3>5
  <2>2. ASSUME NEW e \in 1..MaxEvents
        PROVE  got'[c][e] + sub'[c].bufr[e] = Again(c, fresh, e) + s.bufr[e] + One(hist, e)
    <3>0. Plus(again, Carried(s2, rev))[e] = again[e] + Carried(s2, rev)[e]
      BY DEF Plus
    <3>00. again[e] = Again(c, fresh, e)
      BY DEF Again
    <3>1. got'[c][e] = again[e] + Carried(s2, rev)[e] /\ again[e] = Again(c, fresh, e)
      BY <2>1, <3>0, <3>00
    <3>2. Carried(s2, rev)[e] + u.bufr[e] = s.bufr[e] + One(hist, e)
      BY <1>7, <1>9
    <3>3. Carried(s2, rev)[e] \in Nat /\ u.bufr[e] \in Nat
      BY <1>0, <1>6, <1>9, BufrType, BufrNat, SubscriberParts
    <3>4. got[c][e] \in Nat /\ s.bufr[e] \in Nat /\ One(hist, e) \in Nat
      <4>1. got[c] \in Bufr /\ s.bufr \in Bufr
        BY <1>1 DEF TypeOK, s
      <4>2. One(hist, e) \in {0, 1}
        BY OneNat
      <4> QED
        BY <4>1, <4>2, BufrNat
    <3>5. Again(c, fresh, e) \in Nat
      BY <3>4 DEF Again
    <3> HIDE DEF again
    <3> QED
      BY <2>1, <3>1, <3>2, <3>3, <3>4, <3>5
  <2>3. sub'[c].rev = IF rev > s.rev THEN rev ELSE s.rev
    BY <1>6, <1>9, <2>1
  <2>4. IF Answers(s, rev)
        THEN mark'[c] = rev /\ sub'[c].bufr = NoEvents
        ELSE /\ mark'[c] = mark[c]
             /\ \A e \in 1..MaxEvents : sub'[c].bufr[e] = s.bufr[e] + One(hist, e)
    BY <1>7, <1>8, <1>9, <2>1
  <2>5. Granted(c, r, fresh, s)
    BY <1>12, <2>1, <2>2, <2>3, <2>4 DEF Granted, hist, rev
  <2>6. sub'[c].subs = s.subs \cup fresh /\ (sub'[c].mons = {} <=> s.mons = {})
    BY <1>6, <1>9, <2>1
  <2> QED
    BY <1>2, <1>12, <2>1, <2>5, <2>6 DEF fresh, s, Outcome
<1> QED
  BY <1>3, <1>10, <1>11, <1>12 DEF u

\* With outcome r of Unsub's loop c's subscriber is dropped, or keeps some.
Drops(c, r) == /\ r.keep = {} /\ sub[c].mons = {}
               /\ smap' = smap \ {c} /\ sub'[c] = NoSub

Keeps(c, r) == /\ r.keep # {} \/ sub[c].mons # {}
               /\ c \in smap /\ smap' = smap
               /\ sub'[c] = [sub[c] EXCEPT !.subs = r.keep,
                                           !.bufr = Filter(log, sub[c].bufr, r.drop)]

\* Giving topics up: the subscriber keeps some of its topics and buffers, or is
\* dropped when it keeps nothing.
LEMMA UnsubEffect ==
    ASSUME TypeOK, NEW c \in Conns, NEW tops \in SUBSET Topics,
           Unsub(log, c, tops), Forgo(c, tops)
    PROVE  /\ \A d \in Conns \ {c} : sub'[d] = sub[d] /\ since'[d] = since[d]
           /\ since'[c] = [t \in IF tops = {} THEN {} ELSE DOMAIN since[c] \ tops |->
                              since[c][t]]
           /\ \/ c \notin smap /\ smap' = smap /\ sub' = sub
              \/ \E r \in UnsubOutcomes(sub[c].subs, tops) : Drops(c, r) \/ Keeps(c, r)
<1>1. /\ \A d \in Conns \ {c} : since'[d] = since[d]
      /\ since'[c] = [t \in IF tops = {} THEN {} ELSE DOMAIN since[c] \ tops |-> since[c][t]]
  BY DEF Forgo, TypeOK
<1>2. CASE c \notin smap
  BY <1>1, <1>2 DEF Unsub, subsVars
<1>3. CASE c \in smap
  <2>1. PICK r \in UnsubOutcomes(sub[c].subs, tops) :
            IF r.keep = {} /\ sub[c].mons = {}
            THEN /\ smap' = smap \ {c}
                 /\ sub'  = [sub EXCEPT ![c] = NoSub]
            ELSE /\ sub'  = [sub EXCEPT ![c].subs = r.keep,
                                        ![c].bufr = Filter(log, @, r.drop)]
                 /\ UNCHANGED smap
    BY <1>3 DEF Unsub
  <2>2. CASE r.keep = {} /\ sub[c].mons = {}
    <3>1. sub'[c] = NoSub /\ smap' = smap \ {c} /\ \A d \in Conns \ {c} : sub'[d] = sub[d]
      BY <2>1, <2>2 DEF TypeOK
    <3> QED
      BY <1>1, <2>2, <3>1 DEF Drops
  <2>3. CASE ~(r.keep = {} /\ sub[c].mons = {})
    <3>1. sub' = [sub EXCEPT ![c] = [sub[c] EXCEPT !.subs = r.keep,
                                        !.bufr = Filter(log, sub[c].bufr, r.drop)]]
      BY <2>1, <2>3 DEF TypeOK, Subscriber
    <3>2. /\ sub'[c] = [sub[c] EXCEPT !.subs = r.keep,
                              !.bufr = Filter(log, sub[c].bufr, r.drop)]
          /\ smap' = smap /\ \A d \in Conns \ {c} : sub'[d] = sub[d]
      BY <2>1, <2>3, <3>1 DEF TypeOK
    <3> QED
      BY <1>1, <1>3, <2>3, <3>2 DEF Keeps
  <2> QED
    BY <2>2, <2>3
<1> QED
  BY <1>2, <1>3

\* Monitors come and go without touching what a client is fed.
LEMMA MonitorEffect ==
    ASSUME TypeOK, OnlyRegistered, NEW c \in Conns,
           \/ \E watch \in Watches : MonReq(c, watch)
           \/ \E id \in 1..MaxMons : UnmonReq(c, id)
    PROVE  /\ UNCHANGED <<log, sat, feedVars, gone>>
           /\ Idle /\ c \notin gone
           /\ smap' \ {c} = smap \ {c}
           /\ \A d \in Conns \ {c} : sub'[d] = sub[d]
           /\ (c \in smap <=> (sub[c].subs # {} \/ sub[c].mons # {})) =>
                 (c \in smap' <=> (sub'[c].subs # {} \/ sub'[c].mons # {}))
           /\ sub'[c].subs = sub[c].subs
           /\ \/ sub'[c].rev = sub[c].rev /\ sub'[c].bufr = sub[c].bufr
              \/ sub'[c] = NoSub
<1>0. sub[c] \in Subscriber /\ NoSub.subs = {} /\ NoSub.mons = {}
  BY DEF TypeOK, NoSub
<1>1. CASE \E watch \in Watches : MonReq(c, watch)
  <2> DEFINE id == sub[c].monid + 1
  <2>1. PICK watch \in Watches : MonReq(c, watch)
    BY <1>1
  <2>2. /\ UNCHANGED <<log, sat, feedVars, gone>> /\ Idle /\ c \notin gone
        /\ smap' = smap \cup {c}
        /\ sub' = [sub EXCEPT ![c].monid = id, ![c].mons =
                      @ \cup {[id |-> id, watch |-> watch, bufr |-> {}]}]
    BY <2>1 DEF MonReq, Serves, Mon
  <2> HIDE DEF id
  <2>3. /\ \A d \in Conns \ {c} : sub'[d] = sub[d]
        /\ sub'[c] = [sub[c] EXCEPT !.monid = id, !.mons =
                         @ \cup {[id |-> id, watch |-> watch, bufr |-> {}]}]
    BY <1>0, <2>2 DEF TypeOK, Subscriber
  <2>4. /\ sub'[c].subs = sub[c].subs /\ sub'[c].rev = sub[c].rev /\ sub'[c].bufr = sub[c].bufr
        /\ sub'[c].mons # {}
    BY <1>0, <2>3 DEF Subscriber
  <2> QED
    BY <2>2, <2>3, <2>4
<1>2. CASE \E id \in 1..MaxMons : UnmonReq(c, id)
  <2>1. PICK id \in 1..MaxMons : UnmonReq(c, id)
    BY <1>2
  <2>2. UNCHANGED <<log, sat, feedVars, gone>> /\ Idle /\ c \notin gone
    BY <2>1 DEF UnmonReq, Serves
  <2>3. CASE c \notin smap \/ \A m \in sub[c].mons : m.id # id
    <3>1. UNCHANGED <<sub, smap>>
      BY <2>1, <2>3 DEF UnmonReq, Unmon, subsVars
    <3> QED
      BY <2>2, <3>1
  <2>4. CASE c \in smap /\ \E m \in sub[c].mons : m.id = id
    <3> DEFINE m    == CHOOSE m \in sub[c].mons : m.id = id
               left == sub[c].mons \ {m}
    <3>1. IF left = {} /\ sub[c].subs = {}
          THEN smap' = smap \ {c} /\ sub' = [sub EXCEPT ![c] = NoSub]
          ELSE sub' = [sub EXCEPT ![c].mons = left] /\ UNCHANGED smap
      BY <2>1, <2>4 DEF UnmonReq, Unmon
    <3> HIDE DEF m, left
    <3>2. CASE left = {} /\ sub[c].subs = {}
      BY <1>0, <2>2, <3>1, <3>2 DEF TypeOK
    <3>3. CASE ~(left = {} /\ sub[c].subs = {})
      <4>1. sub'[c] = [sub[c] EXCEPT !.mons = left] /\ \A d \in Conns \ {c} : sub'[d] = sub[d]
        BY <3>1, <3>3 DEF TypeOK
      <4>2. /\ sub'[c].subs = sub[c].subs /\ sub'[c].rev = sub[c].rev
            /\ sub'[c].bufr = sub[c].bufr /\ sub'[c].mons = left
        BY <1>0, <4>1 DEF Subscriber
      <4> QED
        BY <2>2, <2>4, <3>1, <3>3, <4>1, <4>2
    <3> QED
      BY <3>2, <3>3
  <2> QED
    BY <2>3, <2>4
<1> QED
  BY <1>1, <1>2

\* A broadcast brings each subscriber it has an update for up to date.
LEMMA BcastEffect ==
    ASSUME TypeOK, HandleBcast
    PROVE  /\ UNCHANGED <<log, smap, sat, since, gone>> /\ Idle
           /\ bcast' = IF Due(Rev(log)) THEN Rev(log) ELSE bcast
           /\ \A c \in Conns :
                /\ sub'[c].subs = sub[c].subs /\ (sub'[c].mons = {} <=> sub[c].mons = {})
                /\ \/ /\ Due(Rev(log)) /\ c \in smap /\ Answers(sub[c], Rev(log))
                      /\ sub'[c].rev = IF Rev(log) > sub[c].rev THEN Rev(log) ELSE sub[c].rev
                      /\ sub'[c].bufr = NoEvents
                      /\ got'[c] = Plus(got[c], sub[c].bufr)
                      /\ mark'[c] = Rev(log)
                   \/ /\ ~(Due(Rev(log)) /\ c \in smap /\ Answers(sub[c], Rev(log)))
                      /\ Untouched(c)
<1> DEFINE rev == Rev(log)
           takes(c) == Due(rev) /\ c \in smap /\ Answers(sub[c], rev)
<1>1. /\ UNCHANGED <<log, smap, sat, since, gone>> /\ Idle
      /\ bcast' = IF Due(rev) THEN rev ELSE bcast
      /\ sub' = [c \in Conns |-> IF takes(c) THEN Update(sub[c], rev) ELSE sub[c]]
      /\ got' = [c \in Conns |-> IF takes(c) THEN Plus(got[c], sub[c].bufr) ELSE got[c]]
      /\ mark' = [c \in Conns |-> IF takes(c) THEN rev ELSE mark[c]]
  BY DEF HandleBcast
<1>2. rev \in Nat /\ \A c \in Conns : sub[c] \in Subscriber
  BY RevNat DEF TypeOK
<1> HIDE DEF rev, takes
<1>3. ASSUME NEW c \in Conns
      PROVE  /\ sub'[c].subs = sub[c].subs /\ (sub'[c].mons = {} <=> sub[c].mons = {})
             /\ \/ /\ takes(c)
                   /\ sub'[c].rev = IF rev > sub[c].rev THEN rev ELSE sub[c].rev
                   /\ sub'[c].bufr = NoEvents
                   /\ got'[c] = Plus(got[c], sub[c].bufr)
                   /\ mark'[c] = rev
                \/ ~takes(c) /\ Untouched(c)
  <2>1. CASE takes(c)
    <3>1. sub'[c] = Update(sub[c], rev) /\ got'[c] = Plus(got[c], sub[c].bufr) /\ mark'[c] = rev
      BY <1>1, <2>1
    <3>2. Answers(sub[c], rev)
      BY <2>1 DEF takes
    <3>3. /\ sub'[c].subs = sub[c].subs /\ (sub'[c].mons = {} <=> sub[c].mons = {})
          /\ sub'[c].rev = IF rev > sub[c].rev THEN rev ELSE sub[c].rev
          /\ sub'[c].bufr = NoEvents
      <4> DEFINE u == Update(sub[c], rev)
      <4>1. /\ u.subs = sub[c].subs /\ (u.mons = {} <=> sub[c].mons = {})
            /\ u.rev = IF rev > sub[c].rev THEN rev ELSE sub[c].rev
            /\ u.bufr = NoEvents
        BY <1>2, <3>2, UpdateEffect
      <4> HIDE DEF u
      <4>2. sub'[c] = u
        BY <3>1 DEF u
      <4> QED
        BY <4>1, <4>2
    <3> QED
      BY <2>1, <3>1, <3>3
  <2>2. CASE ~takes(c)
    <3>1. sub'[c] = sub[c] /\ got'[c] = got[c] /\ mark'[c] = mark[c] /\ since'[c] = since[c]
      BY <1>1, <2>2
    <3> QED
      BY <2>2, <3>1 DEF Untouched
  <2> QED
    BY <2>1, <2>2
<1> QED
  BY <1>1, <1>3 DEF takes, rev

\* Time, timers, the host and requests the server ignores change none of it.
Quiet ==
    \/ \E c \in Conns, subj \in ServerServices : Unknown(c, subj)
    \/ WindowCloses \/ TimerFires \/ HandleBtrig \/ Stop \/ UNCHANGED vars

LEMMA QuietEffect ==
    ASSUME Quiet
    PROVE  UNCHANGED <<log, sub, smap, sat, got, mark, since, gone>>
  BY DEF Quiet, Unknown, WindowCloses, TimerFires, HandleBtrig, Stop, vars,
         subsVars, feedVars

\* The steps of the server, as the proofs below split them.
LEMMA Steps ==
    ASSUME [Next]_vars
    PROVE  \/ \E c \in Conns, acts \in Transs, now \in Nows : Pub(c, acts, now)
           \/ \E c \in Conns, r \in KnownRevs, tops \in SUBSET Topics : SubReq(c, r, tops)
           \/ \E c \in Conns, batch \in Batches, r \in KnownRevs, tops \in SUBSET Topics :
                 SatBegin(c, batch, r, tops)
           \/ \E now \in Nows : SatPublish(now)
           \/ SatFails
           \/ \E c \in Conns : SatEnd(c)
           \/ \E c \in Conns, tops \in SUBSET Topics : UnsubReq(c, tops)
           \/ \E c \in Conns : \/ \E watch \in Watches : MonReq(c, watch)
                               \/ \E id \in 1..MaxMons : UnmonReq(c, id)
           \/ \E c \in Conns : Signoff(c)
           \/ HandleBcast
           \/ Quiet
  BY DEF Next, Quiet

\* A satellite's transaction only makes the ledger grow.
LEMMA SatPublishEffect ==
    ASSUME TypeOK, NEW now \in Nows, SatPublish(now)
    PROVE  /\ UNCHANGED <<sub, smap, got, mark, since, gone>>
           /\ ~Idle /\ sat' = [sat EXCEPT !.batch = Tail(@)] /\ sat \in SatReqs
           /\ log \in Seq(Events) /\ log' \in Seq(Events) /\ Len(log) < Len(log')
           /\ Rev(log) < Rev(log') /\ Rev(log) \in Nat /\ Rev(log') \in Nat
           /\ \A e \in 1..Len(log) : log'[e] = log[e]
           /\ \A e \in (Len(log) + 1)..Len(log') : log'[e].rev = Rev(log')
<1> DEFINE acts == Head(sat.batch)
<1>1. /\ ~Idle /\ sat.batch # << >> /\ log' = Published(log, acts, now)
      /\ sat' = [sat EXCEPT !.batch = Tail(@)]
      /\ UNCHANGED <<sub, smap, got, mark, since, gone>>
  BY DEF SatPublish, subsVars, feedVars
<1>2. sat \in SatReqs
  BY <1>1 DEF TypeOK, Idle
<1>3. acts \in ActionLists
  <2>1. sat.batch \in Seq(ActionLists)
    BY <1>2 DEF SatReqs
  <2> QED
    BY <1>1, <2>1, HeadTailProperties
<1>4. log \in Seq(Events) /\ acts \in Seq(Actions) /\ acts # << >> /\ now \in Nat
  BY <1>3, ServerAssumption DEF ActionLists, TypeOK
<1> HIDE DEF acts
<1>5. log' \in Seq(Events) /\ Len(log) \in Nat /\ Len(log') \in Nat
  BY <1>1, <1>4, PublishedLog, LenProperties
<1> QED
  BY <1>1, <1>2, <1>4, <1>5, PublishedLog, RevNat

\* So does a publication.
LEMMA PubLedger ==
    ASSUME TypeOK, OnlyRegistered, NEW c \in Conns, NEW acts \in Transs, NEW now \in Nows,
           Pub(c, acts, now)
    PROVE  /\ log \in Seq(Events) /\ log' \in Seq(Events) /\ Len(log) < Len(log')
           /\ Len(log) \in Nat /\ Len(log') \in Nat /\ Len(log') <= MaxEvents
           /\ Rev(log) < Rev(log') /\ Rev(log) \in Nat /\ Rev(log') \in Nat
           /\ \A e \in 1..Len(log) : log'[e] = log[e]
           /\ \A e \in (Len(log) + 1)..Len(log') : log'[e].rev = Rev(log')
<1>1. /\ log' = Published(log, acts, now) /\ log \in Seq(Events)
      /\ acts \in Seq(Actions) /\ acts # << >> /\ now \in Nat
  BY PubEffect
<1>2. Len(log') <= MaxEvents
  BY DEF Pub
<1>3. log' \in Seq(Events) /\ Len(log) \in Nat /\ Len(log') \in Nat
  BY <1>1, PublishedLog, LenProperties
<1>4. /\ Len(log') > Len(log) /\ Rev(log') > Rev(log)
      /\ \A e \in 1..Len(log) : log'[e] = log[e]
      /\ \A e \in (Len(log) + 1)..Len(log') : log'[e].rev = Rev(log')
  BY <1>1, PublishedLog
<1> QED
  BY <1>1, <1>2, <1>3, <1>4, RevNat

-----------------------------------------------------------------------------
(* The revision a client resumes from. *)

\* No client is told a revision the ledger has not reached.
MarksBehind == \A c \in Conns : mark[c] <= Rev(log)

LEMMA MarksStep ==
    ASSUME TypeOK, OnlyRegistered, MarksBehind, [Next]_vars
    PROVE  MarksBehind' /\ \A c \in Conns : mark'[c] >= mark[c]
<1>0. /\ Rev(log) \in Nat /\ KnownRevs \subseteq Nat
      /\ \A c \in Conns : mark[c] \in Nat /\ mark[c] <= Rev(log)
  BY RevNat, EventRevs DEF TypeOK, KnownRevs, MarksBehind
<1>1. ASSUME NEW c \in Conns, NEW acts \in Transs, NEW now \in Nows, Pub(c, acts, now)
      PROVE  MarksBehind' /\ \A d \in Conns : mark'[d] >= mark[d]
  <2>1. mark'[c] = Rev(log') /\ \A d \in Conns \ {c} : mark'[d] = mark[d]
    BY <1>1, PubEffect
  <2>2. Rev(log) < Rev(log') /\ Rev(log') \in Nat
    BY <1>1, PubLedger
  <2> QED
    BY <1>0, <2>1, <2>2 DEF MarksBehind
<1>2. ASSUME NEW c \in Conns, NEW r \in Nat, NEW tops \in SUBSET Topics,
             NEW subs \in [Conns -> Subscriber], Subscribe(c, r, tops, subs), log' = log
      PROVE  MarksBehind' /\ \A d \in Conns : mark'[d] >= mark[d]
  <2>1. \A d \in Conns \ {c} : mark'[d] = mark[d]
    BY <1>2, SubscribeEffect
  <2>2. mark'[c] = mark[c] \/ mark'[c] = Rev(log)
    BY <1>2, SubscribeEffect DEF Outcome, Granted, feedVars
  <2> QED
    BY <1>0, <1>2, <2>1, <2>2 DEF MarksBehind
<1>3. ASSUME NEW c \in Conns, SatEnd(c)
      PROVE  MarksBehind' /\ \A d \in Conns : mark'[d] >= mark[d]
  <2> DEFINE shown == Shown(log, (sat.from + 1)..Len(log), c)
  <2>1. sat.rev \in Nat /\ sat.tops \in SUBSET Topics /\ sat.from \in Nat
    BY <1>3 DEF SatEnd, SatReqs, TypeOK, Idle
  <2>2. shown \in [Conns -> Subscriber]
    <3>1. \A e \in (sat.from + 1)..Len(log) : e \in 1..Len(log)
      BY <2>1, LenProperties DEF TypeOK
    <3>2. \A e \in (sat.from + 1)..Len(log) : log[e] \in Events
      BY <3>1, EventRevs DEF TypeOK
    <3> QED
      BY <3>2, ShownProperties DEF TypeOK
  <2>3. Subscribe(c, sat.rev, sat.tops, shown) /\ log' = log
    BY <1>3 DEF SatEnd
  <2> QED
    BY <1>2, <2>1, <2>2, <2>3
<1>4. ASSUME UNCHANGED <<log, mark>>
      PROVE  MarksBehind' /\ \A d \in Conns : mark'[d] >= mark[d]
  BY <1>0, <1>4 DEF MarksBehind
<1>5. ASSUME NEW now \in Nows, SatPublish(now)
      PROVE  MarksBehind' /\ \A d \in Conns : mark'[d] >= mark[d]
  BY <1>0, <1>5, SatPublishEffect DEF MarksBehind
<1>6. ASSUME HandleBcast
      PROVE  MarksBehind' /\ \A d \in Conns : mark'[d] >= mark[d]
  <2>1. log' = log /\ \A d \in Conns : mark'[d] = mark[d] \/ mark'[d] = Rev(log)
    BY <1>6, BcastEffect DEF Untouched
  <2> QED
    BY <1>0, <2>1 DEF MarksBehind
<1>7. ASSUME NEW c \in Conns, NEW r \in KnownRevs, NEW tops \in SUBSET Topics,
             SubReq(c, r, tops)
      PROVE  MarksBehind' /\ \A d \in Conns : mark'[d] >= mark[d]
  BY <1>0, <1>2, <1>7 DEF SubReq, TypeOK
<1>8. ASSUME \/ \E c \in Conns, batch \in Batches, r \in KnownRevs, tops \in SUBSET Topics :
                   SatBegin(c, batch, r, tops)
             \/ SatFails
             \/ \E c \in Conns, tops \in SUBSET Topics : UnsubReq(c, tops)
             \/ \E c \in Conns : \/ \E watch \in Watches : MonReq(c, watch)
                                 \/ \E id \in 1..MaxMons : UnmonReq(c, id)
             \/ \E c \in Conns : Signoff(c)
      PROVE  UNCHANGED <<log, mark>>
  BY <1>8 DEF SatBegin, SatFails, UnsubReq, MonReq, UnmonReq, Signoff, feedVars
<1> QED
  BY <1>1, <1>3, <1>4, <1>5, <1>6, <1>7, <1>8, Steps, QuietEffect

\* The revision a client resumes from never goes back, whatever it asks for and
\* however broadcasts, publications and history interleave.
THEOREM MarksNeverGoBack == Spec => MarkGrows
<1>1. Init => MarksBehind
  <2> SUFFICES ASSUME Init PROVE MarksBehind
    OBVIOUS
  <2>1. \A c \in Conns : mark[c] = 0 /\ Rev(log) = 0
    BY DEF Init, Rev
  <2> QED
    BY <2>1 DEF MarksBehind
<1>2. TypeOK /\ TriggerInv /\ MarksBehind /\ [Next]_vars => MarksBehind'
  BY MarksStep DEF TriggerInv
<1>3. TypeOK /\ TriggerInv /\ MarksBehind /\ [Next]_vars
        => [\A c \in Conns : mark'[c] >= mark[c]]_vars
  BY MarksStep DEF TriggerInv
<1> QED
  BY <1>1, <1>2, <1>3, TypeCorrect, TriggerAlways, PTL DEF Spec, MarkGrows

-----------------------------------------------------------------------------
(* Unsent notes keep their subscriber flagged. *)

\* The flag of s is set when a monitor of it has unsent signatures.
Flagged(s) == \A m \in s.mons : m.bufr # {} => s.note

NotesInv == \A c \in Conns : Flagged(sub[c])

LEMMA UpdateFlagged ==
    ASSUME NEW s \in Subscriber, NEW rev, Flagged(s)
    PROVE  Flagged(Update(s, rev))
<1>1. CASE ~Answers(s, rev)
  BY <1>1 DEF Update
<1>2. CASE Answers(s, rev)
  <2> DEFINE mons == IF s.note THEN {[m EXCEPT !.bufr = {}] : m \in s.mons} ELSE s.mons
             r    == IF rev > s.rev THEN rev ELSE s.rev
             u    == Update(s, rev)
  <2>1. u = [s EXCEPT !.rev = r, !.bufr = NoEvents, !.mons = mons, !.note = FALSE]
    BY <1>2 DEF Update
  <2>2. \A m \in mons : m.bufr = {}
    <3>1. CASE s.note
      <4>1. \A m \in s.mons : m \in Monitor
        BY DEF Subscriber
      <4>2. \A m \in Monitor : [m EXCEPT !.bufr = {}].bufr = {}
        BY DEF Monitor
      <4> QED
        BY <3>1, <4>1, <4>2
    <3>2. CASE ~s.note
      BY <3>2 DEF Flagged
    <3> QED
      BY <3>1, <3>2
  <2> HIDE DEF mons, r
  <2>3. u.mons = mons
    BY <2>1 DEF Subscriber
  <2> QED
    BY <2>2, <2>3 DEF Flagged
<1> QED
  BY <1>1, <1>2

LEMMA ShownFlagged ==
    ASSUME sub \in [Conns -> Subscriber], NEW lg, NEW new, NEW from, NotesInv
    PROVE  \A d \in Conns : Flagged(Shown(lg, new, from)[d])
<1> SUFFICES ASSUME NEW d \in Conns
             PROVE  Flagged(Shown(lg, new, from)[d])
  OBVIOUS
<1> DEFINE bufr == [e \in 1..MaxEvents |->
                       IF e \in new /\ d # from /\ d \in tmap[lg[e].act.top]
                       THEN sub[d].bufr[e] + 1 ELSE sub[d].bufr[e]]
           mons == {[m EXCEPT !.bufr = @ \cup Noticed(lg, new, d, m.id)] : m \in sub[d].mons}
           note == sub[d].note \/ \E e \in new : \E r \in Watchers(lg[e].act) :
                                      r.conn = d /\ r.live
           s    == Shown(lg, new, from)[d]
<1>1. sub[d] \in Subscriber /\ Flagged(sub[d])
  BY DEF NotesInv
<1>2. s = [sub[d] EXCEPT !.bufr = bufr, !.mons = mons, !.note = note]
  BY DEF Shown
<1>3. ASSUME NEW m \in sub[d].mons, m.bufr # {} \/ Noticed(lg, new, d, m.id) # {}
      PROVE  note
  <2>1. CASE m.bufr # {}
    BY <1>1, <2>1 DEF Flagged
  <2>2. CASE Noticed(lg, new, d, m.id) # {}
    <3>1. PICK f \in new : [conn |-> d, id |-> m.id, live |-> TRUE] \in Watchers(lg[f].act)
      BY <2>2 DEF Noticed
    <3> QED
      BY <3>1
  <2> QED
    BY <1>3, <2>1, <2>2
<1>4. \A n \in mons : n.bufr # {} => note
  <2> SUFFICES ASSUME NEW n \in mons, n.bufr # {}
               PROVE  note
    OBVIOUS
  <2>1. PICK m \in sub[d].mons : n = [m EXCEPT !.bufr = @ \cup Noticed(lg, new, d, m.id)]
    OBVIOUS
  <2>2. m \in Monitor
    BY <1>1 DEF Subscriber
  <2> HIDE DEF mons, note
  <2>3. n.bufr = m.bufr \cup Noticed(lg, new, d, m.id)
    BY <2>1, <2>2 DEF Monitor
  <2> QED
    BY <1>3, <2>3
<1> HIDE DEF bufr, mons, note
<1>5. s.mons = mons /\ s.note = note
  BY <1>1, <1>2 DEF Subscriber
<1> QED
  BY <1>4, <1>5 DEF Flagged

\* Only monitors and the flag matter.
LEMMA SameFlags ==
    ASSUME NEW s, NEW t, Flagged(s), t.note = s.note, t.mons \subseteq s.mons
    PROVE  Flagged(t)
  BY DEF Flagged

LEMMA SubscribeFlagged ==
    ASSUME TypeOK, NEW c \in Conns, NEW r \in Nat, NEW tops \in SUBSET Topics,
           NEW subs \in [Conns -> Subscriber], \A d \in Conns : Flagged(subs[d]),
           Subscribe(c, r, tops, subs)
    PROVE  NotesInv'
<1> DEFINE s     == subs[c]
           fresh == tops \ s.subs
           hist  == EventsSince(log, r, fresh)
           s1    == [s EXCEPT !.subs = @ \cup fresh]
           s2    == [s1 EXCEPT !.bufr = Plus(@, Once(hist))]
<1>1. s \in Subscriber /\ fresh \subseteq Topics
  OBVIOUS
<1>2. \/ sub' = subs
      \/ sub' = [subs EXCEPT ![c] = Update(s2, Rev(log))]
      \/ sub' = [subs EXCEPT ![c] = s1]
  BY DEF Subscribe, Sub
<1> HIDE DEF fresh, hist
<1>3. s1 \in Subscriber /\ s1.mons = s.mons /\ s1.note = s.note /\ s1.bufr = s.bufr
  BY <1>1 DEF Subscriber
<1>4. Plus(s.bufr, Once(hist)) \in Bufr
  BY <1>1, BufrType, SubscriberParts
<1> HIDE DEF s, s1
<1>5. s2 \in Subscriber /\ s2.mons = s.mons /\ s2.note = s.note
  BY <1>3, <1>4 DEF Subscriber
<1> HIDE DEF s2
<1>6. Flagged(s1) /\ Flagged(s2)
  BY <1>3, <1>5, SameFlags DEF s
<1>7. Flagged(Update(s2, Rev(log)))
  BY <1>5, <1>6, UpdateFlagged
<1> QED
  BY <1>2, <1>6, <1>7 DEF NotesInv

LEMMA NotesStep ==
    ASSUME TypeOK, OnlyRegistered, NotesInv, [Next]_vars
    PROVE  NotesInv'
<1>0. /\ log \in Seq(Events) /\ KnownRevs \subseteq Nat /\ NoSub.mons = {}
      /\ sub \in [Conns -> Subscriber] /\ \A d \in Conns : Flagged(sub[d])
  BY EventRevs DEF TypeOK, KnownRevs, NotesInv, NoSub
<1>1. ASSUME NEW c \in Conns, NEW acts \in Transs, NEW now \in Nows, Pub(c, acts, now)
      PROVE  NotesInv'
  <2> DEFINE next  == Published(log, acts, now)
             new   == (Len(log) + 1)..Len(next)
             shown == Shown(next, new, c)
             s     == shown[c]
             s1    == IF Unsent(s) THEN Update(s, Rev(log)) ELSE s
             s2    == IF c \notin smap THEN NoSub
                      ELSE IF Rev(next) > s1.rev THEN [s1 EXCEPT !.rev = Rev(next)] ELSE s1
  <2>1. next \in Seq(Events) /\ Len(log) \in Nat /\ Len(next) \in Nat
    BY <1>1, PubEffect, PubLedger
  <2>2. \A e \in new : next[e] \in Events
    BY <2>1, EventRevs
  <2>3. sub' = [shown EXCEPT ![c] = s2]
    BY <1>1 DEF Pub
  <2> HIDE DEF next, new
  <2>4. shown \in [Conns -> Subscriber] /\ \A d \in Conns : Flagged(shown[d])
    BY <1>0, <2>2, ShownProperties, ShownFlagged
  <2> HIDE DEF shown
  <2>5. s \in Subscriber /\ Flagged(s)
    BY <2>4
  <2>6. Rev(log) \in Nat
    BY <1>0, RevNat
  <2> HIDE DEF s
  <2>7. s1 \in Subscriber /\ Flagged(s1)
    BY <2>5, <2>6, UpdateProperties, UpdateFlagged
  <2> HIDE DEF s1
  <2>8. Flagged(s2)
    <3>1. Flagged(NoSub)
      BY <1>0 DEF Flagged
    <3>2. Flagged([s1 EXCEPT !.rev = Rev(next)])
      BY <2>7 DEF Flagged, Subscriber
    <3> QED
      BY <2>7, <3>1, <3>2
  <2> QED
    BY <2>3, <2>4, <2>8 DEF NotesInv
<1>2. ASSUME NEW c \in Conns, NEW r \in KnownRevs, NEW tops \in SUBSET Topics,
             SubReq(c, r, tops)
      PROVE  NotesInv'
  BY <1>0, <1>2, SubscribeFlagged DEF SubReq
<1>3. ASSUME NEW c \in Conns, SatEnd(c)
      PROVE  NotesInv'
  <2> DEFINE new   == (sat.from + 1)..Len(log)
             shown == Shown(log, new, c)
  <2>1. /\ sat.rev \in Nat /\ sat.tops \in SUBSET Topics /\ sat.from \in Nat
        /\ Subscribe(c, sat.rev, sat.tops, shown)
    BY <1>3 DEF SatEnd, SatReqs, TypeOK, Idle
  <2>2. \A e \in new : e \in 1..Len(log)
    BY <1>0, <2>1, LenProperties
  <2>3. \A e \in new : log[e] \in Events
    BY <1>0, <2>2, EventRevs
  <2> HIDE DEF new
  <2>4. shown \in [Conns -> Subscriber] /\ \A d \in Conns : Flagged(shown[d])
    BY <1>0, <2>3, ShownProperties, ShownFlagged
  <2> QED
    BY <2>1, <2>4, SubscribeFlagged
<1>4. ASSUME NEW c \in Conns, NEW tops \in SUBSET Topics, Unsub(log, c, tops), Forgo(c, tops)
      PROVE  NotesInv'
  <2>1. \A d \in Conns \ {c} : sub'[d] = sub[d]
    BY <1>4, UnsubEffect
  <2>2. \/ sub'[c] = sub[c] \/ sub'[c] = NoSub
        \/ \E r : Keeps(c, r)
    BY <1>4, UnsubEffect DEF Drops
  <2>3. ASSUME NEW r, Keeps(c, r)
        PROVE  sub'[c].note = sub[c].note /\ sub'[c].mons = sub[c].mons
    BY <1>0, <2>3 DEF Keeps, Subscriber
  <2>4. Flagged(sub'[c])
    BY <1>0, <2>2, <2>3, SameFlags DEF Flagged
  <2> QED
    BY <1>0, <2>1, <2>4 DEF NotesInv
<1>5. ASSUME NEW c \in Conns, NEW watch \in Watches, MonReq(c, watch)
      PROVE  NotesInv'
  <2> DEFINE m    == [id |-> sub[c].monid + 1, watch |-> watch, bufr |-> {}]
             mons == sub[c].mons \cup {m}
             id   == sub[c].monid + 1
  <2>1. sub' = [sub EXCEPT ![c].monid = id, ![c].mons = mons]
    BY <1>5 DEF MonReq, Mon
  <2>2. \A n \in mons : n.bufr # {} => sub[c].note
    BY <1>0 DEF Flagged
  <2> HIDE DEF mons, id
  <2>3. sub'[c] = [sub[c] EXCEPT !.monid = id, !.mons = mons]
    BY <1>0, <2>1 DEF Subscriber
  <2>4. sub'[c].mons = mons /\ sub'[c].note = sub[c].note
    BY <1>0, <2>3 DEF Subscriber
  <2> QED
    BY <1>0, <2>1, <2>2, <2>4 DEF NotesInv, Flagged
<1>6. ASSUME NEW c \in Conns, NEW id, UnmonReq(c, id)
      PROVE  NotesInv'
  <2>1. \A d \in Conns \ {c} : sub'[d] = sub[d]
    BY <1>0, <1>6 DEF UnmonReq, Unmon, subsVars
  <2>2. \/ sub'[c] = sub[c] \/ sub'[c] = NoSub
        \/ \E m : sub'[c] = [sub[c] EXCEPT !.mons = sub[c].mons \ {m}]
    BY <1>0, <1>6 DEF UnmonReq, Unmon, subsVars
  <2>3. ASSUME NEW m, sub'[c] = [sub[c] EXCEPT !.mons = sub[c].mons \ {m}]
        PROVE  sub'[c].note = sub[c].note /\ sub'[c].mons \subseteq sub[c].mons
    BY <1>0, <2>3 DEF Subscriber
  <2>4. Flagged(sub'[c])
    BY <1>0, <2>2, <2>3, SameFlags DEF Flagged
  <2> QED
    BY <1>0, <2>1, <2>4 DEF NotesInv
<1>7. ASSUME HandleBcast
      PROVE  NotesInv'
  <2>1. \A d \in Conns : sub'[d] = sub[d] \/ sub'[d] = Update(sub[d], Rev(log))
    BY <1>7 DEF HandleBcast
  <2>2. \A d \in Conns : Flagged(Update(sub[d], Rev(log)))
    BY <1>0, UpdateFlagged
  <2> QED
    BY <1>0, <2>1, <2>2 DEF NotesInv
<1>8. ASSUME UNCHANGED sub
      PROVE  NotesInv'
  BY <1>0, <1>8 DEF NotesInv
<1>9. ASSUME \/ \E c \in Conns, batch \in Batches, r \in KnownRevs, tops \in SUBSET Topics :
                   SatBegin(c, batch, r, tops)
             \/ SatFails
             \/ \E now \in Nows : SatPublish(now)
      PROVE  UNCHANGED sub
  BY <1>9 DEF SatBegin, SatFails, SatPublish, subsVars
<1>10. ASSUME NEW c \in Conns, Signoff(c)
       PROVE  NotesInv'
  BY <1>4, <1>10 DEF Signoff
<1>11. ASSUME NEW c \in Conns, NEW tops \in SUBSET Topics, UnsubReq(c, tops)
       PROVE  NotesInv'
  BY <1>4, <1>11 DEF UnsubReq
<1> QED
  BY <1>1, <1>2, <1>3, <1>5, <1>6, <1>7, <1>8, <1>9, <1>10, <1>11, Steps, QuietEffect

\* A subscriber whose monitors have unsent signatures is flagged in every
\* behaviour, so that the next update carries them and clears the flag with them.
THEOREM NotesStayFlagged == Spec => []NotesFlagged
<1>1. Init => NotesInv
  BY DEF Init, SubscribersInit, NotesInv, Flagged, NoSub
<1>2. TypeOK /\ TriggerInv /\ NotesInv /\ [Next]_vars => NotesInv'
  BY NotesStep DEF TriggerInv
<1>3. TypeOK /\ NotesInv => NotesFlagged
  BY DEF NotesInv, Flagged, NotesFlagged, TypeOK
<1> QED
  BY <1>1, <1>2, <1>3, TypeCorrect, TriggerAlways, PTL DEF Spec

-----------------------------------------------------------------------------
(* What waits in a buffer is newer than everything the client was sent. *)

\* Event e is after the subscriber's revision and the client's last update.
Newer(c, e) == log[e].rev > sub[c].rev /\ log[e].rev > mark[c]

\* Nobody is ahead of the ledger; a buffered event is newer than its subscriber
\* and its client's last update, and so is what a satellite being served has
\* published.
FreshInv ==
    /\ \A c \in Conns : sub[c].rev <= Rev(log) /\ mark[c] <= Rev(log)
    /\ \A c \in Conns : \A e \in 1..Len(log) : sub[c].bufr[e] > 0 => Newer(c, e)
    /\ ~Idle => \A c \in Conns : \A e \in (sat.from + 1)..Len(log) : Newer(c, e)

\* The numbers of a well typed state.
LEMMA StateNumbers ==
    ASSUME TypeOK
    PROVE  /\ log \in Seq(Events) /\ Len(log) \in Nat /\ Rev(log) \in Nat
           /\ \A e \in 1..Len(log) : e \in 1..MaxEvents /\ log[e].rev \in Nat
           /\ \A c \in Conns : /\ sub[c] \in Subscriber /\ sub[c].rev \in Nat /\ mark[c] \in Nat
                               /\ \A e \in 1..MaxEvents : /\ sub[c].bufr[e] \in Nat
                                                          /\ got[c][e] \in Nat
           /\ KnownRevs \subseteq Nat
           /\ ~Idle => /\ sat \in SatReqs /\ sat.rev \in Nat /\ sat.from \in Nat
                       /\ sat.tops \in SUBSET Topics
<1>1. log \in Seq(Events) /\ Len(log) \in Nat /\ Rev(log) \in Nat
  BY RevNat, LenProperties DEF TypeOK
<1>2. \A e \in 1..Len(log) : e \in 1..MaxEvents /\ log[e].rev \in Nat
  BY <1>1, InBounds, EventRevs DEF TypeOK
<1>3. \A c \in Conns : /\ sub[c] \in Subscriber /\ sub[c].rev \in Nat /\ mark[c] \in Nat
                       /\ sub[c].bufr \in Bufr /\ got[c] \in Bufr
  BY SubscriberParts DEF TypeOK
<1>4. KnownRevs \subseteq Nat
  BY <1>2 DEF KnownRevs
<1>5. ASSUME ~Idle
      PROVE  sat \in SatReqs /\ sat.rev \in Nat /\ sat.from \in Nat /\ sat.tops \in SUBSET Topics
  BY <1>5 DEF TypeOK, Idle, SatReqs
<1> QED
  BY <1>1, <1>2, <1>3, <1>4, <1>5, BufrNat

\* What a satellite published is shown when it is done.
LEMMA SatEndEffect ==
    ASSUME TypeOK, NEW c \in Conns, SatEnd(c)
    PROVE  LET new   == (sat.from + 1)..Len(log)
               shown == Shown(log, new, c)
           IN  /\ ~Idle /\ c \in sat.conn /\ Idle' /\ UNCHANGED <<log, gone>>
               /\ sat.rev \in Nat /\ sat.tops \in SUBSET Topics
               /\ Subscribe(c, sat.rev, sat.tops, shown)
               /\ shown \in [Conns -> Subscriber]
               /\ \A d \in Conns :
                    /\ shown[d].rev = sub[d].rev /\ shown[d].subs = sub[d].subs
                    /\ shown[d].mons = {} <=> sub[d].mons = {}
                    /\ \A e \in 1..MaxEvents :
                         shown[d].bufr[e] = sub[d].bufr[e]
                             + One({f \in new : d # c /\ d \in tmap[log[f].act.top]}, e)
<1> DEFINE new   == (sat.from + 1)..Len(log)
           shown == Shown(log, new, c)
<1>1. /\ ~Idle /\ c \in sat.conn /\ sat' = NoSat /\ UNCHANGED <<log, gone>>
      /\ Subscribe(c, sat.rev, sat.tops, shown)
  BY DEF SatEnd
<1>2. sat.rev \in Nat /\ sat.tops \in SUBSET Topics /\ sat.from \in Nat
  BY <1>1, StateNumbers
<1>3. \A e \in new : log[e] \in Events
  <2>1. \A e \in new : e \in 1..Len(log)
    BY <1>2, StateNumbers
  <2> QED
    BY <2>1, StateNumbers, EventRevs
<1>4. sat' = NoSat => Idle'
  BY DEF Idle
<1>5. shown \in [Conns -> Subscriber]
  BY <1>3, ShownProperties DEF TypeOK
<1> QED
  BY <1>1, <1>2, <1>3, <1>4, <1>5, ShownEffect

LEMMA SubscribeOthers ==
    ASSUME TypeOK, NEW c \in Conns, NEW r \in Nat, NEW tops \in SUBSET Topics,
           NEW subs \in [Conns -> Subscriber], Subscribe(c, r, tops, subs)
    PROVE  \A d \in Conns \ {c} : /\ sub'[d] = subs[d] /\ got'[d] = got[d]
                                  /\ mark'[d] = mark[d] /\ since'[d] = since[d]
  BY SubscribeEffect

LEMMA SubscribeRegisters ==
    ASSUME TypeOK, NEW c \in Conns, NEW r \in Nat, NEW tops \in SUBSET Topics,
           NEW subs \in [Conns -> Subscriber], Subscribe(c, r, tops, subs)
    PROVE  smap' = IF tops = {} THEN smap ELSE smap \cup {c}
  BY SubscribeEffect

LEMMA SubscribeFresh ==
    ASSUME TypeOK, TypeOK', LedgerLeads, ~LateHistory, UNCHANGED log,
           NEW c \in Conns, NEW r \in Nat, NEW tops \in SUBSET Topics,
           NEW subs \in [Conns -> Subscriber], Subscribe(c, r, tops, subs), Idle',
           \A d \in Conns : subs[d].rev <= Rev(log) /\ mark[d] <= Rev(log),
           \A d \in Conns : \A e \in 1..Len(log) :
              subs[d].bufr[e] > 0 => log[e].rev > subs[d].rev /\ log[e].rev > mark[d]
    PROVE  FreshInv'
<1> DEFINE s     == subs[c]
           fresh == tops \ s.subs
           hist  == EventsSince(log, r, fresh)
<1>0. /\ Rev(log) \in Nat /\ \A e \in 1..Len(log) : log[e].rev \in Nat /\ e \in 1..MaxEvents
      /\ \A e \in 1..Len(log) : log[e].rev <= Rev(log)
      /\ s.rev \in Nat /\ mark[c] \in Nat /\ NoEvents \in Bufr
      /\ \A e \in 1..MaxEvents : s.bufr[e] \in Nat /\ NoEvents[e] = 0
  BY StateNumbers, BufrNat, SubscriberParts, NoSubType DEF LedgerLeads
<1>1. \A d \in Conns \ {c} : sub'[d] = subs[d] /\ mark'[d] = mark[d]
  BY SubscribeOthers
<1>2. /\ sub'[c].rev <= Rev(log) /\ mark'[c] <= Rev(log)
      /\ \A e \in 1..Len(log) :
           sub'[c].bufr[e] > 0 => log[e].rev > sub'[c].rev /\ log[e].rev > mark'[c]
  <2>1. \/ sub'[c].rev = s.rev /\ sub'[c].bufr = s.bufr /\ mark'[c] = mark[c]
        \/ Granted(c, r, fresh, s)
    BY SubscribeEffect DEF feedVars, Outcome
  <2>2. CASE sub'[c].rev = s.rev /\ sub'[c].bufr = s.bufr /\ mark'[c] = mark[c]
    BY <2>2
  <2>3. CASE Granted(c, r, fresh, s)
    <3> HIDE DEF s, fresh
    <3>1. CASE Answers(s, Rev(log))
      <4>1. mark'[c] = Rev(log) /\ sub'[c].bufr = NoEvents
        BY <2>3, <3>1 DEF Granted
      <4>2. sub'[c].rev = IF Rev(log) > s.rev THEN Rev(log) ELSE s.rev
        BY <2>3 DEF Granted
      <4>3. s.rev <= Rev(log)
        BY DEF s
      <4> QED
        BY <1>0, <4>1, <4>2, <4>3
    <3>2. CASE ~Answers(s, Rev(log))
      <4>1. ~(Rev(log) > s.rev)
        BY <3>2 DEF Answers
      <4>2. /\ sub'[c].rev = s.rev /\ mark'[c] = mark[c] /\ r = Rev(log)
            /\ \A e \in 1..MaxEvents : sub'[c].bufr[e] = s.bufr[e] + One(hist, e)
        BY <1>0, <2>3, <3>2, <4>1 DEF Granted
      <4>3. \A e \in 1..Len(log) : One(hist, e) = 0
        BY <1>0, <4>2 DEF One, EventsSince
      <4>4. \A e \in 1..Len(log) : sub'[c].bufr[e] = s.bufr[e]
        BY <1>0, <4>2, <4>3
      <4> QED
        BY <4>2, <4>4 DEF s
    <3> QED
      BY <3>1, <3>2
  <2> QED
    BY <2>1, <2>2, <2>3
<1>3. \A d \in Conns :
        /\ sub'[d].rev <= Rev(log) /\ mark'[d] <= Rev(log)
        /\ \A e \in 1..Len(log) :
             sub'[d].bufr[e] > 0 => log[e].rev > sub'[d].rev /\ log[e].rev > mark'[d]
  BY <1>1, <1>2
<1>4. log' = log
  OBVIOUS
<1> QED
  BY <1>3, <1>4 DEF FreshInv, Newer

LEMMA FreshStep ==
    ASSUME TypeOK, TypeOK', TriggerInv, FreshInv, ~LateHistory, [Next]_vars
    PROVE  FreshInv'
<1>0. /\ OnlyRegistered /\ LedgerLeads
      /\ \A c \in Conns : \A e \in 1..MaxEvents : sub[c].bufr[e] > 0 => e \in 1..Len(log)
  BY DEF TriggerInv, BuffersLogged
<1>1. ASSUME NEW c \in Conns, NEW acts \in Transs, NEW now \in Nows, Pub(c, acts, now)
      PROVE  FreshInv'
  <2> DEFINE new == (Len(log) + 1)..Len(log')
  <2>1. /\ Idle' /\ mark'[c] = Rev(log') /\ sub'[c].rev <= Rev(log')
        /\ \A e \in 1..MaxEvents : /\ sub'[c].bufr[e] \in {0, sub[c].bufr[e]}
                                   /\ sub'[c].bufr[e] > 0 => ~(Rev(log) > sub[c].rev)
    BY <1>0, <1>1, PubEffect DEF FreshInv, Idle
  <2>2. ASSUME NEW d \in Conns \ {c}
        PROVE  /\ sub'[d].rev = sub[d].rev /\ mark'[d] = mark[d]
               /\ \A e \in 1..MaxEvents :
                    sub'[d].bufr[e] = sub[d].bufr[e]
                        + One({f \in new : d \in tmap[log'[f].act.top]}, e)
    BY <1>0, <1>1, PubEffect
  <2>3. /\ Len(log) < Len(log') /\ Len(log) \in Nat /\ Len(log') \in Nat
        /\ Len(log') <= MaxEvents /\ MaxEvents \in Nat
        /\ Rev(log) < Rev(log') /\ Rev(log) \in Nat /\ Rev(log') \in Nat
        /\ \A e \in 1..Len(log) : log'[e] = log[e]
        /\ \A e \in new : log'[e].rev = Rev(log')
    BY <1>0, <1>1, PubLedger, BoundsAssumption
  <2> HIDE DEF new
  <2>4. \A e \in 1..MaxEvents : sub'[c].bufr[e] = 0
    <3> SUFFICES ASSUME NEW e \in 1..MaxEvents, sub'[c].bufr[e] # 0
                 PROVE  FALSE
      OBVIOUS
    <3>1. sub'[c].bufr[e] = sub[c].bufr[e] /\ sub[c].bufr[e] \in Nat
      BY <2>1, StateNumbers
    <3>2. sub[c].bufr[e] > 0
      BY <3>1
    <3>3. e \in 1..Len(log) /\ log[e].rev > sub[c].rev /\ log[e].rev <= Rev(log)
      BY <1>0, <3>2 DEF FreshInv, Newer, LedgerLeads
    <3>4. log[e].rev \in Nat /\ sub[c].rev \in Nat
      BY <3>3, StateNumbers
    <3> QED
      BY <2>1, <2>3, <3>1, <3>2, <3>3, <3>4
  <2>5. ASSUME NEW d \in Conns
        PROVE  /\ sub'[d].rev <= Rev(log') /\ mark'[d] <= Rev(log')
               /\ \A e \in 1..Len(log') : sub'[d].bufr[e] > 0 =>
                     log'[e].rev > sub'[d].rev /\ log'[e].rev > mark'[d]
    <3>1. CASE d = c
      BY <2>1, <2>3, <2>4, <3>1
    <3>2. CASE d # c
      <4>1. /\ sub[d].rev \in Nat /\ mark[d] \in Nat
            /\ sub[d].rev <= Rev(log) /\ mark[d] <= Rev(log)
        BY StateNumbers DEF FreshInv
      <4>2. sub'[d].rev = sub[d].rev /\ mark'[d] = mark[d]
        BY <2>2, <3>2
      <4>3. ASSUME NEW e \in 1..Len(log'), sub'[d].bufr[e] > 0
            PROVE  log'[e].rev > sub[d].rev /\ log'[e].rev > mark[d]
        <5>1. e \in 1..MaxEvents
          BY <2>3
        <5>2. CASE e \in new
          BY <2>3, <4>1, <5>2
        <5>3. CASE e \notin new
          <6>1. e \in 1..Len(log)
            BY <2>3, <5>3 DEF new
          <6>2. One({f \in new : d \in tmap[log'[f].act.top]}, e) = 0
            BY <5>3 DEF One
          <6>3. sub'[d].bufr[e] = sub[d].bufr[e] + 0
            BY <2>2, <3>2, <5>1, <6>2
          <6>4. sub[d].bufr[e] \in Nat
            BY <5>1, StateNumbers
          <6>5. sub[d].bufr[e] > 0
            BY <4>3, <6>3, <6>4
          <6> QED
            BY <2>3, <6>1, <6>5 DEF FreshInv, Newer
        <5> QED
          BY <5>2, <5>3
      <4> QED
        BY <2>3, <4>1, <4>2, <4>3
    <3> QED
      BY <3>1, <3>2
  <2> QED
    BY <2>1, <2>5 DEF FreshInv, Newer
<1>2. ASSUME NEW c \in Conns, NEW r \in KnownRevs, NEW tops \in SUBSET Topics,
             SubReq(c, r, tops)
      PROVE  FreshInv'
  <2>1. Subscribe(c, r, tops, sub) /\ UNCHANGED <<log, sat>> /\ Idle /\ r \in Nat
    BY <1>2, StateNumbers DEF SubReq, Serves
  <2>2. Idle' /\ sub \in [Conns -> Subscriber]
    BY <2>1 DEF Idle, TypeOK
  <2>3. \A d \in Conns : sub[d].rev <= Rev(log) /\ mark[d] <= Rev(log)
    BY DEF FreshInv
  <2>4. \A d \in Conns : \A e \in 1..Len(log) :
           sub[d].bufr[e] > 0 => log[e].rev > sub[d].rev /\ log[e].rev > mark[d]
    BY DEF FreshInv, Newer
  <2> QED
    BY <1>0, <2>1, <2>2, <2>3, <2>4, SubscribeFresh
<1>3. ASSUME NEW c \in Conns, SatEnd(c)
      PROVE  FreshInv'
  <2> DEFINE new   == (sat.from + 1)..Len(log)
             shown == Shown(log, new, c)
  <2>1. /\ ~Idle /\ Idle' /\ log' = log /\ shown \in [Conns -> Subscriber]
        /\ sat.rev \in Nat /\ sat.tops \in SUBSET Topics
        /\ Subscribe(c, sat.rev, sat.tops, shown)
        /\ \A d \in Conns :
             /\ shown[d].rev = sub[d].rev
             /\ \A e \in 1..MaxEvents :
                  shown[d].bufr[e] = sub[d].bufr[e]
                      + One({f \in new : d # c /\ d \in tmap[log[f].act.top]}, e)
    BY <1>3, SatEndEffect
  <2> HIDE DEF shown
  <2>2. \A d \in Conns : shown[d].rev <= Rev(log) /\ mark[d] <= Rev(log)
    BY <2>1 DEF FreshInv
  <2>3. ASSUME NEW d \in Conns, NEW e \in 1..Len(log), shown[d].bufr[e] > 0
        PROVE  log[e].rev > shown[d].rev /\ log[e].rev > mark[d]
    <3>1. e \in 1..MaxEvents /\ sub[d].bufr[e] \in Nat
      BY StateNumbers
    <3>2. CASE e \in new
      BY <2>1, <3>2 DEF FreshInv, Newer
    <3>3. CASE e \notin new
      <4>1. One({f \in new : d # c /\ d \in tmap[log[f].act.top]}, e) = 0
        BY <3>3 DEF One
      <4>2. sub[d].bufr[e] > 0
        BY <2>1, <2>3, <3>1, <4>1
      <4> QED
        BY <2>1, <4>2 DEF FreshInv, Newer
    <3> QED
      BY <3>2, <3>3
  <2> QED
    BY <1>0, <2>1, <2>2, <2>3, SubscribeFresh
<1>4. ASSUME NEW c \in Conns, Idle, UNCHANGED <<log, sat, mark>>,
             \A d \in Conns \ {c} : sub'[d] = sub[d],
             \/ sub'[c] = NoSub
             \/ /\ sub'[c].rev = sub[c].rev
                /\ \A e \in 1..Len(log) : sub'[c].bufr[e] > 0 => sub[c].bufr[e] > 0
      PROVE  FreshInv'
  <2>1. /\ Rev(log) \in Nat /\ NoSub.rev = 0
        /\ \A e \in 1..Len(log) : e \in 1..MaxEvents /\ NoSub.bufr[e] = 0
    BY StateNumbers, BufrNat DEF NoSub
  <2>2. ASSUME NEW d \in Conns
        PROVE  /\ sub'[d].rev <= Rev(log) /\ mark'[d] <= Rev(log)
               /\ \A e \in 1..Len(log) : sub'[d].bufr[e] > 0 =>
                     log[e].rev > sub'[d].rev /\ log[e].rev > mark'[d]
    <3>1. CASE d = c /\ sub'[c] = NoSub
      BY <1>4, <2>1, <3>1 DEF FreshInv
    <3>2. CASE sub'[d].rev = sub[d].rev
                 /\ \A e \in 1..Len(log) : sub'[d].bufr[e] > 0 => sub[d].bufr[e] > 0
      BY <1>4, <3>2 DEF FreshInv, Newer
    <3> QED
      BY <1>4, <3>1, <3>2
  <2>3. Idle' /\ log' = log
    BY <1>4 DEF Idle
  <2> QED
    BY <2>2, <2>3 DEF FreshInv, Newer
<1>5. ASSUME NEW c \in Conns, NEW tops \in SUBSET Topics, Unsub(log, c, tops), Forgo(c, tops),
             Idle, UNCHANGED <<log, sat, mark>>
      PROVE  FreshInv'
  <2>1. \A d \in Conns \ {c} : sub'[d] = sub[d]
    BY <1>5, UnsubEffect
  <2>2. \/ sub'[c] = sub[c] \/ sub'[c] = NoSub
        \/ \E r : Keeps(c, r)
    BY <1>5, UnsubEffect DEF Drops
  <2>3. ASSUME NEW r, Keeps(c, r)
        PROVE  /\ sub'[c].rev = sub[c].rev
               /\ \A e \in 1..Len(log) : sub'[c].bufr[e] > 0 => sub[c].bufr[e] > 0
    <3>1. sub'[c].rev = sub[c].rev /\ sub'[c].bufr = Filter(log, sub[c].bufr, r.drop)
      BY <2>3, StateNumbers DEF Keeps, Subscriber
    <3>2. \A e \in 1..Len(log) : e \in 1..MaxEvents
      BY StateNumbers
    <3> QED
      BY <3>1, <3>2 DEF Filter
  <2> QED
    BY <1>4, <1>5, <2>1, <2>2, <2>3
<1>6. ASSUME NEW c \in Conns, \/ \E watch \in Watches : MonReq(c, watch)
                              \/ \E id \in 1..MaxMons : UnmonReq(c, id)
      PROVE  FreshInv'
  <2>1. /\ UNCHANGED <<log, sat, feedVars, gone>> /\ Idle
        /\ \A d \in Conns \ {c} : sub'[d] = sub[d]
        /\ \/ sub'[c].rev = sub[c].rev /\ sub'[c].bufr = sub[c].bufr
           \/ sub'[c] = NoSub
    BY <1>0, <1>6, MonitorEffect
  <2> QED
    BY <1>4, <2>1 DEF feedVars
<1>7. ASSUME HandleBcast
      PROVE  FreshInv'
  <2>1. log' = log /\ Idle'
    BY <1>7, BcastEffect DEF Idle
  <2>2. ASSUME NEW d \in Conns
        PROVE  /\ sub'[d].rev <= Rev(log) /\ mark'[d] <= Rev(log)
               /\ \A e \in 1..Len(log) : sub'[d].bufr[e] > 0 =>
                     log[e].rev > sub'[d].rev /\ log[e].rev > mark'[d]
    <3>1. \/ /\ sub'[d].rev = IF Rev(log) > sub[d].rev THEN Rev(log) ELSE sub[d].rev
             /\ sub'[d].bufr = NoEvents /\ mark'[d] = Rev(log)
          \/ sub'[d] = sub[d] /\ mark'[d] = mark[d]
      BY <1>7, BcastEffect DEF Untouched
    <3>2. \A e \in 1..Len(log) : NoEvents[e] = 0
      BY StateNumbers, BufrNat
    <3>3. sub[d].rev \in Nat /\ Rev(log) \in Nat /\ sub[d].rev <= Rev(log)
      BY StateNumbers DEF FreshInv
    <3> QED
      BY <3>1, <3>2, <3>3 DEF FreshInv, Newer
  <2> QED
    BY <2>1, <2>2 DEF FreshInv, Newer
<1>8. ASSUME NEW c \in Conns, NEW batch \in Batches, NEW r \in KnownRevs,
             NEW tops \in SUBSET Topics, SatBegin(c, batch, r, tops)
      PROVE  FreshInv'
  <2>1. UNCHANGED <<log, sub, mark>> /\ sat'.from = Len(log)
    BY <1>8 DEF SatBegin, subsVars, feedVars
  <2>2. \A e \in (sat'.from + 1)..Len(log') : FALSE
    BY <2>1, StateNumbers
  <2> QED
    BY <2>1, <2>2 DEF FreshInv, Newer
<1>9. ASSUME NEW now \in Nows, SatPublish(now)
      PROVE  FreshInv'
  <2>1. /\ UNCHANGED <<sub, mark>>
        /\ ~Idle /\ sat' = [sat EXCEPT !.batch = Tail(@)] /\ sat \in SatReqs
        /\ Rev(log) < Rev(log') /\ Rev(log) \in Nat /\ Rev(log') \in Nat
        /\ \A e \in 1..Len(log) : log'[e] = log[e]
        /\ \A e \in (Len(log) + 1)..Len(log') : log'[e].rev = Rev(log')
    BY <1>9, SatPublishEffect
  <2>2. sat'.from = sat.from /\ sat.from \in Nat /\ Len(log) \in Nat /\ Len(log') \in Nat
    BY <2>1, StateNumbers, SatPublishEffect, LenProperties, <1>9 DEF SatReqs
  <2>3. ASSUME NEW d \in Conns
        PROVE  /\ sub'[d].rev <= Rev(log') /\ mark'[d] <= Rev(log')
               /\ sub'[d].rev < Rev(log') /\ mark'[d] < Rev(log')
    BY <2>1, StateNumbers DEF FreshInv
  <2>4. ASSUME NEW d \in Conns, NEW e \in 1..Len(log'),
               sub'[d].bufr[e] > 0 \/ e \in (sat.from + 1)..Len(log')
        PROVE  log'[e].rev > sub'[d].rev /\ log'[e].rev > mark'[d]
    <3>1. CASE e \in (Len(log) + 1)..Len(log')
      BY <2>1, <2>3, <3>1, StateNumbers
    <3>2. CASE e \notin (Len(log) + 1)..Len(log')
      <4>1. e \in 1..Len(log) /\ (e \in (sat.from + 1)..Len(log') => e \in (sat.from + 1)..Len(log))
        BY <2>2, <3>2
      <4> QED
        BY <2>1, <2>4, <4>1 DEF FreshInv, Newer
    <3> QED
      BY <3>1, <3>2
  <2>5. \A e \in (sat'.from + 1)..Len(log') : e \in 1..Len(log')
    BY <2>2
  <2> QED
    BY <2>2, <2>3, <2>4, <2>5 DEF FreshInv, Newer
<1>10. ASSUME SatFails
       PROVE  FreshInv'
  <2>1. UNCHANGED <<log, sub, mark>> /\ Idle'
    BY <1>10 DEF SatFails, subsVars, feedVars, Idle
  <2> QED
    BY <2>1 DEF FreshInv, Newer
<1>11. ASSUME Quiet
       PROVE  FreshInv'
  BY <1>11, QuietEffect DEF FreshInv, Newer, Idle
<1>12. ASSUME NEW c \in Conns, NEW tops \in SUBSET Topics, UnsubReq(c, tops)
       PROVE  FreshInv'
  BY <1>5, <1>12 DEF UnsubReq, Serves
<1>13. ASSUME NEW c \in Conns, Signoff(c)
       PROVE  FreshInv'
  BY <1>5, <1>13 DEF Signoff
<1> QED
  BY <1>1, <1>2, <1>3, <1>6, <1>7, <1>8, <1>9, <1>10, <1>11, <1>12, <1>13, Steps

LEMMA FreshInit == ASSUME Init PROVE FreshInv
<1>1. log = << >> /\ Rev(log) = 0 /\ Len(log) = 0 /\ Idle
  BY EmptySeq DEF Init, Rev, Idle
<1>2. \A c \in Conns : sub[c].rev = 0 /\ mark[c] = 0
  BY DEF Init, SubscribersInit, NoSub
<1> QED
  BY <1>1, <1>2 DEF FreshInv

\* A client that resumes from the revision of its last update misses nothing:
\* no event it is owed up to that revision is still in its buffer.  Clients that
\* are up to date ask no older history, which Update holds back (LateHistory).
THEOREM NothingBehindTheMark == ASSUME ~LateHistory PROVE Spec => []Watermark
<1>1. TypeOK /\ TriggerInv /\ FreshInv /\ [Next]_vars /\ TypeOK' => FreshInv'
  BY FreshStep
<1>2. TypeOK /\ TriggerInv /\ FreshInv => Watermark
  <2> SUFFICES ASSUME TypeOK, TriggerInv, FreshInv, NEW c \in Conns, NEW e \in Shows,
                      log[e].rev <= mark[c]
               PROVE  sub[c].bufr[e] = 0
    BY DEF Watermark
  <2>1. e \in 1..Len(log)
    BY StateNumbers DEF Shows, Idle, TriggerInv, SatAhead
  <2>2. log[e].rev \in Nat /\ mark[c] \in Nat /\ sub[c].bufr[e] \in Nat
    BY <2>1, StateNumbers
  <2> QED
    BY <2>1, <2>2 DEF FreshInv, Newer
<1> QED
  BY <1>1, <1>2, FreshInit, TypeCorrect, TriggerAlways, PTL DEF Spec

\* After a broadcast up to a revision no subscriber keeps an event up to it,
\* under the same condition.
THEOREM BroadcastsFlush == ASSUME ~LateHistory PROVE Spec => BcastFlushes
<1> DEFINE Flushes == bcast' # bcast =>
               \A c \in smap : \A e \in 1..Len(log) :
                   log[e].rev <= bcast' => sub'[c].bufr[e] = 0
<1>1. TypeOK /\ TriggerInv /\ FreshInv /\ [Next]_vars /\ TypeOK' => FreshInv'
  BY FreshStep
<1>2. TypeOK /\ TriggerInv /\ FreshInv /\ [Next]_vars => [Flushes]_vars
  <2> SUFFICES ASSUME TypeOK, TriggerInv, FreshInv, Next, bcast' # bcast,
                      NEW c \in smap, NEW e \in 1..Len(log)
               PROVE  sub'[c].bufr[e] = 0
    OBVIOUS
  <2>1. HandleBcast
    BY DEF Next, Pub, SubReq, SatBegin, SatPublish, SatFails, SatEnd, UnsubReq, MonReq,
           UnmonReq, Signoff, Unknown, WindowCloses, TimerFires, HandleBtrig, Stop,
           Btrig, ctrlVars
  <2>2. Due(Rev(log)) /\ c \in Conns
    BY <2>1, BcastEffect DEF TypeOK
  <2>3. /\ e \in 1..MaxEvents /\ sub[c].bufr[e] \in Nat /\ log[e].rev \in Nat
        /\ log[e].rev <= Rev(log) /\ sub[c].rev \in Nat /\ Rev(log) \in Nat
    BY <2>2, StateNumbers DEF TriggerInv, LedgerLeads
  <2>4. CASE Answers(sub[c], Rev(log))
    BY <2>1, <2>2, <2>3, <2>4, BcastEffect, BufrNat
  <2>5. CASE ~Answers(sub[c], Rev(log))
    <3>1. sub'[c] = sub[c] /\ ~(Rev(log) > sub[c].rev)
      BY <2>1, <2>2, <2>5, BcastEffect DEF Untouched, Answers
    <3> QED
      BY <2>2, <2>3, <3>1 DEF FreshInv, Newer
  <2> QED
    BY <2>4, <2>5
<1> QED
  BY <1>1, <1>2, FreshInit, TypeCorrect, TriggerAlways, PTL DEF Spec, BcastFlushes

-----------------------------------------------------------------------------
(* What a client holds, what is registered for it, and what waits for it. *)

(***************************************************************************)
(* Unsub without topics gives up every topic of a subscriber that holds    *)
(* one, or two and no monitor; of three it forgets one, and with a monitor *)
(* it leaves events of the second behind (run evt_unsub_all).              *)
(***************************************************************************)
FewTopics ==
    \A c \in Conns :
        /\ IsFiniteSet(sub[c].subs)
        /\ \/ Cardinality(sub[c].subs) <= 1
           \/ Cardinality(sub[c].subs) <= 2 /\ sub[c].mons = {}

LEMMA FewGivenUp ==
    ASSUME TypeOK, FewTopics, NEW c \in Conns, NEW tops \in SUBSET Topics,
           NEW r \in UnsubOutcomes(sub[c].subs, tops)
    PROVE  /\ r.keep = IF tops = {} THEN {} ELSE sub[c].subs \ tops
           /\ r.keep # {} \/ sub[c].mons # {} =>
                 /\ sub[c].subs \subseteq r.keep \cup r.drop
                 /\ r.keep \cap r.drop = {}
<1> DEFINE subs == sub[c].subs
<1>1. CASE tops # {}
  <2>1. r = [keep |-> subs \ tops, drop |-> tops]
    BY <1>1 DEF UnsubOutcomes
  <2> QED
    BY <1>1, <2>1
<1>2. CASE tops = {} /\ subs = {}
  <2>1. r = [keep |-> {}, drop |-> {}]
    BY <1>2 DEF UnsubOutcomes
  <2> QED
    BY <1>2, <2>1
<1>3. CASE tops = {} /\ subs # {}
  <2>1. PICK k \in SUBSET subs, t \in subs :
            /\ Cardinality(k) = (Cardinality(subs) - 1) \div 2
            /\ r = [keep |-> k, drop |-> k \cup {t}]
    BY <1>3 DEF UnsubOutcomes
  <2>2. IsFiniteSet(subs) /\ IsFiniteSet(k) /\ Cardinality(subs) \in Nat
    BY FS_Subset, FS_CardinalityType DEF FewTopics
  <2>3. Cardinality(subs) # 0
    BY <1>3, <2>2, FS_EmptySet
  <2>4. Cardinality(subs) = 1 \/ (Cardinality(subs) = 2 /\ sub[c].mons = {})
    BY <2>2, <2>3 DEF FewTopics
  <2>5. (Cardinality(subs) - 1) \div 2 = 0
    BY <2>4
  <2>6. k = {}
    BY <2>1, <2>2, <2>5, FS_EmptySet
  <2>7. CASE Cardinality(subs) = 1
    <3>1. PICK x : subs = {x}
      BY <2>2, <2>7, FS_Singleton
    <3> QED
      BY <1>3, <2>1, <2>6, <3>1
  <2>8. CASE Cardinality(subs) = 2 /\ sub[c].mons = {}
    BY <1>3, <2>1, <2>6, <2>8
  <2> QED
    BY <2>4, <2>7, <2>8
<1> QED
  BY <1>1, <1>2, <1>3

\* The client's topics are the subscriber's, asked from revisions the ledger
\* has reached; it is registered while it holds any, and owed what is buffered.
HeldBy(c) ==
    /\ sub[c].subs = DOMAIN since[c]
    /\ c \in smap <=> (sub[c].subs # {} \/ sub[c].mons # {})
    /\ \A t \in DOMAIN since[c] : since[c][t] <= Rev(log)
    /\ \A e \in 1..Len(log) : sub[c].bufr[e] > 0 => Owed(c, e)

\* A satellite being served has no subscriber, and what it published is after
\* whatever anyone asked from.
SatHeld ==
    /\ sat.conn \cap smap = {} /\ sat.rev <= Rev(log)
    /\ \A c \in Conns : \A t \in DOMAIN since[c] : \A e \in (sat.from + 1)..Len(log) :
          log[e].rev > since[c][t]

HeldInv == (\A c \in Conns : HeldBy(c)) /\ (~Idle => SatHeld)

\* The ledger only grows.
Extends == /\ Len(log) <= Len(log') /\ Len(log) \in Nat /\ Len(log') \in Nat
           /\ Rev(log) <= Rev(log') /\ Rev(log) \in Nat /\ Rev(log') \in Nat
           /\ \A e \in 1..Len(log) : log'[e] = log[e]

LEMMA SinceNat ==
    ASSUME TypeOK, NEW c \in Conns
    PROVE  \A t \in DOMAIN since[c] : since[c][t] \in Nat /\ t \in Topics
  BY DEF TypeOK

LEMMA HeldKept ==
    ASSUME TypeOK, NEW d \in Conns, HeldBy(d), Extends,
           since'[d] = since[d], sub'[d].subs = sub[d].subs,
           sub'[d].mons = {} <=> sub[d].mons = {}, d \in smap' <=> d \in smap,
           \A e \in 1..Len(log') : sub'[d].bufr[e] > 0 =>
              (e \in 1..Len(log) /\ sub[d].bufr[e] > 0) \/ Owed(d, e)'
    PROVE  HeldBy(d)'
<1>1. \A t \in DOMAIN since'[d] : since'[d][t] <= Rev(log')
  BY SinceNat DEF HeldBy, Extends
<1>2. ASSUME NEW e \in 1..Len(log'), sub'[d].bufr[e] > 0
      PROVE  Owed(d, e)'
  <2>1. CASE e \in 1..Len(log) /\ sub[d].bufr[e] > 0
    <3>1. Owed(d, e) /\ log'[e] = log[e]
      BY <2>1 DEF HeldBy, Extends
    <3> QED
      BY <3>1 DEF Owed
  <2> QED
    BY <1>2, <2>1
<1> QED
  BY <1>1, <1>2 DEF HeldBy

\* The same of the subscribers subs, while a subscription is worked on.
HeldIn(subs) ==
    \A d \in Conns : /\ HeldBy(d) /\ subs[d].subs = sub[d].subs
                     /\ subs[d].mons = {} <=> sub[d].mons = {}
                     /\ \A e \in 1..Len(log) : subs[d].bufr[e] > 0 => Owed(d, e)

LEMMA SubscribeHeld ==
    ASSUME TypeOK, ~LedgerFails, UNCHANGED log, Idle', LedgerLeads,
           NEW c \in Conns, NEW r \in Nat, r <= Rev(log), NEW tops \in SUBSET Topics,
           NEW subs \in [Conns -> Subscriber], Subscribe(c, r, tops, subs),
           HeldIn(subs)
    PROVE  HeldInv'
<1> DEFINE s     == subs[c]
           fresh == tops \ s.subs
           hist  == EventsSince(log, r, fresh)
<1>0. Extends /\ \A e \in 1..Len(log) : e \in 1..MaxEvents
  BY StateNumbers DEF Extends
<1>1. ASSUME NEW d \in Conns \ {c}
      PROVE  HeldBy(d)'
  <2>1. sub'[d] = subs[d] /\ since'[d] = since[d]
    BY SubscribeOthers
  <2>2. d \in smap' <=> d \in smap
    BY SubscribeRegisters
  <2>3. log' = log
    OBVIOUS
  <2>4. \A e \in 1..Len(log') : sub'[d].bufr[e] > 0 => Owed(d, e)'
    BY <2>1, <2>3 DEF Owed, HeldIn
  <2> QED
    BY <1>0, <2>1, <2>2, <2>4, HeldKept DEF HeldIn
<1>2. HeldBy(c)'
  <2>0. /\ HeldBy(c) /\ s.subs = sub[c].subs /\ (s.mons = {} <=> sub[c].mons = {})
        /\ \A e \in 1..Len(log) : s.bufr[e] > 0 => Owed(c, e)
        /\ \A e \in 1..MaxEvents : s.bufr[e] \in Nat /\ NoEvents[e] = 0
        /\ s.subs \subseteq Topics
    BY BufrNat, SubscriberParts DEF HeldIn
  <2>1. /\ smap' = IF tops = {} THEN smap ELSE smap \cup {c}
        /\ sub'[c].subs = s.subs \cup fresh /\ (sub'[c].mons = {} <=> s.mons = {})
        /\ \/ fresh = {} /\ sub'[c] = s /\ UNCHANGED feedVars
           \/ fresh # {} /\ Granted(c, r, fresh, s)
    <3>1. Outcome(c, r, fresh, s)
      BY SubscribeEffect
    <3> QED
      BY <3>1, SubscribeRegisters DEF Outcome
  <2> HIDE DEF s
  <2>2. c \in smap' <=> (sub'[c].subs # {} \/ sub'[c].mons # {})
    <3>1. CASE tops = {}
      BY <2>0, <2>1, <3>1 DEF HeldBy
    <3>2. CASE tops # {}
      BY <2>1, <3>2
    <3> QED
      BY <3>1, <3>2
  <2>3. CASE fresh = {} /\ sub'[c] = s /\ UNCHANGED feedVars
    <3>1. since' = since /\ log' = log
      BY <2>3 DEF feedVars
    <3> QED
      BY <2>0, <2>1, <2>2, <2>3, <3>1 DEF HeldBy, Owed
  <2>4. CASE fresh # {} /\ Granted(c, r, fresh, s)
    <3>1. since'[c] = [t \in DOMAIN since[c] \cup fresh |->
                          IF t \in fresh THEN r ELSE since[c][t]]
      BY <2>4 DEF Granted
    <3>2. sub'[c].subs = DOMAIN since'[c]
      BY <2>0, <2>1, <3>1 DEF HeldBy
    <3>3. \A t \in DOMAIN since'[c] : since'[c][t] <= Rev(log)
      BY <2>0, <3>1 DEF HeldBy
    <3>4. ASSUME NEW e \in 1..Len(log), sub'[c].bufr[e] > 0
          PROVE  /\ log[e].act.top \in DOMAIN since'[c]
                 /\ log[e].rev > since'[c][log[e].act.top]
      <4>1. ~Answers(s, Rev(log))
        BY <1>0, <2>0, <2>4, <3>4 DEF Granted
      <4>2. sub'[c].bufr[e] = s.bufr[e] + One(hist, e)
        BY <1>0, <2>4, <4>1 DEF Granted
      <4>3. CASE e \in hist
        BY <3>1, <4>3 DEF EventsSince
      <4>4. CASE e \notin hist
        <5>1. s.bufr[e] > 0
          BY <1>0, <2>0, <3>4, <4>2, <4>4 DEF One
        <5>2. Owed(c, e)
          BY <2>0, <5>1
        <5>3. log[e].act.top \in DOMAIN since[c] /\ log[e].act.top \notin fresh
          BY <2>0, <5>2 DEF Owed, HeldBy
        <5> QED
          BY <3>1, <5>2, <5>3 DEF Owed
      <4> QED
        BY <4>3, <4>4
    <3>5. log' = log
      OBVIOUS
    <3> HIDE DEF fresh
    <3> QED
      BY <2>2, <3>2, <3>3, <3>4, <3>5 DEF HeldBy, Owed
  <2> QED
    BY <2>1, <2>3, <2>4
<1> QED
  BY <1>1, <1>2 DEF HeldInv

LEMMA HeldPub ==
    ASSUME TypeOK, TriggerInv, HeldInv, NEW c \in Conns, NEW acts \in Transs, NEW now \in Nows,
           Pub(c, acts, now)
    PROVE  HeldInv'
<1> DEFINE new == (Len(log) + 1)..Len(log')
<1>0. OnlyRegistered
  BY DEF TriggerInv
<1>1. /\ Idle /\ UNCHANGED <<smap, tmap, sat, since, gone>>
      /\ sub'[c].subs = sub[c].subs /\ (sub'[c].mons = {} <=> sub[c].mons = {})
      /\ \A e \in 1..MaxEvents : sub'[c].bufr[e] \in {0, sub[c].bufr[e]}
  BY <1>0, PubEffect
<1>2. ASSUME NEW d \in Conns \ {c}
      PROVE  /\ sub'[d].subs = sub[d].subs /\ (sub'[d].mons = {} <=> sub[d].mons = {})
             /\ \A e \in 1..MaxEvents :
                  sub'[d].bufr[e] = sub[d].bufr[e]
                      + One({f \in new : d \in tmap[log'[f].act.top]}, e)
  BY <1>0, PubEffect
<1>3. /\ log' \in Seq(Events) /\ Len(log) < Len(log') /\ Len(log) \in Nat /\ Len(log') \in Nat
      /\ Len(log') <= MaxEvents /\ MaxEvents \in Nat
      /\ Rev(log) < Rev(log') /\ Rev(log) \in Nat /\ Rev(log') \in Nat
      /\ \A e \in 1..Len(log) : log'[e] = log[e]
      /\ \A e \in new : log'[e].rev = Rev(log')
  BY <1>0, PubLedger, BoundsAssumption
<1>4. Extends
  BY <1>3 DEF Extends
<1>5. \A d \in Conns : \A e \in 1..MaxEvents :
         sub[d].bufr[e] \in Nat /\ (sub[d].bufr[e] > 0 => e \in 1..Len(log))
  BY StateNumbers DEF TriggerInv, BuffersLogged
<1> HIDE DEF new
<1>6. ASSUME NEW d \in Conns
      PROVE  HeldBy(d)'
  <2>0. HeldBy(d)
    BY DEF HeldInv
  <2>1. ASSUME NEW e \in 1..Len(log'), sub'[d].bufr[e] > 0
        PROVE  (e \in 1..Len(log) /\ sub[d].bufr[e] > 0) \/ Owed(d, e)'
    <3>0. e \in 1..MaxEvents
      BY <1>3
    <3>1. CASE d = c
      <4>1. sub[c].bufr[e] > 0
        BY <1>1, <1>5, <2>1, <3>0, <3>1
      <4> QED
        BY <1>5, <3>0, <3>1, <4>1
    <3>2. CASE d # c /\ e \in new /\ d \in tmap[log'[e].act.top]
      <4>1. log'[e] \in Events
        BY <1>3, EventRevs
      <4>2. log'[e].act.top \in Topics
        BY <4>1 DEF Events, Actions
      <4>3. log'[e].act.top \in DOMAIN since[d]
        BY <1>0, <2>0, <3>2, <4>2 DEF OnlyRegistered, HeldBy
      <4>4. since[d][log'[e].act.top] <= Rev(log) /\ since[d][log'[e].act.top] \in Nat
        BY <2>0, <4>3, SinceNat DEF HeldBy
      <4>5. log'[e].rev > since[d][log'[e].act.top]
        BY <1>3, <3>2, <4>4
      <4> QED
        BY <1>1, <4>3, <4>5 DEF Owed
    <3>3. CASE d # c /\ ~(e \in new /\ d \in tmap[log'[e].act.top])
      <4>1. One({f \in new : d \in tmap[log'[f].act.top]}, e) = 0
        BY <3>3 DEF One
      <4>2. sub'[d].bufr[e] = sub[d].bufr[e] + 0
        BY <1>2, <3>0, <3>3, <4>1
      <4>3. sub[d].bufr[e] > 0
        BY <1>5, <2>1, <3>0, <4>2
      <4> QED
        BY <1>5, <3>0, <4>3
    <3> QED
      BY <3>1, <3>2, <3>3
  <2>2. /\ since'[d] = since[d] /\ sub'[d].subs = sub[d].subs
        /\ (sub'[d].mons = {} <=> sub[d].mons = {}) /\ (d \in smap' <=> d \in smap)
    BY <1>1, <1>2
  <2> QED
    BY <1>4, <2>0, <2>1, <2>2, HeldKept
<1> QED
  BY <1>1, <1>6 DEF HeldInv, Idle

\* With what it published shown, a satellite's subscription is worked on.
LEMMA SatShown ==
    ASSUME TypeOK, TriggerInv, HeldInv, NEW c \in Conns, SatEnd(c)
    PROVE  HeldIn(Shown(log, (sat.from + 1)..Len(log), c))
<1> DEFINE new   == (sat.from + 1)..Len(log)
           shown == Shown(log, new, c)
<1>1. /\ ~Idle /\ Idle' /\ UNCHANGED log
      /\ sat.rev \in Nat /\ sat.tops \in SUBSET Topics
      /\ Subscribe(c, sat.rev, sat.tops, shown)
      /\ shown \in [Conns -> Subscriber]
      /\ \A d \in Conns :
           /\ shown[d].subs = sub[d].subs
           /\ shown[d].mons = {} <=> sub[d].mons = {}
           /\ \A e \in 1..MaxEvents :
                shown[d].bufr[e] = sub[d].bufr[e]
                    + One({f \in new : d # c /\ d \in tmap[log[f].act.top]}, e)
  BY SatEndEffect
<1> HIDE DEF shown, new
<1>2. SatHeld /\ OnlyRegistered /\ LedgerLeads /\ \A d \in Conns : HeldBy(d)
  BY <1>1 DEF HeldInv, TriggerInv
<1>3. ASSUME NEW d \in Conns, NEW e \in 1..Len(log), shown[d].bufr[e] > 0
      PROVE  Owed(d, e)
  <2>1. e \in 1..MaxEvents /\ sub[d].bufr[e] \in Nat
    BY StateNumbers
  <2>2. CASE e \in new /\ d \in tmap[log[e].act.top]
    <3>1. log[e].act.top \in Topics
      <4>1. log[e] \in Events
        BY StateNumbers, EventRevs
      <4> QED
        BY <4>1 DEF Events, Actions
    <3>2. log[e].act.top \in DOMAIN since[d]
      BY <1>2, <2>2, <3>1 DEF OnlyRegistered, HeldBy
    <3> QED
      BY <1>2, <2>2, <3>2 DEF SatHeld, Owed, new
  <2>3. CASE ~(e \in new /\ d \in tmap[log[e].act.top])
    <3>1. One({f \in new : d # c /\ d \in tmap[log[f].act.top]}, e) = 0
      BY <2>3 DEF One
    <3>2. shown[d].bufr[e] = sub[d].bufr[e] + 0
      BY <1>1, <2>1, <3>1
    <3>3. sub[d].bufr[e] > 0
      BY <1>3, <2>1, <3>2
    <3> QED
      BY <1>2, <3>3 DEF HeldBy
  <2> QED
    BY <2>2, <2>3
<1>4. HeldIn(shown)
  BY <1>1, <1>2, <1>3 DEF HeldIn
<1> QED
  BY <1>4 DEF shown, new

LEMMA HeldSat ==
    ASSUME TypeOK, TriggerInv, HeldInv, ~LedgerFails, NEW c \in Conns, SatEnd(c)
    PROVE  HeldInv'
<1> DEFINE shown == Shown(log, (sat.from + 1)..Len(log), c)
<1>1. /\ ~Idle /\ Idle' /\ UNCHANGED log
      /\ sat.rev \in Nat /\ sat.tops \in SUBSET Topics
      /\ Subscribe(c, sat.rev, sat.tops, shown)
      /\ shown \in [Conns -> Subscriber]
  BY SatEndEffect
<1>2. HeldIn(shown)
  BY SatShown
<1> HIDE DEF shown
<1>3. sat.rev <= Rev(log) /\ LedgerLeads
  BY <1>1 DEF HeldInv, SatHeld, TriggerInv
<1> QED
  BY <1>1, <1>2, <1>3, SubscribeHeld

LEMMA HeldUnsub ==
    ASSUME TypeOK, HeldInv, FewTopics, NEW c \in Conns, NEW tops \in SUBSET Topics,
           Unsub(log, c, tops), Forgo(c, tops), Idle, UNCHANGED <<log, sat>>
    PROVE  HeldInv'
<1>0. Extends /\ \A e \in 1..Len(log) : e \in 1..MaxEvents
  BY StateNumbers DEF Extends
<1>1. \A d \in Conns \ {c} : sub'[d] = sub[d] /\ since'[d] = since[d]
  BY UnsubEffect
<1>2. /\ since'[c] = [t \in IF tops = {} THEN {} ELSE DOMAIN since[c] \ tops |-> since[c][t]]
      /\ \/ c \notin smap /\ smap' = smap /\ sub' = sub
         \/ \E r \in UnsubOutcomes(sub[c].subs, tops) : Drops(c, r) \/ Keeps(c, r)
  BY UnsubEffect
<1>3. \A d \in Conns \ {c} : d \in smap' <=> d \in smap
  BY <1>2 DEF Drops, Keeps
<1>4. ASSUME NEW d \in Conns \ {c} PROVE HeldBy(d)'
  BY <1>0, <1>1, <1>3, <1>4, HeldKept DEF HeldInv
<1>5. HeldBy(c) /\ log' = log
  BY DEF HeldInv
<1>6. \A t \in DOMAIN since'[c] : since'[c][t] <= Rev(log)
  BY <1>2, <1>5 DEF HeldBy
<1>7. CASE c \notin smap /\ smap' = smap /\ sub' = sub
  <2>1. sub[c].subs = {} /\ DOMAIN since[c] = {}
    BY <1>5, <1>7 DEF HeldBy
  <2>2. DOMAIN since'[c] = {}
    BY <1>2, <2>1
  <2>3. \A e \in 1..Len(log) : ~(sub[c].bufr[e] > 0)
    BY <1>5, <2>1 DEF HeldBy, Owed
  <2>4. HeldBy(c)'
    BY <1>5, <1>7, <2>1, <2>2, <2>3 DEF HeldBy
  <2> QED
    BY <1>4, <2>4 DEF HeldInv, Idle
<1>8. ASSUME NEW r \in UnsubOutcomes(sub[c].subs, tops), Drops(c, r)
      PROVE  HeldInv'
  <2>1. r.keep = IF tops = {} THEN {} ELSE sub[c].subs \ tops
    BY FewGivenUp
  <2>2. DOMAIN since'[c] = {}
    BY <1>2, <1>5, <1>8, <2>1 DEF HeldBy, Drops
  <2>3. sub'[c] = NoSub /\ c \notin smap'
    BY <1>8 DEF Drops
  <2>4. \A e \in 1..Len(log) : NoSub.bufr[e] = 0
    BY <1>0, NoSubIdle
  <2>5. HeldBy(c)'
    BY <1>5, <2>2, <2>3, <2>4 DEF HeldBy, NoSub
  <2> QED
    BY <1>4, <2>5 DEF HeldInv, Idle
<1>9. ASSUME NEW r \in UnsubOutcomes(sub[c].subs, tops), Keeps(c, r)
      PROVE  HeldInv'
  <2>1. /\ r.keep = IF tops = {} THEN {} ELSE sub[c].subs \ tops
        /\ sub[c].subs \subseteq r.keep \cup r.drop
    BY <1>9, FewGivenUp DEF Keeps
  <2>2. /\ sub'[c].subs = r.keep /\ sub'[c].mons = sub[c].mons
        /\ sub'[c].bufr = Filter(log, sub[c].bufr, r.drop)
        /\ c \in smap' /\ (r.keep # {} \/ sub[c].mons # {})
    BY <1>9 DEF Keeps, Subscriber, TypeOK
  <2>3. DOMAIN since'[c] = r.keep /\ \A t \in r.keep : since'[c][t] = since[c][t]
    BY <1>2, <1>5, <2>1 DEF HeldBy
  <2>4. ASSUME NEW e \in 1..Len(log), sub'[c].bufr[e] > 0
        PROVE  Owed(c, e)'
    <3>1. log[e].act.top \notin r.drop /\ sub[c].bufr[e] > 0
      BY <1>0, <2>2, <2>4 DEF Filter
    <3>2. Owed(c, e)
      BY <1>5, <3>1 DEF HeldBy
    <3>3. log[e].act.top \in r.keep
      BY <1>5, <2>1, <3>1, <3>2 DEF HeldBy, Owed
    <3> QED
      BY <1>5, <2>3, <3>2, <3>3 DEF Owed
  <2>5. HeldBy(c)'
    BY <1>5, <1>6, <2>2, <2>3, <2>4 DEF HeldBy
  <2> QED
    BY <1>4, <2>5 DEF HeldInv, Idle
<1> QED
  BY <1>2, <1>7, <1>8, <1>9

LEMMA HeldStep ==
    ASSUME TypeOK, TriggerInv, HeldInv, FewTopics, ~LedgerFails, [Next]_vars
    PROVE  HeldInv'
<1>0. OnlyRegistered /\ LedgerLeads
  BY DEF TriggerInv
<1>1. ASSUME NEW c \in Conns, NEW r \in KnownRevs, NEW tops \in SUBSET Topics,
             SubReq(c, r, tops)
      PROVE  HeldInv'
  <2>1. Subscribe(c, r, tops, sub) /\ UNCHANGED <<log, sat>> /\ Idle /\ r \in Nat
    BY <1>1, StateNumbers DEF SubReq, Serves
  <2>2. Idle' /\ sub \in [Conns -> Subscriber]
    BY <2>1 DEF Idle, TypeOK
  <2>3. r <= Rev(log)
    BY <1>0, StateNumbers DEF KnownRevs, LedgerLeads
  <2>4. HeldIn(sub)
    BY DEF HeldIn, HeldInv, HeldBy
  <2> QED
    BY <1>0, <2>1, <2>2, <2>3, <2>4, SubscribeHeld
<1>2. ASSUME NEW c \in Conns, \/ \E watch \in Watches : MonReq(c, watch)
                              \/ \E id \in 1..MaxMons : UnmonReq(c, id)
      PROVE  HeldInv'
  <2>1. /\ UNCHANGED <<log, sat, feedVars, gone>> /\ Idle
        /\ smap' \ {c} = smap \ {c}
        /\ \A d \in Conns \ {c} : sub'[d] = sub[d]
        /\ (c \in smap <=> (sub[c].subs # {} \/ sub[c].mons # {})) =>
              (c \in smap' <=> (sub'[c].subs # {} \/ sub'[c].mons # {}))
        /\ sub'[c].subs = sub[c].subs
        /\ \/ sub'[c].rev = sub[c].rev /\ sub'[c].bufr = sub[c].bufr
           \/ sub'[c] = NoSub
    BY <1>0, <1>2, MonitorEffect
  <2>2. /\ since' = since /\ log' = log /\ \A d \in Conns : HeldBy(d)
        /\ \A e \in 1..Len(log) : NoSub.bufr[e] = 0
    BY <2>1, StateNumbers, NoSubIdle DEF HeldInv, feedVars
  <2>3. ASSUME NEW d \in Conns \ {c} PROVE HeldBy(d)'
    BY <2>1, <2>2 DEF HeldBy, Owed
  <2>4. HeldBy(c)'
    BY <2>1, <2>2 DEF HeldBy, Owed
  <2> QED
    BY <2>1, <2>3, <2>4 DEF HeldInv, Idle
<1>3. ASSUME HandleBcast
      PROVE  HeldInv'
  <2>1. /\ UNCHANGED <<log, smap, sat, since, gone>> /\ Idle
        /\ \A c \in Conns : /\ sub'[c].subs = sub[c].subs
                            /\ sub'[c].mons = {} <=> sub[c].mons = {}
                            /\ sub'[c].bufr = NoEvents \/ sub'[c].bufr = sub[c].bufr
    BY <1>3, BcastEffect DEF Untouched
  <2>2. \A e \in 1..Len(log) : NoEvents[e] = 0
    BY StateNumbers, BufrNat
  <2>3. ASSUME NEW d \in Conns PROVE HeldBy(d)'
    <3>1. HeldBy(d)
      BY DEF HeldInv
    <3> QED
      BY <2>1, <2>2, <3>1 DEF HeldBy, Owed
  <2> QED
    BY <2>1, <2>3 DEF HeldInv, Idle
<1>4. ASSUME NEW c \in Conns, NEW batch \in Batches, NEW r \in KnownRevs,
             NEW tops \in SUBSET Topics, SatBegin(c, batch, r, tops)
      PROVE  HeldInv'
  <2>1. /\ UNCHANGED <<log, sub, smap, since>>
        /\ sat'.from = Len(log) /\ sat'.conn = {c} /\ sat'.rev = r /\ c \notin smap
    BY <1>4 DEF SatBegin, subsVars, feedVars
  <2>2. \A e \in (sat'.from + 1)..Len(log') : FALSE
    BY <2>1, StateNumbers
  <2>3. r <= Rev(log)
    BY <1>0, StateNumbers DEF KnownRevs, LedgerLeads
  <2>4. SatHeld'
    BY <2>1, <2>2, <2>3 DEF SatHeld
  <2>5. ASSUME NEW d \in Conns PROVE HeldBy(d)'
    BY <2>1 DEF HeldBy, HeldInv, Owed
  <2> QED
    BY <2>4, <2>5 DEF HeldInv
<1>5. ASSUME NEW now \in Nows, SatPublish(now)
      PROVE  HeldInv'
  <2>1. /\ UNCHANGED <<sub, smap, since>>
        /\ ~Idle /\ sat' = [sat EXCEPT !.batch = Tail(@)] /\ sat \in SatReqs
        /\ Len(log) < Len(log') /\ Rev(log) < Rev(log') /\ Rev(log) \in Nat /\ Rev(log') \in Nat
        /\ log' \in Seq(Events)
        /\ \A e \in 1..Len(log) : log'[e] = log[e]
        /\ \A e \in (Len(log) + 1)..Len(log') : log'[e].rev = Rev(log')
    BY <1>5, SatPublishEffect
  <2>2. /\ sat'.from = sat.from /\ sat'.conn = sat.conn /\ sat'.rev = sat.rev
        /\ sat.from \in Nat /\ sat.rev \in Nat /\ Len(log) \in Nat /\ Len(log') \in Nat
    BY <2>1, StateNumbers, LenProperties DEF SatReqs
  <2>3. Extends /\ SatHeld
    BY <2>1, <2>2 DEF Extends, HeldInv
  <2>4. ASSUME NEW d \in Conns PROVE HeldBy(d)'
    <3>1. HeldBy(d)
      BY DEF HeldInv
    <3>2. \A e \in 1..Len(log') : sub[d].bufr[e] > 0 => e \in 1..Len(log)
      <4>1. Len(log') <= MaxEvents
        BY <1>5, TypeStep DEF TypeOK, Next
      <4>2. \A e \in 1..Len(log') : e \in 1..MaxEvents
        BY <2>2, <4>1, BoundsAssumption
      <4> QED
        BY <2>2, <4>2 DEF TriggerInv, BuffersLogged
    <3> QED
      BY <2>1, <2>3, <3>1, <3>2, HeldKept
  <2>5. ASSUME NEW d \in Conns, NEW t \in DOMAIN since[d], NEW e \in (sat.from + 1)..Len(log')
        PROVE  log'[e].rev > since[d][t]
    <3>1. since[d][t] <= Rev(log) /\ since[d][t] \in Nat
      BY SinceNat DEF HeldInv, HeldBy
    <3>2. CASE e \in (Len(log) + 1)..Len(log')
      BY <2>1, <3>1, <3>2
    <3>3. CASE e \notin (Len(log) + 1)..Len(log')
      <4>1. e \in 1..Len(log) /\ e \in (sat.from + 1)..Len(log)
        BY <2>2, <3>3
      <4> QED
        BY <2>1, <2>3, <4>1 DEF SatHeld
    <3> QED
      BY <3>2, <3>3
  <2>6. SatHeld'
    <3>1. sat.rev <= Rev(log')
      BY <2>1, <2>2, <2>3 DEF SatHeld
    <3> QED
      BY <2>1, <2>2, <2>3, <2>5, <3>1 DEF SatHeld
  <2> QED
    BY <2>4, <2>6 DEF HeldInv
<1>6. ASSUME SatFails
      PROVE  HeldInv'
  BY <1>6 DEF SatFails
<1>7. ASSUME Quiet
      PROVE  HeldInv'
  <2>1. UNCHANGED <<log, sub, smap, sat, since>>
    BY <1>7, QuietEffect
  <2>2. ASSUME NEW d \in Conns PROVE HeldBy(d)'
    BY <2>1 DEF HeldBy, HeldInv, Owed
  <2>3. ~Idle' => SatHeld'
    BY <2>1 DEF Idle, HeldInv, SatHeld
  <2> QED
    BY <2>2, <2>3 DEF HeldInv
<1>8. ASSUME NEW c \in Conns, NEW tops \in SUBSET Topics, UnsubReq(c, tops)
      PROVE  HeldInv'
  BY <1>8, HeldUnsub DEF UnsubReq, Serves
<1>9. ASSUME NEW c \in Conns, Signoff(c)
      PROVE  HeldInv'
  BY <1>9, HeldUnsub DEF Signoff
<1> QED
  BY <1>1, <1>2, <1>3, <1>4, <1>5, <1>6, <1>7, <1>8, <1>9, Steps, HeldPub, HeldSat

LEMMA HeldInit == ASSUME Init PROVE HeldInv
<1>1. log = << >> /\ Len(log) = 0 /\ Idle
  BY EmptySeq DEF Init, Idle
<1>2. \A c \in Conns : sub[c].subs = {} /\ sub[c].mons = {} /\ c \notin smap
                       /\ DOMAIN since[c] = {}
  BY DEF Init, SubscribersInit, NoSub
<1>3. ASSUME NEW c \in Conns PROVE HeldBy(c)
  <2>1. (sub[c].subs = DOMAIN since[c]) /\ \A t \in DOMAIN since[c] : FALSE
    BY <1>2
  <2>2. (c \in smap) <=> (sub[c].subs # {} \/ sub[c].mons # {})
    BY <1>2
  <2>3. \A e \in 1..Len(log) : FALSE
    BY <1>1
  <2> QED
    BY <2>1, <2>2, <2>3 DEF HeldBy
<1> QED
  BY <1>1, <1>3 DEF HeldInv

\* Nothing waits for a client that gave its topic up, as long as no client holds
\* more than Unsub can give up at once and no ledger read fails.
THEOREM OnlyTheSubscribed ==
    ASSUME ~LedgerFails PROVE Spec /\ []FewTopics => []OnlySubscribed
<1>1. TypeOK /\ TriggerInv /\ HeldInv /\ FewTopics /\ [Next]_vars => HeldInv'
  BY HeldStep
<1>2. HeldInv => OnlySubscribed
  BY DEF HeldInv, HeldBy, OnlySubscribed, Owed
<1> QED
  BY <1>1, <1>2, HeldInit, TypeCorrect, TriggerAlways, PTL DEF Spec

\* Under the same conditions the registry's three maps agree with each other and
\* with the subscriptions granted, and a subscriber is registered exactly as
\* long as it holds a topic or a monitor.
THEOREM RegistryAlwaysAgrees ==
    ASSUME ~LedgerFails PROVE Spec /\ []FewTopics => []RegistryAgrees
<1>1. TypeOK /\ TriggerInv /\ HeldInv /\ FewTopics /\ [Next]_vars => HeldInv'
  BY HeldStep
<1>2. HeldInv /\ TriggerInv => RegistryAgrees
  BY DEF HeldInv, HeldBy, RegistryAgrees, TriggerInv, OnlyRegistered
<1> QED
  BY <1>1, <1>2, HeldInit, TypeCorrect, TriggerAlways, PTL DEF Spec

-----------------------------------------------------------------------------
(* Connections that signed off. *)

\* A satellite being served has not signed off.
SatStays == ~Idle => sat.conn \cap gone = {}

\* Who signs off is kept with a monitor or more than two topics, and nothing
\* happens to the registration of who did before.
Lasting ==
    \A c \in Conns :
        /\ c \in gone' \ gone => (c \in smap' <=> Unforgotten(c))
        /\ c \in gone => (c \in smap' <=> c \in smap) /\ sub'[c].subs = sub[c].subs

\* The loop keeps every second topic but the last: none of one or two.
LEMMA NoneKept ==
    ASSUME NEW subs, IsFiniteSet(subs), NEW r \in UnsubOutcomes(subs, {})
    PROVE  r.keep = {} <=> ~(Cardinality(subs) > 2)
<1>1. Cardinality(subs) \in Nat
  BY FS_CardinalityType
<1>2. CASE subs = {}
  <2>1. r = [keep |-> {}, drop |-> {}]
    BY <1>2 DEF UnsubOutcomes
  <2>2. Cardinality(subs) = 0
    BY <1>2, FS_EmptySet
  <2> QED
    BY <2>1, <2>2
<1>3. CASE subs # {}
  <2>1. PICK k \in SUBSET subs, t \in subs :
            /\ Cardinality(k) = (Cardinality(subs) - 1) \div 2
            /\ r = [keep |-> k, drop |-> k \cup {t}]
    BY <1>3 DEF UnsubOutcomes
  <2>2. IsFiniteSet(k) /\ Cardinality(k) \in Nat
    BY FS_Subset, FS_CardinalityType
  <2>3. k = {} <=> Cardinality(k) = 0
    BY <2>2, FS_EmptySet
  <2>4. Cardinality(subs) # 0
    BY <1>3, FS_EmptySet
  <2>5. (Cardinality(subs) - 1) \div 2 = 0 <=> ~(Cardinality(subs) > 2)
    BY <1>1, <2>4
  <2> QED
    BY <2>1, <2>3, <2>5
<1> QED
  BY <1>2, <1>3

LEMMA SignoffStep ==
    ASSUME IsFiniteSet(Topics), TypeOK, TriggerInv, SatStays, [Next]_vars
    PROVE  SatStays' /\ Lasting
<1>0. OnlyRegistered /\ gone \subseteq Conns /\ \A c \in Conns : sub[c] \in Subscriber
  BY DEF TriggerInv, TypeOK
<1>1. ASSUME gone' = gone, SatStays', NEW c \in Conns, c \notin gone,
             smap' \ {c} = smap \ {c}, \A d \in Conns \ {c} : sub'[d].subs = sub[d].subs
      PROVE  SatStays' /\ Lasting
  BY <1>1 DEF Lasting
<1>2. ASSUME UNCHANGED <<gone, smap>>, SatStays', \A d \in Conns : sub'[d].subs = sub[d].subs
      PROVE  SatStays' /\ Lasting
  BY <1>2 DEF Lasting
<1>3. ASSUME NEW c \in Conns, NEW acts \in Transs, NEW now \in Nows, Pub(c, acts, now)
      PROVE  SatStays' /\ Lasting
  <2>1. /\ UNCHANGED <<smap, sat, gone>>
        /\ \A d \in Conns \ {c} : sub'[d].subs = sub[d].subs
    BY <1>0, <1>3, PubEffect
  <2>2. c \notin gone /\ SatStays'
    BY <1>3, <2>1 DEF Pub, Serves, SatStays, Idle
  <2> QED
    BY <1>1, <2>1, <2>2
<1>4. ASSUME NEW c \in Conns, NEW r \in KnownRevs, NEW tops \in SUBSET Topics,
             SubReq(c, r, tops)
      PROVE  SatStays' /\ Lasting
  <2>0. log \in Seq(Events) /\ sub \in [Conns -> Subscriber]
    BY DEF TypeOK
  <2>5. KnownRevs \subseteq Nat
    BY <2>0, EventRevs DEF KnownRevs
  <2>1. c \notin gone /\ UNCHANGED <<gone, sat>> /\ Subscribe(c, r, tops, sub)
    BY <1>4 DEF SubReq, Serves
  <2>2. /\ smap' = IF tops = {} THEN smap ELSE smap \cup {c}
        /\ \A d \in Conns \ {c} : sub'[d] = sub[d]
    <3>1. r \in Nat
      BY <2>5
    <3> QED
      BY <2>0, <2>1, <3>1, SubscribeOthers, SubscribeRegisters
  <2>4. SatStays'
    BY <2>1 DEF SatStays, Idle
  <2>6. smap' \ {c} = smap \ {c} /\ \A d \in Conns \ {c} : sub'[d].subs = sub[d].subs
    BY <2>2
  <2> QED
    BY <1>1, <2>1, <2>4, <2>6
<1>5. ASSUME NEW c \in Conns, SatEnd(c)
      PROVE  SatStays' /\ Lasting
  <2> DEFINE shown == Shown(log, (sat.from + 1)..Len(log), c)
  <2>1. /\ ~Idle /\ Idle' /\ sat.rev \in Nat /\ sat.tops \in SUBSET Topics
        /\ Subscribe(c, sat.rev, sat.tops, shown) /\ shown \in [Conns -> Subscriber]
        /\ \A d \in Conns : shown[d].subs = sub[d].subs
    BY <1>5, SatEndEffect
  <2>2. c \notin gone /\ gone' = gone
    BY <1>5, <2>1 DEF SatEnd, SatStays
  <2> HIDE DEF shown
  <2>3. /\ smap' \ {c} = smap \ {c} /\ \A d \in Conns \ {c} : sub'[d].subs = sub[d].subs
    BY <2>1, SubscribeEffect
  <2> QED
    BY <1>1, <2>1, <2>2, <2>3 DEF SatStays
<1>6. ASSUME NEW c \in Conns, \/ \E watch \in Watches : MonReq(c, watch)
                              \/ \E id \in 1..MaxMons : UnmonReq(c, id)
      PROVE  SatStays' /\ Lasting
  <2>1. /\ UNCHANGED <<sat, gone>> /\ c \notin gone /\ smap' \ {c} = smap \ {c}
        /\ \A d \in Conns \ {c} : sub'[d] = sub[d]
    BY <1>0, <1>6, MonitorEffect
  <2> QED
    BY <1>1, <2>1 DEF SatStays, Idle
<1>7. ASSUME NEW c \in Conns, NEW tops \in SUBSET Topics, UnsubReq(c, tops)
      PROVE  SatStays' /\ Lasting
  <2>1. c \notin gone /\ UNCHANGED <<gone, sat>> /\ Unsub(log, c, tops) /\ Forgo(c, tops)
    BY <1>7 DEF UnsubReq, Serves
  <2>2. smap' \ {c} = smap \ {c} /\ \A d \in Conns \ {c} : sub'[d] = sub[d]
    BY <2>1, UnsubEffect DEF Drops, Keeps
  <2> QED
    BY <1>1, <2>1, <2>2 DEF SatStays, Idle
<1>8. ASSUME NEW c \in Conns, Signoff(c)
      PROVE  SatStays' /\ Lasting
  <2>1. /\ c \notin gone /\ gone' = gone \cup {c} /\ Idle /\ sat' = sat
        /\ Unsub(log, c, {}) /\ Forgo(c, {})
    BY <1>8 DEF Signoff
  <2>2. /\ \A d \in Conns \ {c} : sub'[d] = sub[d]
        /\ \/ c \notin smap /\ smap' = smap
           \/ \E r \in UnsubOutcomes(sub[c].subs, {}) : Drops(c, r) \/ Keeps(c, r)
    BY <2>1, UnsubEffect
  <2>3. IsFiniteSet(sub[c].subs)
    BY <1>0, FS_Subset DEF Subscriber
  <2>4. \A r \in UnsubOutcomes(sub[c].subs, {}) : r.keep = {} <=> ~(Cardinality(sub[c].subs) > 2)
    BY <2>3, NoneKept
  <2>5. c \in smap' <=> Unforgotten(c)
    BY <2>2, <2>4 DEF Drops, Keeps, Unforgotten, UnsubOutcomes
  <2>6. smap' \ {c} = smap \ {c}
    BY <2>2 DEF Drops, Keeps
  <2> QED
    BY <2>1, <2>2, <2>5, <2>6 DEF Lasting, SatStays, Idle
<1>9. ASSUME NEW c \in Conns, NEW batch \in Batches, NEW r \in KnownRevs,
             NEW tops \in SUBSET Topics, SatBegin(c, batch, r, tops)
      PROVE  SatStays' /\ Lasting
  <2>1. c \notin gone /\ UNCHANGED <<smap, sub, gone>> /\ sat'.conn = {c}
    BY <1>9 DEF SatBegin, Serves, subsVars
  <2> QED
    BY <1>2, <2>1 DEF SatStays
<1>10. ASSUME NEW now \in Nows, SatPublish(now)
      PROVE  SatStays' /\ Lasting
  <2>1. UNCHANGED <<sub, smap, gone>> /\ ~Idle /\ sat' = [sat EXCEPT !.batch = Tail(@)] /\ sat \in SatReqs
    BY <1>10, SatPublishEffect
  <2>2. sat'.conn = sat.conn
    BY <2>1 DEF SatReqs
  <2> QED
    BY <1>2, <2>1, <2>2 DEF SatStays
<1>11. ASSUME SatFails
       PROVE  SatStays' /\ Lasting
  <2>1. UNCHANGED <<sub, smap, gone>> /\ Idle'
    BY <1>11 DEF SatFails, subsVars, Idle
  <2> QED
    BY <1>2, <2>1 DEF SatStays
<1>12. ASSUME HandleBcast
       PROVE  SatStays' /\ Lasting
  <2>1. UNCHANGED <<smap, sat, gone>> /\ \A d \in Conns : sub'[d].subs = sub[d].subs
    BY <1>12, BcastEffect
  <2> QED
    BY <1>2, <2>1 DEF SatStays, Idle
<1>13. ASSUME Quiet
       PROVE  SatStays' /\ Lasting
  <2>1. UNCHANGED <<sub, smap, sat, gone>>
    BY <1>13, QuietEffect
  <2> QED
    BY <1>2, <2>1 DEF SatStays, Idle
<1> QED
  BY <1>3, <1>4, <1>5, <1>6, <1>7, <1>8, <1>9, <1>10, <1>11, <1>12, <1>13, Steps

\* A signoff drops a connection unless it has a monitor or more than two topics,
\* and no later step of the server registers it again, forgets it or changes its
\* topics, whatever was on its way when it signed off.  No bound on topics or
\* monitors is assumed.
THEOREM SignoffIsFinal == ASSUME IsFiniteSet(Topics) PROVE Spec => SignoffOutcome
<1>1. Init => SatStays
  BY DEF Init, SatStays, Idle
<1>2. TypeOK /\ TriggerInv /\ SatStays /\ [Next]_vars => SatStays' /\ [Lasting]_vars
  BY SignoffStep
<1>3. [Lasting]_vars <=>
      [\A c \in Conns :
          /\ c \in gone' \ gone => (c \in smap' <=> Unforgotten(c))
          /\ c \in gone => (c \in smap' <=> c \in smap) /\ sub'[c].subs = sub[c].subs]_vars
  BY DEF Lasting
<1> QED
  BY <1>1, <1>2, <1>3, TypeCorrect, TriggerAlways, PTL DEF Spec, SignoffOutcome

-----------------------------------------------------------------------------
(* Every event once. *)

\* What was not shown yet was neither sent to anybody nor buffered; an owed
\* event was sent once, or waits once.
OnceBy(c) ==
    /\ \A e \in 1..MaxEvents : e \notin Shows => got[c][e] = 0 /\ sub[c].bufr[e] = 0
    /\ \A e \in Shows : Owed(c, e) => got[c][e] + sub[c].bufr[e] = 1

OnceInv == \A c \in Conns : OnceBy(c)

\* The events shown are logged ones.
LEMMA ShowsLogged ==
    ASSUME TypeOK, TriggerInv
    PROVE  /\ Shows \subseteq 1..Len(log) /\ (Idle => Shows = 1..Len(log))
           /\ \A e \in 1..Len(log) : e \in 1..MaxEvents
  BY StateNumbers DEF Shows, Idle, TriggerInv, SatAhead

\* The counts of connections an operation leaves alone, or moves from the buffer
\* to the client.
LEMMA OnceKept ==
    ASSUME TypeOK, TriggerInv, TypeOK', NEW d \in Conns, OnceBy(d), Shows' = Shows,
           \A e \in 1..MaxEvents : got'[d][e] + sub'[d].bufr[e] = got[d][e] + sub[d].bufr[e],
           \A e \in Shows : log'[e] = log[e],
           \A e \in Shows : Owed(d, e)' => Owed(d, e)
    PROVE  OnceBy(d)'
<1>1. \A e \in 1..MaxEvents : /\ got[d][e] \in Nat /\ sub[d].bufr[e] \in Nat
                              /\ got'[d][e] \in Nat /\ sub'[d].bufr[e] \in Nat
  <2>1. got'[d] \in Bufr /\ sub'[d] \in Subscriber
    BY DEF TypeOK
  <2> QED
    BY <2>1, StateNumbers, BufrNat, SubscriberParts
<1>2. \A e \in Shows : e \in 1..MaxEvents
  BY ShowsLogged
<1>3. ASSUME NEW e \in 1..MaxEvents, e \notin Shows
      PROVE  got'[d][e] = 0 /\ sub'[d].bufr[e] = 0
  BY <1>1, <1>3 DEF OnceBy
<1>4. ASSUME NEW e \in Shows, Owed(d, e)'
      PROVE  got'[d][e] + sub'[d].bufr[e] = 1
  BY <1>2, <1>4 DEF OnceBy
<1> QED
  BY <1>3, <1>4 DEF OnceBy

\* What the subscribers subs must count for a subscription to be worked on.
OnceIn(subs) ==
    \A d \in Conns : \A e \in 1..MaxEvents :
        /\ e \notin 1..Len(log) => got[d][e] = 0 /\ subs[d].bufr[e] = 0
        /\ e \in 1..Len(log) /\ Owed(d, e) => got[d][e] + subs[d].bufr[e] = 1

LEMMA SubscribeOnce ==
    ASSUME TypeOK, TypeOK', ~LedgerFails, UNCHANGED log, Idle',
           NEW c \in Conns, NEW r \in Nat, NEW tops \in SUBSET Topics,
           NEW subs \in [Conns -> Subscriber], Subscribe(c, r, tops, subs),
           HeldIn(subs), OnceIn(subs)
    PROVE  OnceInv'
<1> DEFINE s     == subs[c]
           fresh == tops \ s.subs
           hist  == EventsSince(log, r, fresh)
<1>0. /\ Shows' = 1..Len(log) /\ Len(log) \in Nat
      /\ \A e \in 1..Len(log) : e \in 1..MaxEvents /\ log[e].rev \in Nat
  BY StateNumbers DEF Shows
<1>1. ASSUME NEW d \in Conns \ {c}
      PROVE  OnceBy(d)'
  <2>1. sub'[d] = subs[d] /\ since'[d] = since[d] /\ got'[d] = got[d]
    BY SubscribeOthers
  <2> QED
    BY <1>0, <2>1 DEF OnceBy, OnceIn, Owed
<1>2. OnceBy(c)'
  <2>0. /\ HeldBy(c) /\ s.subs = sub[c].subs
        /\ \A e \in 1..Len(log) : s.bufr[e] > 0 => Owed(c, e)
        /\ \A e \in 1..MaxEvents : s.bufr[e] \in Nat /\ got[c][e] \in Nat
    BY BufrNat, SubscriberParts, StateNumbers DEF HeldIn
  <2>1. Outcome(c, r, fresh, s)
    BY SubscribeEffect
  <2>2. \A e \in 1..MaxEvents :
          /\ e \notin 1..Len(log) => got[c][e] = 0 /\ s.bufr[e] = 0
          /\ e \in 1..Len(log) /\ Owed(c, e) => got[c][e] + s.bufr[e] = 1
    BY DEF OnceIn
  <2>3. \A t \in fresh : t \notin DOMAIN since[c]
    BY <2>0 DEF HeldBy
  <2>4. got'[c] \in Bufr /\ sub'[c].bufr \in Bufr
    BY SubscriberParts DEF TypeOK
  <2> HIDE DEF s, fresh, hist
  <2>5. CASE sub'[c] = s /\ UNCHANGED feedVars
    <3>1. since' = since /\ got' = got /\ log' = log
      BY <2>5 DEF feedVars
    <3> QED
      BY <1>0, <2>2, <2>5, <3>1 DEF OnceBy, Owed
  <2>6. CASE Granted(c, r, fresh, s)
    <3>1. since'[c] = [t \in DOMAIN since[c] \cup fresh |->
                          IF t \in fresh THEN r ELSE since[c][t]]
      BY <2>6 DEF Granted
    <3>2. \A e \in 1..MaxEvents :
             got'[c][e] + sub'[c].bufr[e] = Again(c, fresh, e) + s.bufr[e] + One(hist, e)
      BY <2>6 DEF Granted, hist
    <3>3. ASSUME NEW e \in 1..MaxEvents, e \notin 1..Len(log)
          PROVE  got'[c][e] = 0 /\ sub'[c].bufr[e] = 0
      <4>1. ~(e <= Len(log))
        BY <1>0, <3>3, BoundsAssumption
      <4>2. Again(c, fresh, e) = 0 /\ s.bufr[e] = 0 /\ One(hist, e) = 0
        BY <2>2, <3>3, <4>1 DEF Again, One, hist, EventsSince
      <4>3. got'[c][e] + sub'[c].bufr[e] = 0
        BY <3>2, <4>2
      <4>4. got'[c][e] \in Nat /\ sub'[c].bufr[e] \in Nat
        BY <2>4, BufrNat
      <4> QED
        BY <4>3, <4>4
    <3>4. ASSUME NEW e \in 1..Len(log),
                 log[e].act.top \in DOMAIN since'[c],
                 log[e].rev > since'[c][log[e].act.top]
          PROVE  got'[c][e] + sub'[c].bufr[e] = 1
      <4>0. e \in 1..MaxEvents /\ e <= Len(log)
        BY <1>0
      <4>1. CASE log[e].act.top \in fresh
        <5>1. ~Owed(c, e)
          BY <2>3, <4>1 DEF Owed
        <5>2. s.bufr[e] = 0
          BY <2>0, <4>0, <5>1
        <5>3. e \in hist
          BY <3>1, <3>4, <4>1 DEF hist, EventsSince
        <5>4. Again(c, fresh, e) = 0 /\ One(hist, e) = 1
          BY <4>0, <4>1, <5>3 DEF Again, One
        <5> QED
          BY <3>2, <4>0, <5>2, <5>4
      <4>2. CASE log[e].act.top \notin fresh
        <5>1. Owed(c, e)
          BY <3>1, <3>4, <4>2 DEF Owed
        <5>2. Again(c, fresh, e) = got[c][e] /\ One(hist, e) = 0
          BY <4>2 DEF Again, One, hist, EventsSince
        <5> QED
          BY <2>0, <2>2, <3>2, <4>0, <5>1, <5>2
      <4> QED
        BY <4>1, <4>2
    <3>5. log' = log
      OBVIOUS
    <3> QED
      BY <1>0, <3>3, <3>4, <3>5 DEF OnceBy, Owed
  <2> QED
    BY <2>1, <2>5, <2>6 DEF Outcome
<1> QED
  BY <1>1, <1>2 DEF OnceInv

LEMMA OncePub ==
    ASSUME TypeOK, TypeOK', TriggerInv, HeldInv, OnceInv, NEW c \in Conns,
           NEW acts \in Transs, NEW now \in Nows, Pub(c, acts, now)
    PROVE  OnceInv'
<1> DEFINE new == (Len(log) + 1)..Len(log')
<1>0. OnlyRegistered
  BY DEF TriggerInv
<1>1. /\ Idle /\ Idle' /\ UNCHANGED <<tmap, since>>
      /\ \A e \in 1..MaxEvents :
           got'[c][e] + sub'[c].bufr[e] = got[c][e] + sub[c].bufr[e] + One(new, e)
  BY <1>0, PubEffect DEF Idle
<1>2. ASSUME NEW d \in Conns \ {c}
      PROVE  /\ got'[d] = got[d]
             /\ \A e \in 1..MaxEvents :
                  sub'[d].bufr[e] = sub[d].bufr[e]
                      + One({f \in new : d \in tmap[log'[f].act.top]}, e)
  BY <1>0, PubEffect
<1>3. /\ log' \in Seq(Events) /\ Len(log) < Len(log') /\ Len(log) \in Nat /\ Len(log') \in Nat
      /\ Len(log') <= MaxEvents /\ MaxEvents \in Nat
      /\ \A e \in 1..Len(log) : log'[e] = log[e]
  BY <1>0, PubLedger, BoundsAssumption
<1>4. Shows = 1..Len(log) /\ Shows' = 1..Len(log')
  BY <1>1, ShowsLogged DEF Shows
<1>5. \A e \in 1..MaxEvents : e \in 1..Len(log') <=> (e \in 1..Len(log) \/ e \in new)
  BY <1>3
<1>6. \A e \in new : e \notin 1..Len(log) /\ e \in 1..MaxEvents
  BY <1>3
<1> HIDE DEF new
<1>7. ASSUME NEW d \in Conns, NEW e \in 1..MaxEvents
      PROVE  /\ got[d][e] \in Nat /\ sub[d].bufr[e] \in Nat
             /\ got'[d][e] \in Nat /\ sub'[d].bufr[e] \in Nat
             /\ e \notin 1..Len(log) => got[d][e] = 0 /\ sub[d].bufr[e] = 0
             /\ e \in 1..Len(log) => (Owed(d, e)' => got[d][e] + sub[d].bufr[e] = 1)
  <2>1. got'[d] \in Bufr /\ sub'[d] \in Subscriber /\ OnceBy(d)
    BY DEF TypeOK, OnceInv
  <2>2. e \in 1..Len(log) => (Owed(d, e)' => Owed(d, e))
    BY <1>1, <1>3 DEF Owed
  <2> QED
    BY <1>4, <2>1, <2>2, StateNumbers, BufrNat, SubscriberParts DEF OnceBy
<1>8. ASSUME NEW d \in Conns, NEW e \in 1..MaxEvents, e \notin new
      PROVE  got'[d][e] + sub'[d].bufr[e] = got[d][e] + sub[d].bufr[e]
  <2>1. One(new, e) = 0 /\ One({f \in new : d \in tmap[log'[f].act.top]}, e) = 0
    BY <1>8 DEF One
  <2>2. CASE d = c
    BY <1>1, <1>7, <2>1, <2>2
  <2>3. CASE d # c
    BY <1>2, <1>7, <2>1, <2>3
  <2> QED
    BY <2>2, <2>3
<1>9. ASSUME NEW d \in Conns, NEW e \in new, Owed(d, e)'
      PROVE  got'[d][e] + sub'[d].bufr[e] = 1
  <2>0. e \in 1..MaxEvents /\ got[d][e] = 0 /\ sub[d].bufr[e] = 0
    BY <1>6, <1>7
  <2>1. CASE d = c
    <3>1. One(new, e) = 1
      BY DEF One
    <3> QED
      BY <1>1, <2>0, <2>1, <3>1
  <2>2. CASE d # c
    <3>1. log'[e] \in Events
      BY <1>3, <1>5, <1>6, EventRevs
    <3>2. log'[e].act.top \in Topics /\ log'[e].act.top \in DOMAIN since[d]
      BY <1>1, <1>9, <3>1 DEF Owed, Events, Actions
    <3>3. d \in tmap[log'[e].act.top]
      BY <1>0, <3>2 DEF OnlyRegistered, HeldInv, HeldBy
    <3>4. One({f \in new : d \in tmap[log'[f].act.top]}, e) = 1
      BY <3>3 DEF One
    <3> QED
      BY <1>2, <2>0, <2>2, <3>4
  <2> QED
    BY <2>1, <2>2
<1>10. ASSUME NEW d \in Conns
       PROVE  OnceBy(d)'
  <2>1. ASSUME NEW e \in 1..MaxEvents, e \notin 1..Len(log')
        PROVE  got'[d][e] = 0 /\ sub'[d].bufr[e] = 0
    <3>1. e \notin new /\ e \notin 1..Len(log)
      BY <1>5, <2>1
    <3>2. got'[d][e] + sub'[d].bufr[e] = got[d][e] + sub[d].bufr[e]
      BY <1>8, <3>1
    <3>3. /\ got[d][e] = 0 /\ sub[d].bufr[e] = 0
          /\ got'[d][e] \in Nat /\ sub'[d].bufr[e] \in Nat
      BY <1>7, <3>1
    <3> QED
      BY <3>2, <3>3
  <2>2. ASSUME NEW e \in 1..Len(log'), Owed(d, e)'
        PROVE  got'[d][e] + sub'[d].bufr[e] = 1
    <3>0. e \in 1..MaxEvents
      BY <1>3
    <3>1. CASE e \in new
      BY <1>9, <2>2, <3>1
    <3>2. CASE e \notin new
      <4>1. e \in 1..Len(log)
        BY <1>5, <3>0, <3>2
      <4> QED
        BY <1>7, <1>8, <2>2, <3>0, <3>2, <4>1
    <3> QED
      BY <3>1, <3>2
  <2> QED
    BY <1>4, <2>1, <2>2 DEF OnceBy
<1> QED
  BY <1>10 DEF OnceInv

LEMMA OnceSat ==
    ASSUME TypeOK, TypeOK', TriggerInv, HeldInv, OnceInv, ~LedgerFails,
           NEW c \in Conns, SatEnd(c)
    PROVE  OnceInv'
<1> DEFINE new   == (sat.from + 1)..Len(log)
           shown == Shown(log, new, c)
           seen(d) == {f \in new : d # c /\ d \in tmap[log[f].act.top]}
<1>1. /\ ~Idle /\ Idle' /\ UNCHANGED log /\ c \in sat.conn
      /\ sat.rev \in Nat /\ sat.tops \in SUBSET Topics
      /\ Subscribe(c, sat.rev, sat.tops, shown)
      /\ shown \in [Conns -> Subscriber]
      /\ \A d \in Conns : \A e \in 1..MaxEvents :
           shown[d].bufr[e] = sub[d].bufr[e] + One(seen(d), e)
  BY SatEndEffect
<1>2. HeldIn(shown)
  BY SatShown
<1>3. /\ \A e : e \in new => e \in 1..Len(log)
      /\ \A e \in 1..Len(log) : e \notin new <=> e \in Shows
      /\ \A e : e \notin 1..Len(log) => e \notin Shows
      /\ \A e \in new : e \notin Shows
  BY <1>1, StateNumbers DEF Shows, TriggerInv, SatAhead
<1>4. /\ SatHeld /\ OnlyRegistered
      /\ \A d \in Conns : HeldBy(d) /\ OnceBy(d)
      /\ \A e \in 1..Len(log) : e \in 1..MaxEvents /\ log[e] \in Events
  BY <1>1, StateNumbers, EventRevs DEF HeldInv, TriggerInv, OnceInv
<1> HIDE DEF shown, new
<1>5. ASSUME NEW d \in Conns, NEW e \in 1..MaxEvents, e \notin 1..Len(log)
      PROVE  got[d][e] = 0 /\ shown[d].bufr[e] = 0
  <2>1. e \notin new /\ got[d][e] = 0 /\ sub[d].bufr[e] = 0
    BY <1>3, <1>4, <1>5 DEF OnceBy
  <2>2. One(seen(d), e) = 0
    BY <2>1 DEF One
  <2> QED
    BY <1>1, <2>1, <2>2
<1>6. ASSUME NEW d \in Conns, NEW e \in 1..Len(log), Owed(d, e)
      PROVE  got[d][e] + shown[d].bufr[e] = 1
  <2>0. e \in 1..MaxEvents
    BY <1>4
  <2>1. CASE e \notin new
    <3>1. One(seen(d), e) = 0
      BY <2>1 DEF One
    <3>2. sub[d].bufr[e] \in Nat /\ sub[d].bufr[e] + 0 = sub[d].bufr[e]
      BY <2>0, StateNumbers
    <3>3. shown[d].bufr[e] = sub[d].bufr[e] + 0
      BY <1>1, <2>0, <3>1
    <3>4. got[d][e] + sub[d].bufr[e] = 1
      BY <1>3, <1>4, <1>6, <2>1 DEF OnceBy
    <3> QED
      BY <3>2, <3>3, <3>4
  <2>2. CASE e \in new
    <3>1. got[d][e] = 0 /\ sub[d].bufr[e] = 0
      BY <1>3, <1>4, <2>0, <2>2 DEF OnceBy
    <3>2. log[e].act.top \in Topics /\ log[e].act.top \in sub[d].subs
      BY <1>4, <1>6 DEF HeldBy, Owed, Events, Actions
    <3>3. d # c
      BY <1>1, <1>4, <3>2 DEF SatHeld, HeldBy
    <3>4. d \in tmap[log[e].act.top]
      BY <1>4, <3>2 DEF OnlyRegistered
    <3>5. One(seen(d), e) = 1
      BY <2>2, <3>3, <3>4 DEF One
    <3> QED
      BY <1>1, <2>0, <3>1, <3>5
  <2> QED
    BY <2>1, <2>2
<1>7. OnceIn(shown)
  BY <1>5, <1>6 DEF OnceIn
<1> QED
  BY <1>1, <1>2, <1>7, SubscribeOnce

LEMMA OnceUnsub ==
    ASSUME TypeOK, TypeOK', TriggerInv, HeldInv, OnceInv, FewTopics,
           NEW c \in Conns, NEW tops \in SUBSET Topics,
           Unsub(log, c, tops), Forgo(c, tops), Idle, UNCHANGED <<log, sat, got>>
    PROVE  OnceInv'
<1>1. /\ \A d \in Conns \ {c} : sub'[d] = sub[d] /\ since'[d] = since[d]
      /\ since'[c] = [t \in IF tops = {} THEN {} ELSE DOMAIN since[c] \ tops |-> since[c][t]]
      /\ \/ c \notin smap /\ smap' = smap /\ sub' = sub
         \/ \E r \in UnsubOutcomes(sub[c].subs, tops) : Drops(c, r) \/ Keeps(c, r)
  BY UnsubEffect
<1>2. /\ log' = log /\ got' = got /\ Shows = 1..Len(log) /\ Shows' = Shows
      /\ \A d \in Conns : HeldBy(d) /\ OnceBy(d)
      /\ \A e \in 1..Len(log) : e \in 1..MaxEvents
  BY ShowsLogged DEF Shows, Idle, HeldInv, OnceInv
<1>3. \A d \in Conns : \A e \in 1..MaxEvents : got[d][e] \in Nat /\ sub[d].bufr[e] \in Nat
  BY StateNumbers
<1>4. ASSUME NEW d \in Conns \ {c} PROVE OnceBy(d)'
  BY <1>1, <1>2 DEF OnceBy, Owed
<1>5. CASE c \notin smap /\ smap' = smap /\ sub' = sub
  <2>1. \A e : ~Owed(c, e)'
    BY <1>1, <1>2, <1>5 DEF HeldBy, Owed
  <2>2. OnceBy(c)'
    BY <1>2, <1>5, <2>1 DEF OnceBy
  <2> QED
    BY <1>4, <2>2 DEF OnceInv
<1>6. ASSUME NEW r \in UnsubOutcomes(sub[c].subs, tops), Drops(c, r)
      PROVE  OnceInv'
  <2>1. r.keep = IF tops = {} THEN {} ELSE sub[c].subs \ tops
    BY FewGivenUp
  <2>2. DOMAIN since'[c] = {}
    BY <1>1, <1>2, <1>6, <2>1 DEF HeldBy, Drops
  <2>3. \A e : ~Owed(c, e)'
    BY <2>2 DEF Owed
  <2>4. \A e \in 1..MaxEvents : sub'[c].bufr[e] = 0
    BY <1>6, NoSubIdle DEF Drops
  <2>5. OnceBy(c)'
    BY <1>2, <2>3, <2>4 DEF OnceBy
  <2> QED
    BY <1>4, <2>5 DEF OnceInv
<1>7. ASSUME NEW r \in UnsubOutcomes(sub[c].subs, tops), Keeps(c, r)
      PROVE  OnceInv'
  <2>1. /\ r.keep = IF tops = {} THEN {} ELSE sub[c].subs \ tops
        /\ r.keep \cap r.drop = {}
    BY <1>7, FewGivenUp DEF Keeps
  <2>2. sub'[c].bufr = Filter(log, sub[c].bufr, r.drop)
    BY <1>7 DEF Keeps, Subscriber, TypeOK
  <2>3. DOMAIN since'[c] = r.keep /\ \A t \in r.keep : since'[c][t] = since[c][t]
    BY <1>1, <1>2, <2>1 DEF HeldBy
  <2>4. r.keep \subseteq DOMAIN since[c]
    BY <1>2, <2>1 DEF HeldBy
  <2>5. ASSUME NEW e \in 1..MaxEvents, e \notin Shows
        PROVE  got'[c][e] = 0 /\ sub'[c].bufr[e] = 0
    <3>1. got[c][e] = 0 /\ sub[c].bufr[e] = 0
      BY <1>2, <2>5 DEF OnceBy
    <3> QED
      BY <1>2, <2>2, <3>1 DEF Filter
  <2>6. ASSUME NEW e \in Shows, Owed(c, e)'
        PROVE  got'[c][e] + sub'[c].bufr[e] = 1
    <3>1. Owed(c, e) /\ log[e].act.top \notin r.drop
      BY <1>2, <2>1, <2>3, <2>4, <2>6 DEF Owed
    <3>2. sub'[c].bufr[e] = sub[c].bufr[e]
      BY <1>2, <2>2, <3>1 DEF Filter
    <3> QED
      BY <1>2, <3>1, <3>2 DEF OnceBy
  <2>7. OnceBy(c)'
    BY <1>2, <2>5, <2>6 DEF OnceBy
  <2> QED
    BY <1>4, <2>7 DEF OnceInv
<1> QED
  BY <1>1, <1>5, <1>6, <1>7

LEMMA OnceStep ==
    ASSUME TypeOK, TypeOK', TriggerInv, HeldInv, OnceInv, FewTopics, ~LedgerFails, [Next]_vars
    PROVE  OnceInv'
<1>0. /\ OnlyRegistered /\ \A d \in Conns : OnceBy(d)
      /\ \A d \in Conns : \A e \in 1..MaxEvents : got[d][e] \in Nat /\ sub[d].bufr[e] \in Nat
      /\ \A e \in 1..MaxEvents : NoEvents[e] = 0
  BY StateNumbers, BufrNat DEF TriggerInv, OnceInv
<1>1. ASSUME NEW c \in Conns, NEW r \in KnownRevs, NEW tops \in SUBSET Topics,
             SubReq(c, r, tops)
      PROVE  OnceInv'
  <2>1. Subscribe(c, r, tops, sub) /\ UNCHANGED <<log, sat>> /\ Idle /\ r \in Nat
    BY <1>1, StateNumbers DEF SubReq, Serves
  <2>2. Idle' /\ sub \in [Conns -> Subscriber]
    BY <2>1 DEF Idle, TypeOK
  <2>3. HeldIn(sub)
    BY DEF HeldIn, HeldInv, HeldBy
  <2>4. Shows = 1..Len(log)
    BY <2>1, ShowsLogged
  <2>5. OnceIn(sub)
    BY <1>0, <2>4 DEF OnceIn, OnceBy
  <2> QED
    BY <2>1, <2>2, <2>3, <2>5, SubscribeOnce
<1>2. ASSUME NEW c \in Conns, \/ \E watch \in Watches : MonReq(c, watch)
                              \/ \E id \in 1..MaxMons : UnmonReq(c, id)
      PROVE  OnceInv'
  <2>1. /\ UNCHANGED <<log, sat, feedVars, gone>>
        /\ \A d \in Conns \ {c} : sub'[d] = sub[d]
        /\ sub'[c].subs = sub[c].subs
        /\ \/ sub'[c].rev = sub[c].rev /\ sub'[c].bufr = sub[c].bufr
           \/ sub'[c] = NoSub
    BY <1>0, <1>2, MonitorEffect
  <2>2. log' = log /\ got' = got /\ since' = since /\ Shows' = Shows
    BY <2>1 DEF feedVars, Shows, Idle
  <2>3. ASSUME NEW d \in Conns, sub'[d].bufr = sub[d].bufr
        PROVE  OnceBy(d)'
    BY <1>0, <2>2, <2>3 DEF OnceBy, Owed
  <2>4. ASSUME sub'[c] = NoSub
        PROVE  OnceBy(c)'
    <3>1. DOMAIN since[c] = {}
      BY <2>1, <2>4 DEF NoSub, HeldInv, HeldBy
    <3>2. \A e : ~Owed(c, e)'
      BY <2>2, <3>1 DEF Owed
    <3>3. \A e \in 1..MaxEvents : sub'[c].bufr[e] = 0
      BY <2>4, NoSubIdle
    <3> QED
      BY <1>0, <2>2, <3>2, <3>3 DEF OnceBy
  <2> QED
    BY <2>1, <2>3, <2>4 DEF OnceInv
<1>3. ASSUME HandleBcast
      PROVE  OnceInv'
  <2>1. /\ UNCHANGED <<log, sat, since>>
        /\ \A d \in Conns : \/ sub'[d].bufr = NoEvents /\ got'[d] = Plus(got[d], sub[d].bufr)
                            \/ sub'[d].bufr = sub[d].bufr /\ got'[d] = got[d]
    BY <1>3, BcastEffect DEF Untouched
  <2>2. Shows' = Shows /\ log' = log
    BY <2>1 DEF Shows, Idle
  <2>3. ASSUME NEW d \in Conns
        PROVE  OnceBy(d)'
    <3>1. \A e \in 1..MaxEvents : got'[d][e] + sub'[d].bufr[e] = got[d][e] + sub[d].bufr[e]
      <4>1. CASE sub'[d].bufr = NoEvents /\ got'[d] = Plus(got[d], sub[d].bufr)
        <5>1. \A e \in 1..MaxEvents : got'[d][e] = got[d][e] + sub[d].bufr[e]
          BY <4>1, BufrNat
        <5> QED
          BY <1>0, <4>1, <5>1
      <4>2. CASE sub'[d].bufr = sub[d].bufr /\ got'[d] = got[d]
        BY <4>2
      <4> QED
        BY <2>1, <4>1, <4>2
    <3>2. \A e \in Shows : Owed(d, e)' => Owed(d, e)
      BY <2>1 DEF Owed
    <3>3. OnceBy(d)
      BY <1>0
    <3> QED
      BY <2>2, <3>1, <3>2, <3>3, OnceKept
  <2> QED
    BY <2>3 DEF OnceInv
<1>4. ASSUME NEW c \in Conns, NEW batch \in Batches, NEW r \in KnownRevs,
             NEW tops \in SUBSET Topics, SatBegin(c, batch, r, tops)
      PROVE  OnceInv'
  <2>1. /\ UNCHANGED <<log, sub, since, got>> /\ Idle
        /\ sat' = [conn |-> {c}, batch |-> batch, rev |-> r, tops |-> tops, from |-> Len(log)]
    BY <1>4 DEF SatBegin, Serves, subsVars, feedVars
  <2>2. Shows' = Shows
    BY <2>1 DEF Shows, Idle, NoSat
  <2> QED
    BY <1>0, <2>1, <2>2 DEF OnceInv, OnceBy, Owed
<1>5. ASSUME NEW now \in Nows, SatPublish(now)
      PROVE  OnceInv'
  <2>1. /\ UNCHANGED <<sub, since, got>>
        /\ ~Idle /\ sat' = [sat EXCEPT !.batch = Tail(@)] /\ sat \in SatReqs
        /\ \A e \in 1..Len(log) : log'[e] = log[e]
    BY <1>5, SatPublishEffect
  <2>2. sat'.from = sat.from /\ Idle' = FALSE
    <3>1. sat'.batch = Tail(sat.batch) /\ sat' \in [conn : {{d} : d \in Conns}, batch : {Tail(sat.batch)},
                                rev : Nat, tops : SUBSET Topics, from : 0..MaxEvents]
      BY <2>1 DEF SatReqs
    <3> QED
      BY <2>1, <3>1 DEF SatReqs, Idle, NoSat
  <2>3. Shows' = Shows /\ \A e \in Shows : e \in 1..Len(log)
    BY <2>1, <2>2, ShowsLogged DEF Shows
  <2>4. \A e \in Shows : log'[e] = log[e]
    BY <2>1, <2>3
  <2> QED
    BY <1>0, <2>1, <2>3, <2>4 DEF OnceInv, OnceBy, Owed
<1>6. ASSUME SatFails
      PROVE  OnceInv'
  BY <1>6 DEF SatFails
<1>7. ASSUME Quiet
      PROVE  OnceInv'
  <2>1. UNCHANGED <<log, sub, sat, got, since>> /\ Shows' = Shows
    BY <1>7, QuietEffect DEF Shows, Idle
  <2> QED
    BY <1>0, <2>1 DEF OnceInv, OnceBy, Owed
<1>8. ASSUME NEW c \in Conns, NEW tops \in SUBSET Topics, UnsubReq(c, tops)
      PROVE  OnceInv'
  BY <1>8, OnceUnsub DEF UnsubReq, Serves
<1>9. ASSUME NEW c \in Conns, Signoff(c)
      PROVE  OnceInv'
  BY <1>9, OnceUnsub DEF Signoff
<1> QED
  BY <1>1, <1>2, <1>3, <1>4, <1>5, <1>6, <1>7, <1>8, <1>9, Steps, OncePub, OnceSat

LEMMA OnceInit == ASSUME Init PROVE OnceInv
<1>1. /\ Shows = {} /\ \A c \in Conns : \A e \in 1..MaxEvents :
            got[c][e] = 0 /\ sub[c].bufr[e] = 0
  BY BufrNat, EmptySeq DEF Init, SubscribersInit, NoSub, Shows, Idle
<1> QED
  BY <1>1 DEF OnceInv, OnceBy

\* A client that holds a topic gets each of its events once, from a broadcast,
\* as history or with the answer to its own publication, whatever it subscribes,
\* gives up and asks again in between: as long as no client holds more than
\* Unsub can give up at once and no ledger read fails.
THEOREM EveryEventOnce ==
    ASSUME ~LedgerFails PROVE Spec /\ []FewTopics => []ExactlyOnce
<1>1. TypeOK /\ TriggerInv /\ HeldInv /\ FewTopics /\ [Next]_vars => HeldInv'
  BY HeldStep
<1>2. /\ TypeOK /\ TypeOK' /\ TriggerInv /\ HeldInv /\ OnceInv /\ FewTopics /\ [Next]_vars
      => OnceInv'
  BY OnceStep
<1>3. OnceInv => ExactlyOnce
  BY DEF OnceInv, OnceBy, ExactlyOnce
<1> QED
  BY <1>1, <1>2, <1>3, HeldInit, OnceInit, TypeCorrect, TriggerAlways, PTL DEF Spec

-----------------------------------------------------------------------------
(* The server implements the feed it promises (EventFeed): a publication, a *)
(* subscription, giving topics up, a broadcast and a satellite's offline    *)
(* transaction are the steps of the feed, everything else is a stutter.     *)
(*                                                                          *)
(* The feed brings a client up to date whenever it is sent anything.  The   *)
(* server sends what waits in the client's buffer, so that the invariants   *)
(* above are what is needed here: a buffer is empty after an update         *)
(* (FreshInv), holds only what the client is owed (HeldInv), and what it is *)
(* owed was sent once or waits there once (OnceInv).                        *)

LEMMA FeedTerms ==
    /\ \A lg : Feed!Rev(lg) = Rev(lg)
    /\ \A c \in Conns : \A e : Feed!Owed(log, since[c], e) <=> e \in 1..Len(log) /\ Owed(c, e)
  BY DEF Feed!Rev, Rev, Feed!Owed, Owed

\* A count h is up to date when it is g with the owed events it lacks.
LEMMA BroughtUpToDate ==
    ASSUME NEW lg, NEW held, NEW g, NEW h \in Bufr,
           \A e \in 1..MaxEvents : Feed!Owed(lg, held, e) => h[e] = 1 /\ g[e] \in {0, 1},
           \A e \in 1..MaxEvents : ~Feed!Owed(lg, held, e) => h[e] = g[e]
    PROVE  h = Feed!UpToDate(lg, held, g)
<1> DEFINE u == Feed!UpToDate(lg, held, g)
<1>1. u = [e \in 1..MaxEvents |-> IF Feed!Owed(lg, held, e) /\ g[e] = 0 THEN 1 ELSE g[e]]
  BY DEF Feed!UpToDate
<1>2. \A e \in 1..MaxEvents :
         h[e] = IF Feed!Owed(lg, held, e) /\ g[e] = 0 THEN 1 ELSE g[e]
  OBVIOUS
<1>3. h = [e \in 1..MaxEvents |-> h[e]]
  BY DEF Bufr
<1>4. [e \in 1..MaxEvents |-> h[e]]
         = [e \in 1..MaxEvents |-> IF Feed!Owed(lg, held, e) /\ g[e] = 0 THEN 1 ELSE g[e]]
  BY <1>2
<1> QED
  BY <1>1, <1>3, <1>4

\* Only the count of c changes.
LEMMA OnlyOne ==
    ASSUME NEW S, NEW T, NEW f \in [S -> T], NEW g \in [S -> T], NEW c \in S,
           \A d \in S \ {c} : g[d] = f[d]
    PROVE  g = [f EXCEPT ![c] = g[c]]
  OBVIOUS

\* Nothing waits for a client that was sent an update at the ledger's revision.
Drained(c) == \A e \in 1..MaxEvents : sub[c].bufr[e] = 0

LEMMA Flushed ==
    TypeOK /\ TriggerInv /\ FreshInv =>
       \A c \in Conns : sub[c].rev >= Rev(log) \/ mark[c] >= Rev(log) => Drained(c)
<1> SUFFICES ASSUME TypeOK, TriggerInv, FreshInv, NEW c \in Conns,
                    sub[c].rev >= Rev(log) \/ mark[c] >= Rev(log),
                    NEW e \in 1..MaxEvents, sub[c].bufr[e] # 0
             PROVE  FALSE
  BY DEF Drained
<1>1. sub[c].bufr[e] > 0
  BY StateNumbers
<1>2. e \in 1..Len(log) /\ log[e].rev <= Rev(log)
  BY <1>1, StateNumbers DEF TriggerInv, BuffersLogged, LedgerLeads
<1>3. log[e].rev > sub[c].rev /\ log[e].rev > mark[c]
  BY <1>1, <1>2 DEF FreshInv, Newer
<1>4. log[e].rev \in Nat /\ sub[c].rev \in Nat /\ mark[c] \in Nat /\ Rev(log) \in Nat
  BY <1>2, StateNumbers
<1> QED
  BY <1>2, <1>3, <1>4

\* A client that nothing waits for was sent all it is owed.
LEMMA AllSent ==
    TypeOK /\ TriggerInv /\ OnceInv /\ Idle =>
       \A c \in Conns : Drained(c) =>
          \A e \in 1..MaxEvents : Feed!Owed(log, since[c], e) => got[c][e] = 1
<1> SUFFICES ASSUME TypeOK, TriggerInv, OnceInv, Idle, NEW c \in Conns, Drained(c),
                    NEW e \in 1..MaxEvents, Feed!Owed(log, since[c], e)
             PROVE  got[c][e] = 1
  OBVIOUS
<1>1. e \in Shows /\ Owed(c, e)
  BY FeedTerms, ShowsLogged
<1>2. got[c][e] + sub[c].bufr[e] = 1
  BY <1>1 DEF OnceInv, OnceBy
<1> QED
  BY <1>2, StateNumbers DEF Drained

\* What the proofs of the steps use of the invariants, before a step and after.
FeedInv == TypeOK /\ TriggerInv /\ FreshInv /\ HeldInv /\ OnceInv

\* A client up to date at the ledger's revision was sent what it is owed, and
\* whatever is not owed to it does not wait for it.
UpTo(c) ==
    /\ sub[c].rev >= Rev(log) \/ mark[c] >= Rev(log) => Drained(c)
    /\ Drained(c) /\ Idle =>
          \A e \in 1..MaxEvents : Feed!Owed(log, since[c], e) => got[c][e] = 1
    /\ Idle => \A e \in 1..MaxEvents :
          /\ Feed!Owed(log, since[c], e) => got[c][e] \in {0, 1}
          /\ ~Feed!Owed(log, since[c], e) => sub[c].bufr[e] = 0

LEMMA UpToDates == FeedInv => \A c \in Conns : UpTo(c)
<1> SUFFICES ASSUME FeedInv, NEW c \in Conns
             PROVE  UpTo(c)
  OBVIOUS
<1>1. TypeOK /\ TriggerInv /\ FreshInv /\ OnceInv /\ HeldBy(c)
  BY DEF FeedInv, HeldInv
<1>2. ASSUME Idle, NEW e \in 1..MaxEvents, Feed!Owed(log, since[c], e)
      PROVE  got[c][e] \in {0, 1}
  <2>1. e \in Shows /\ Owed(c, e)
    BY <1>1, <1>2, FeedTerms, ShowsLogged
  <2>2. got[c][e] + sub[c].bufr[e] = 1 /\ got[c][e] \in Nat /\ sub[c].bufr[e] \in Nat
    BY <1>1, <2>1, StateNumbers DEF OnceInv, OnceBy
  <2> QED
    BY <2>2
<1>3. ASSUME NEW e \in 1..MaxEvents, ~Feed!Owed(log, since[c], e)
      PROVE  sub[c].bufr[e] = 0
  <2>1. ~(sub[c].bufr[e] > 0)
    <3>1. sub[c].bufr[e] > 0 => e \in 1..Len(log)
      BY <1>1, StateNumbers DEF TriggerInv, BuffersLogged
    <3> QED
      BY <1>1, <1>3, <3>1, FeedTerms DEF HeldBy
  <2> QED
    BY <1>1, <2>1, StateNumbers
<1> QED
  BY <1>1, <1>2, <1>3, Flushed, AllSent DEF UpTo

LEMMA UpToDatesNext == FeedInv' => (\A c \in Conns : UpTo(c))'
  BY UpToDates, PTL

-----------------------------------------------------------------------------
(* The steps. *)

\* A client that is not sent anything keeps what it holds.
LEMMA StateFunctions ==
    ASSUME TypeOK
    PROVE  /\ got \in [Conns -> Bufr] /\ mark \in [Conns -> Nat]
           /\ \A c \in Conns : got[c] \in Bufr /\ DOMAIN since[c] \subseteq Topics
  BY DEF TypeOK

\* The ledger grows by a transaction.
LEMMA FeedAppends ==
    ASSUME log \in Seq(Events), log' \in Seq(Events), Len(log) < Len(log'),
           Len(log') <= MaxEvents, Rev(log) < Rev(log'),
           \A e \in 1..Len(log) : log'[e] = log[e],
           \A e \in (Len(log) + 1)..Len(log') : log'[e].rev = Rev(log')
    PROVE  Feed!Appends
<1>1. Len(log) \in Nat /\ Len(log') \in Nat /\ MaxEvents \in Nat
  BY LenProperties, BoundsAssumption
<1>2. Len(log') \in (Len(log) + 1)..MaxEvents
  BY <1>1
<1>3. SubSeq(log', 1, Len(log)) = log
  <2> DEFINE s == SubSeq(log', 1, Len(log))
  <2>1. s \in Seq(Events) /\ Len(s) = Len(log) /\ \A e \in 1..Len(log) : s[e] = log'[e]
    BY <1>1, SubSeqProperties
  <2> QED
    BY <2>1, SeqEqual
<1> QED
  BY <1>2, <1>3, FeedTerms DEF Feed!Appends

LEMMA FeedPublish ==
    ASSUME FeedInv, FeedInv', NEW c \in Conns, NEW acts \in Transs, NEW now \in Nows,
           Pub(c, acts, now)
    PROVE  Feed!Publish(c)
<1> DEFINE new == (Len(log) + 1)..Len(log')
           h   == [e \in 1..MaxEvents |-> IF e \in new THEN got[c][e] ELSE got'[c][e]]
           u   == Feed!UpToDate(log, since[c], got[c])
<1>0. TypeOK /\ TypeOK' /\ OnlyRegistered /\ OnceInv
  BY DEF FeedInv, TriggerInv
<1>1. /\ Idle /\ Idle' /\ UNCHANGED since /\ mark'[c] = Rev(log')
      /\ \A d \in Conns \ {c} : got'[d] = got[d] /\ mark'[d] = mark[d]
      /\ \A e \in 1..MaxEvents :
           got'[c][e] + sub'[c].bufr[e] = got[c][e] + sub[c].bufr[e] + One(new, e)
  BY <1>0, PubEffect DEF Idle
<1>2. Feed!Appends
  BY <1>0, PubLedger, FeedAppends
<1>3. /\ Rev(log') \in Nat /\ Len(log) \in Nat /\ Len(log') \in Nat /\ Len(log') <= MaxEvents
      /\ \A e \in new : e \in 1..MaxEvents /\ e \notin 1..Len(log)
  BY <1>0, PubLedger, BoundsAssumption
<1>4. \A e \in 1..MaxEvents : sub'[c].bufr[e] = 0
  BY <1>1, <1>3, UpToDatesNext DEF UpTo, Drained
<1>5. /\ got[c] \in Bufr /\ got'[c] \in Bufr
      /\ \A e \in 1..MaxEvents : /\ got[c][e] \in Nat /\ sub[c].bufr[e] \in Nat
                                 /\ got'[c][e] \in Nat
  <2>1. got[c] \in Bufr /\ got'[c] \in Bufr
    BY <1>0 DEF TypeOK
  <2> QED
    BY <1>0, <2>1, BufrNat, StateNumbers
<1> HIDE DEF new
<1>6. \A e \in 1..MaxEvents : got'[c][e] = got[c][e] + sub[c].bufr[e] + One(new, e)
  <2> SUFFICES ASSUME NEW e \in 1..MaxEvents
               PROVE  got'[c][e] = got[c][e] + sub[c].bufr[e] + One(new, e)
    OBVIOUS
  <2>1. got'[c][e] + 0 = got'[c][e]
    BY <1>5
  <2> QED
    BY <1>1, <1>4, <2>1
<1>7. ASSUME NEW e \in 1..MaxEvents, e \in new
      PROVE  got'[c][e] = 1
  <2>1. e \notin Shows
    BY <1>1, <1>3, <1>7 DEF Shows
  <2>2. got[c][e] = 0 /\ sub[c].bufr[e] = 0 /\ One(new, e) = 1
    BY <1>0, <1>7, <2>1 DEF OnceInv, OnceBy, One
  <2> QED
    BY <1>6, <2>2
<1>8. ASSUME NEW e \in 1..MaxEvents, e \notin new
      PROVE  /\ Feed!Owed(log, since[c], e) => got'[c][e] = 1 /\ got[c][e] \in {0, 1}
             /\ ~Feed!Owed(log, since[c], e) => got'[c][e] = got[c][e]
  <2>1. got'[c][e] = got[c][e] + sub[c].bufr[e]
    BY <1>5, <1>6, <1>8 DEF One
  <2>2. CASE Feed!Owed(log, since[c], e)
    <3>1. e \in Shows /\ Owed(c, e)
      BY <1>1, <2>2, FeedTerms DEF Shows
    <3>2. got[c][e] + sub[c].bufr[e] = 1
      BY <1>0, <3>1 DEF OnceInv, OnceBy
    <3> QED
      BY <1>5, <2>1, <2>2, <3>2
  <2>3. CASE ~Feed!Owed(log, since[c], e)
    <3>1. sub[c].bufr[e] = 0
      BY <1>1, <2>3, UpToDates DEF UpTo
    <3> QED
      BY <1>5, <2>1, <2>3, <3>1
  <2> QED
    BY <2>2, <2>3
<1>9. h = u
  <2>1. h \in Bufr /\ \A e \in 1..MaxEvents : h[e] = IF e \in new THEN got[c][e] ELSE got'[c][e]
    BY <1>5 DEF Bufr
  <2>2. \A e \in new : ~Feed!Owed(log, since[c], e)
    BY <1>3, FeedTerms
  <2> HIDE DEF h
  <2>3. \A e \in 1..MaxEvents : Feed!Owed(log, since[c], e) => h[e] = 1 /\ got[c][e] \in {0, 1}
    BY <1>8, <2>1, <2>2
  <2>4. \A e \in 1..MaxEvents : ~Feed!Owed(log, since[c], e) => h[e] = got[c][e]
    BY <1>8, <2>1
  <2> QED
    BY <2>1, <2>3, <2>4, BroughtUpToDate
<1>10. got'[c] = [e \in 1..MaxEvents |->
                     IF e \in (Len(log) + 1)..Len(log') THEN 1
                     ELSE Feed!UpToDate(log, since[c], got[c])[e]]
  <2>1. \A e \in 1..MaxEvents : got'[c][e] = IF e \in new THEN 1 ELSE u[e]
    BY <1>7, <1>9
  <2>2. got'[c] = [e \in 1..MaxEvents |-> got'[c][e]]
    BY <1>5 DEF Bufr
  <2>3. [e \in 1..MaxEvents |-> got'[c][e]] = [e \in 1..MaxEvents |-> IF e \in new THEN 1 ELSE u[e]]
    BY <2>1
  <2> QED
    BY <2>2, <2>3 DEF new
<1>11. got' = [got EXCEPT ![c] = got'[c]] /\ mark' = [mark EXCEPT ![c] = Rev(log')]
  BY <1>0, <1>1, OnlyOne DEF TypeOK
<1>12. got' = [got EXCEPT ![c] = [e \in 1..MaxEvents |->
                     IF e \in (Len(log) + 1)..Len(log') THEN 1
                     ELSE Feed!UpToDate(log, since[c], @)[e]]]
  BY <1>10, <1>11
<1> QED
  BY <1>1, <1>2, <1>11, <1>12, FeedTerms DEF Feed!Publish

LEMMA FeedBroadcast ==
    ASSUME FeedInv, FeedInv', HandleBcast
    PROVE  \E cs \in SUBSET Conns : Feed!Broadcast(cs)
<1> DEFINE takes(c) == Due(Rev(log)) /\ c \in smap /\ Answers(sub[c], Rev(log))
           cs       == {c \in Conns : takes(c)}
<1>0. TypeOK /\ TypeOK'
  BY DEF FeedInv
<1>1. /\ UNCHANGED <<log, since, sat>> /\ Idle /\ Idle' /\ Rev(log) \in Nat
      /\ \A c \in Conns : \/ /\ takes(c) /\ sub'[c].bufr = NoEvents
                             /\ got'[c] = Plus(got[c], sub[c].bufr) /\ mark'[c] = Rev(log)
                          \/ ~takes(c) /\ got'[c] = got[c] /\ mark'[c] = mark[c]
  BY <1>0, BcastEffect, StateNumbers DEF Untouched, Idle
<1> HIDE DEF takes
<1>2. ASSUME NEW c \in cs
      PROVE  got'[c] = Feed!UpToDate(log, since[c], got[c])
  <2>1. /\ got'[c] = Plus(got[c], sub[c].bufr) /\ mark'[c] = Rev(log) /\ c \in Conns
        /\ log' = log /\ since' = since
    BY <1>1
  <2>2. \A e \in 1..MaxEvents : Feed!Owed(log, since[c], e) => got'[c][e] = 1
    <3>1. UpTo(c)'
      BY <2>1, UpToDatesNext
    <3> QED
      BY <1>1, <2>1, <3>1 DEF UpTo, Feed!Owed
  <2>3. \A e \in 1..MaxEvents : /\ Feed!Owed(log, since[c], e) => got[c][e] \in {0, 1}
                                /\ ~Feed!Owed(log, since[c], e) => sub[c].bufr[e] = 0
    BY <1>1, <2>1, UpToDates DEF UpTo
  <2>4. \A e \in 1..MaxEvents : ~Feed!Owed(log, since[c], e) => got'[c][e] = got[c][e]
    <3>1. \A e \in 1..MaxEvents : got[c][e] + 0 = got[c][e]
      BY <1>0, <2>1, StateNumbers
    <3> QED
      BY <2>1, <2>3, <3>1, BufrNat
  <2>5. got'[c] \in Bufr
    BY <1>0, <2>1 DEF TypeOK
  <2> QED
    BY <2>2, <2>3, <2>4, <2>5, BroughtUpToDate
<1>3. \A c \in Conns :
         /\ got'[c] = IF c \in cs THEN Feed!UpToDate(log, since[c], got[c]) ELSE got[c]
         /\ mark'[c] = IF c \in cs THEN Rev(log) ELSE mark[c]
  BY <1>1, <1>2
<1>4. got' = [c \in Conns |-> got'[c]] /\ mark' = [c \in Conns |-> mark'[c]]
  BY <1>0 DEF TypeOK
<1> HIDE DEF cs
<1>5. /\ [c \in Conns |-> got'[c]]
            = [c \in Conns |-> IF c \in cs THEN Feed!UpToDate(log, since[c], got[c]) ELSE got[c]]
      /\ [c \in Conns |-> mark'[c]] = [c \in Conns |-> IF c \in cs THEN Rev(log) ELSE mark[c]]
  BY <1>3
<1>6. Feed!Broadcast(cs)
  BY <1>1, <1>4, <1>5, FeedTerms DEF Feed!Broadcast
<1>7. cs \subseteq Conns
  BY DEF cs
<1> QED
  BY <1>6, <1>7

\* A request for topics is granted in full, or there was nothing to ask for.
LEMMA FeedSubscribe ==
    ASSUME FeedInv, FeedInv', ~LateHistory, ~LedgerFails, UNCHANGED log, Idle',
           NEW c \in Conns, NEW r \in Nat, r <= Rev(log), NEW tops \in SUBSET Topics,
           NEW subs \in [Conns -> Subscriber], Subscribe(c, r, tops, subs),
           HeldIn(subs)
    PROVE  [Feed!Next]_(Feed!vars)
<1> DEFINE s     == subs[c]
           fresh == tops \ s.subs
           hist  == EventsSince(log, r, fresh)
           held  == [t \in DOMAIN since[c] \cup fresh |-> IF t \in fresh THEN r ELSE since[c][t]]
           again == [e \in 1..MaxEvents |->
                        IF e \in 1..Len(log) /\ log[e].act.top \in fresh THEN 0 ELSE got[c][e]]
<1>0. TypeOK /\ TypeOK'
  BY DEF FeedInv
<1>1. CASE fresh = {}
  <2>1. UNCHANGED feedVars
    BY <1>1 DEF Subscribe
  <2> QED
    BY <2>1 DEF feedVars, Feed!vars
<1>2. CASE fresh # {}
  <2>1. since' = [since EXCEPT ![c] = held]
    BY <1>2 DEF Subscribe
  <2>2. Granted(c, r, fresh, s)
    <3>1. Outcome(c, r, fresh, s)
      BY <1>0, SubscribeEffect
    <3> QED
      BY <1>2, <3>1 DEF Outcome
  <2>3. \A d \in Conns \ {c} : got'[d] = got[d] /\ mark'[d] = mark[d]
    BY <1>0, SubscribeOthers
  <2>4. /\ log' = log /\ fresh \subseteq Topics /\ s \in Subscriber
        /\ Rev(log) \in Nat /\ Len(log) \in Nat /\ s.rev \in Nat
        /\ got[c] \in Bufr /\ got'[c] \in Bufr /\ sub'[c].bufr \in Bufr /\ s.bufr \in Bufr
        /\ \A e \in 1..Len(log) : e \in 1..MaxEvents
        /\ \A e \in 1..Len(log) : s.bufr[e] > 0 => Owed(c, e)
        /\ s.subs = DOMAIN since[c]
    <3>1. s \in Subscriber /\ sub'[c] \in Subscriber /\ got[c] \in Bufr /\ got'[c] \in Bufr
      BY <1>0 DEF TypeOK
    <3> QED
      BY <1>0, <3>1, StateNumbers, SubscriberParts DEF HeldIn, HeldBy
  <2>5. \A t \in fresh : t \notin DOMAIN since[c]
    BY <2>4
  <2>6. since'[c] = held
    BY <1>0, <2>1 DEF TypeOK
  <2>7. again \in Bufr /\ \A e \in 1..MaxEvents :
           again[e] = IF e \in 1..Len(log) /\ log[e].act.top \in fresh THEN 0 ELSE got[c][e]
    BY <2>4 DEF Bufr
  <2> HIDE DEF s, fresh, again
  <2>8. Drained(c)'
    <3>1. sub'[c].rev >= Rev(log) \/ mark'[c] >= Rev(log)
      BY <2>2, <2>4 DEF Granted
    <3> QED
      BY <2>4, <3>1, UpToDatesNext DEF UpTo
  <2>9. /\ \A e \in 1..MaxEvents : got'[c][e] = Again(c, fresh, e) + s.bufr[e] + One(hist, e)
        /\ \A e \in 1..MaxEvents : s.bufr[e] \in Nat /\ got[c][e] \in Nat /\ got'[c][e] \in Nat
    <3>1. \A e \in 1..MaxEvents : /\ s.bufr[e] \in Nat /\ got[c][e] \in Nat /\ got'[c][e] \in Nat
                                  /\ sub'[c].bufr[e] = 0
      BY <2>4, <2>8, BufrNat DEF Drained
    <3>2. \A e \in 1..MaxEvents :
             got'[c][e] + sub'[c].bufr[e] = Again(c, fresh, e) + s.bufr[e] + One(hist, e)
      BY <2>2 DEF Granted
    <3>3. \A e \in 1..MaxEvents : got'[c][e] + 0 = got'[c][e]
      BY <3>1
    <3> QED
      BY <3>1, <3>2, <3>3
  <2>10. /\ \A e \in 1..Len(log) : again[e] = Again(c, fresh, e) /\ again[e] \in Nat
         /\ \A e \in 1..MaxEvents : e \notin 1..Len(log) => again[e] = 0 /\ got'[c][e] = 0
    <3>1. \A e \in 1..MaxEvents : e \notin 1..Len(log) => got[c][e] = 0
      <4>1. \A e \in 1..MaxEvents : e \notin 1..Len(log) => e \notin Shows
        BY ShowsLogged DEF FeedInv
      <4> QED
        BY <4>1 DEF FeedInv, OnceInv, OnceBy
    <3>2. \A e \in 1..MaxEvents : e \notin 1..Len(log) => got'[c][e] = 0
      <4>1. Shows' = 1..Len(log)
        BY <2>4 DEF Shows
      <4> QED
        BY <4>1 DEF FeedInv, OnceInv, OnceBy
    <3> QED
      BY <2>4, <2>7, <2>9, <3>1, <3>2 DEF Again
  <2>11. ASSUME NEW e \in 1..MaxEvents, Feed!Owed(log, held, e)
         PROVE  got'[c][e] = 1 /\ again[e] \in {0, 1}
    <3>1. got'[c][e] = 1
      <4>1. UpTo(c)'
        BY UpToDatesNext
      <4> QED
        BY <2>4, <2>6, <2>8, <2>11, <4>1 DEF UpTo, Feed!Owed
    <3>2. again[e] = Again(c, fresh, e) /\ again[e] \in Nat
      BY <2>10, <2>11 DEF Feed!Owed
    <3>3. One(hist, e) \in {0, 1}
      BY OneNat
    <3> QED
      BY <2>9, <3>1, <3>2, <3>3
  <2>12. ASSUME NEW e \in 1..MaxEvents, ~Feed!Owed(log, held, e)
         PROVE  got'[c][e] = again[e]
    <3>1. CASE e \notin 1..Len(log)
      BY <2>10, <3>1
    <3>2. CASE e \in 1..Len(log)
      <4>1. e \notin hist
        BY <2>12 DEF EventsSince, Feed!Owed
      <4>2. One(hist, e) = 0
        BY <4>1 DEF One
      <4>3. ~Owed(c, e)
        BY <2>5, <2>12, <3>2 DEF Feed!Owed, Owed
      <4>4. s.bufr[e] = 0
        BY <2>4, <2>9, <3>2, <4>3
      <4> QED
        BY <2>9, <2>10, <3>2, <4>2, <4>4
    <3> QED
      BY <3>1, <3>2
  <2> HIDE DEF held
  <2>13. got'[c] = Feed!UpToDate(log, held, again)
    BY <2>4, <2>11, <2>12, BroughtUpToDate
  <2>14. got' = [got EXCEPT ![c] = Feed!UpToDate(log, held, again)]
    <3>1. got' = [got EXCEPT ![c] = got'[c]]
      BY <1>0, <2>3, OnlyOne DEF TypeOK
    <3> QED
      BY <2>13, <3>1
  <2>15. \/ mark' = [mark EXCEPT ![c] = Rev(log)]
         \/ mark' = mark /\ got'[c] = again
    <3>1. mark' = [mark EXCEPT ![c] = mark'[c]]
      BY <1>0, <2>3, OnlyOne DEF TypeOK
    <3>2. CASE Answers(s, Rev(log))
      <4>1. mark'[c] = Rev(log)
        BY <2>2, <3>2 DEF Granted
      <4> QED
        BY <3>1, <4>1
    <3>3. CASE ~Answers(s, Rev(log))
      <4>1. /\ mark'[c] = mark[c]
            /\ \A e \in 1..MaxEvents : sub'[c].bufr[e] = s.bufr[e] + One(hist, e)
        BY <2>2, <3>3 DEF Granted
      <4>2. mark' = mark
        BY <1>0, <3>1, <4>1 DEF TypeOK
      <4>3. \A e \in 1..MaxEvents : s.bufr[e] = 0 /\ One(hist, e) = 0
        BY <2>8, <2>9, <4>1, OneNat DEF Drained
      <4>4. \A e \in 1..MaxEvents : got'[c][e] = again[e]
        BY <2>9, <2>10, <4>3
      <4>5. got'[c] = again
        BY <2>4, <2>7, <4>4, BufrEqual
      <4> QED
        BY <4>2, <4>5
    <3> QED
      BY <3>2, <3>3
  <2>16. Feed!Subscribe(c, r, fresh)
    BY <2>1, <2>4, <2>14, <2>15, FeedTerms DEF Feed!Subscribe, held, again
  <2>17. r \in 0..Feed!Rev(log)
    BY <2>4, FeedTerms
  <2> QED
    BY <2>4, <2>16, <2>17 DEF Feed!Next
<1> QED
  BY <1>1, <1>2

\* Clients that give topics up, or leave.
LEMMA FeedUnsubscribe ==
    ASSUME TypeOK, NEW c \in Conns, NEW tops \in SUBSET Topics, Forgo(c, tops),
           UNCHANGED <<log, got, mark>>
    PROVE  Feed!Next
<1> DEFINE left == IF tops = {} THEN {} ELSE DOMAIN since[c] \ tops
<1>1. since' = [since EXCEPT ![c] = [t \in left |-> since[c][t]]]
  <2>1. c \in DOMAIN since
    BY DEF TypeOK
  <2> QED
    BY <2>1 DEF Forgo
<1>2. left \in SUBSET DOMAIN since[c]
  OBVIOUS
<1> HIDE DEF left
<1>3. Feed!Unsubscribe(c, left)
  BY <1>1 DEF Feed!Unsubscribe
<1> QED
  BY <1>2, <1>3 DEF Feed!Next

LEMMA FeedStep ==
    ASSUME FeedInv, FeedInv', ~LateHistory, ~LedgerFails, [Next]_vars
    PROVE  [Feed!Next]_(Feed!vars)
<1>0. TypeOK /\ TypeOK' /\ TriggerInv /\ HeldInv /\ OnlyRegistered /\ LedgerLeads
  BY DEF FeedInv, TriggerInv
<1>1. ASSUME NEW c \in Conns, NEW acts \in Transs, NEW now \in Nows, Pub(c, acts, now)
      PROVE  Feed!Next
  BY <1>1, FeedPublish DEF Feed!Next
<1>2. ASSUME NEW c \in Conns, NEW r \in KnownRevs, NEW tops \in SUBSET Topics,
             SubReq(c, r, tops)
      PROVE  [Feed!Next]_(Feed!vars)
  <2>1. Subscribe(c, r, tops, sub) /\ UNCHANGED log /\ Idle' /\ r \in Nat
    BY <1>0, <1>2, StateNumbers DEF SubReq, Serves, Idle
  <2>2. r <= Rev(log)
    BY <1>0, StateNumbers DEF KnownRevs, LedgerLeads
  <2>3. sub \in [Conns -> Subscriber] /\ HeldIn(sub)
    BY <1>0 DEF TypeOK, HeldIn, HeldInv, HeldBy
  <2> QED
    BY <2>1, <2>2, <2>3, FeedSubscribe
<1>3. ASSUME NEW c \in Conns, SatEnd(c)
      PROVE  [Feed!Next]_(Feed!vars)
  <2> DEFINE shown == Shown(log, (sat.from + 1)..Len(log), c)
  <2>1. /\ ~Idle /\ Idle' /\ UNCHANGED log
        /\ sat.rev \in Nat /\ sat.tops \in SUBSET Topics
        /\ Subscribe(c, sat.rev, sat.tops, shown)
        /\ shown \in [Conns -> Subscriber]
    BY <1>0, <1>3, SatEndEffect
  <2>2. HeldIn(shown)
    BY <1>0, <1>3, SatShown
  <2> HIDE DEF shown
  <2>3. sat.rev <= Rev(log)
    BY <1>0, <2>1 DEF HeldInv, SatHeld
  <2> QED
    BY <2>1, <2>2, <2>3, FeedSubscribe
<1>4. ASSUME NEW now \in Nows, SatPublish(now)
      PROVE  Feed!Next
  <2>1. UNCHANGED <<got, mark, since>>
    BY <1>4 DEF SatPublish, feedVars
  <2>2. Len(log') <= MaxEvents
    BY <1>0 DEF TypeOK
  <2>3. Feed!Appends
    BY <1>0, <1>4, <2>2, SatPublishEffect, FeedAppends
  <2> QED
    BY <2>1, <2>3 DEF Feed!Next, Feed!PublishOffline
<1>5. ASSUME NEW c \in Conns, NEW tops \in SUBSET Topics, UnsubReq(c, tops)
      PROVE  Feed!Next
  BY <1>0, <1>5, FeedUnsubscribe DEF UnsubReq
<1>6. ASSUME NEW c \in Conns, Signoff(c)
      PROVE  Feed!Next
  BY <1>0, <1>6, FeedUnsubscribe DEF Signoff
<1>7. ASSUME HandleBcast
      PROVE  Feed!Next
  BY <1>7, FeedBroadcast DEF Feed!Next
<1>8. ASSUME NEW c \in Conns, \/ \E watch \in Watches : MonReq(c, watch)
                              \/ \E id \in 1..MaxMons : UnmonReq(c, id)
      PROVE  UNCHANGED Feed!vars
  BY <1>8 DEF MonReq, UnmonReq, feedVars, Feed!vars
<1>9. ASSUME NEW c \in Conns, NEW batch \in Batches, NEW r \in KnownRevs,
             NEW tops \in SUBSET Topics, SatBegin(c, batch, r, tops)
      PROVE  UNCHANGED Feed!vars
  BY <1>9 DEF SatBegin, feedVars, Feed!vars
<1>10. ASSUME SatFails \/ Quiet
       PROVE  UNCHANGED Feed!vars
  BY <1>10, QuietEffect DEF SatFails, feedVars, Feed!vars
<1> QED
  BY <1>1, <1>2, <1>3, <1>4, <1>5, <1>6, <1>7, <1>8, <1>9, <1>10, Steps

\* What clients see of the server is the feed it promises: whenever one is sent
\* anything it is brought up to date, and no event it holds is sent twice; as
\* long as nobody asks history the server holds back, no ledger read fails and
\* no client holds more than Unsub can give up at once.
THEOREM ServerImplementsFeed ==
    ASSUME ~LateHistory, ~LedgerFails PROVE Spec /\ []FewTopics => ImplementsFeed
<1>1. Init => Feed!Init
  BY DEF Init, Feed!Init, NoEvents
<1>2. Init => FreshInv /\ HeldInv /\ OnceInv
  BY FreshInit, HeldInit, OnceInit
<1>3. TypeOK /\ TypeOK' /\ TriggerInv /\ FreshInv /\ [Next]_vars => FreshInv'
  BY FreshStep
<1>4. TypeOK /\ TriggerInv /\ HeldInv /\ FewTopics /\ [Next]_vars => HeldInv'
  BY HeldStep
<1>5. /\ TypeOK /\ TypeOK' /\ TriggerInv /\ HeldInv /\ OnceInv /\ FewTopics /\ [Next]_vars
      => OnceInv'
  BY OnceStep
<1>6. FeedInv /\ FeedInv' /\ [Next]_vars => [Feed!Next]_(Feed!vars)
  BY FeedStep
<1>7. FeedInv <=> TypeOK /\ TriggerInv /\ FreshInv /\ HeldInv /\ OnceInv
  BY DEF FeedInv
<1>8. Spec /\ []FewTopics => []FeedInv
  BY <1>2, <1>3, <1>4, <1>5, <1>7, TypeCorrect, TriggerAlways, PTL DEF Spec
<1>9. Spec /\ []FewTopics => Feed!Spec
  BY <1>1, <1>6, <1>8, PTL DEF Spec, Feed!Spec
<1> QED
  BY <1>9 DEF ImplementsFeed
=============================================================================
