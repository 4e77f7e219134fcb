----------------------------- MODULE Subscribers -----------------------------
(***************************************************************************)
(* The subscriber registry of package evt (type Subscribers and its        *)
(* methods), owned by the goroutine that runs the event server.            *)
(*                                                                         *)
(* A subscriber holds the topics it subscribed, its monitors and the       *)
(* events that wait for the next broadcast.  The registry reaches it by    *)
(* connection (smap), by topic (tmap) and, through its monitors, by event  *)
(* signature (mmap).  The code keeps a topic's subscribers and a           *)
(* subscriber's topics and events in slices: their order is abstracted and *)
(* they are sets and a multiset here, with the one place where the order   *)
(* of a slice is observable, Unsub without topics, as a choice over the    *)
(* orders (UnsubLoop follows that loop on the slice itself).  The order in *)
(* mmap decides which monitor dropMon removes, so mmap holds sequences.    *)
(***************************************************************************)
EXTENDS EvtLedger, UnsubTopics

CONSTANTS Conns,      \* hub connections
          MaxEvents,  \* bound on the length of the ledger
          MaxMons     \* bound on the monitors a subscriber ever registers

ASSUME BoundsAssumption == MaxEvents \in Nat /\ MaxMons \in Nat

VARIABLES sub,   \* the subscriber of each connection, NoSub when it has none
          smap,  \* connections with a subscriber
          tmap,  \* topic -> connections subscribed to it
          mmap   \* signature -> its monitors in order of registration

subsVars == <<sub, smap, tmap, mmap>>

Bufr     == [1..MaxEvents -> Nat]
NoEvents == [e \in 1..MaxEvents |-> 0]

Monitor    == [id : 1..MaxMons, watch : SUBSET Sigs, bufr : SUBSET Sigs]
Subscriber == [rev : Nat, subs : SUBSET Topics, mons : SUBSET Monitor,
               bufr : Bufr, note : BOOLEAN, monid : 0..MaxMons]
\* A monitor as mmap refers to it; live is FALSE once the subscriber it points
\* to was dropped from smap.
MonRef == [conn : Conns, id : 1..MaxMons, live : BOOLEAN]

NoSub == [rev |-> 0, subs |-> {}, mons |-> {}, bufr |-> NoEvents,
          note |-> FALSE, monid |-> 0]

SubscribersInit ==
    /\ sub  = [c \in Conns |-> NoSub]
    /\ smap = {}
    /\ tmap = [t \in Topics |-> {}]
    /\ mmap = [g \in Sigs |-> << >>]

-----------------------------------------------------------------------------
(***************************************************************************)
(* Subscriber.Update: whether it returns an update at all, and the         *)
(* subscriber it leaves behind.  The update carries all of s.bufr.         *)
(***************************************************************************)
Answers(s, rev) == rev > s.rev \/ s.note

\* Mutants of Update: it keeps what it carried, or forgets to clear the monitors.
UpdateKeepsBufr(s, rev) ==
    IF ~Answers(s, rev) THEN s
    ELSE [s EXCEPT !.rev = IF rev > @ THEN rev ELSE @, !.note = FALSE]

UpdateKeepsNotes(s, rev) ==
    IF ~Answers(s, rev) THEN s
    ELSE [s EXCEPT !.rev = IF rev > @ THEN rev ELSE @, !.bufr = NoEvents, !.note = FALSE]

Update(s, rev) ==
    IF ~Answers(s, rev) THEN s
    ELSE [s EXCEPT !.rev  = IF rev > @ THEN rev ELSE @,
                   !.bufr = NoEvents,
                   !.mons = IF s.note THEN {[m EXCEPT !.bufr = {}] : m \in @} ELSE @,
                   !.note = FALSE]

Carried(s, rev) == IF Answers(s, rev) THEN s.bufr ELSE NoEvents

(***************************************************************************)
(* Subscribers.Show for the events at positions new of log, sent by from.  *)
(***************************************************************************)
\* The monitors the action a is looked up for.
Watchers(a) ==
    LET refs(g) == {mmap[g][i] : i \in DOMAIN mmap[g]}
    IN  refs(Sig(a)) \cup IF a.cmd = CmdNew THEN refs(NewSig(a)) ELSE {}

\* The signatures of the new events that monitor id of connection c gets.
Noticed(log, new, c, id) ==
    {Sig(log[e].act) : e \in
        {f \in new : [conn |-> c, id |-> id, live |-> TRUE] \in Watchers(log[f].act)}}

\* Mutant of Shown: the sender is not left out.
ShownToSender(log, new, from) ==
    [c \in Conns |->
        [sub[c] EXCEPT
            !.bufr = [e \in 1..MaxEvents |->
                         IF e \in new /\ c \in tmap[log[e].act.top] THEN @[e] + 1 ELSE @[e]]]]

Shown(log, new, from) ==
    [c \in Conns |->
        [sub[c] EXCEPT
            !.bufr = [e \in 1..MaxEvents |->
                         IF e \in new /\ c # from /\ c \in tmap[log[e].act.top]
                         THEN @[e] + 1 ELSE @[e]],
            !.mons = {[m EXCEPT !.bufr = @ \cup Noticed(log, new, c, m.id)] : m \in @},
            !.note = @ \/ \E e \in new : \E r \in Watchers(log[e].act) :
                              r.conn = c /\ r.live]]

\* Mutant of Trigger: monitors do not ask for a broadcast.
TriggerOfTopics(log, new, from) ==
    \E e \in new : tmap[log[e].act.top] \ {from} # {}

\* Whether Show asks for a broadcast.
Trigger(log, new, from) ==
    \E e \in new : \/ tmap[log[e].act.top] \ {from} # {}
                   \/ Watchers(log[e].act) # {}

-----------------------------------------------------------------------------
\* Subscribers.Sub for the topics tops, of which fresh are new to c.
Sub(c, tops, fresh) ==
    /\ smap' = IF tops = {} THEN smap ELSE smap \cup {c}
    /\ tmap' = [t \in Topics |-> IF t \in fresh THEN tmap[t] \cup {c} ELSE tmap[t]]
    /\ UNCHANGED mmap

\* dropMon on a list of mmap: the first monitor with this id goes and the ones
\* after it move up.
DropMon(list, id) ==
    IF \A i \in DOMAIN list : list[i].id # id THEN list
    ELSE [i \in 1..(Len(list) - 1) |->
             IF \A j \in 1..i : list[j].id # id THEN list[i] ELSE list[i+1]]

\* The references to c's monitors once its subscriber is dropped from smap.
Orphaned(c, map) ==
    [g \in Sigs |-> [i \in DOMAIN map[g] |->
        IF map[g][i].conn = c THEN [map[g][i] EXCEPT !.live = FALSE] ELSE map[g][i]]]

\* Mutant of Filter: the events of dropped topics stay.
FilterNothing(log, bufr, tops) == bufr

Filter(log, bufr, tops) ==
    [e \in 1..MaxEvents |->
        IF e \in 1..Len(log) /\ log[e].act.top \in tops THEN 0 ELSE bufr[e]]

\* Subscribers.Unsub; a connection without a subscriber changes nothing.
Unsub(log, c, tops) ==
    IF c \notin smap THEN UNCHANGED subsVars
    ELSE \E r \in UnsubOutcomes(sub[c].subs, tops) :
        /\ tmap' = [t \in Topics |->
                       IF t \in sub[c].subs \ r.keep THEN tmap[t] \ {c} ELSE tmap[t]]
        /\ IF r.keep = {} /\ sub[c].mons = {}
           THEN /\ smap' = smap \ {c}
                /\ sub'  = [sub EXCEPT ![c] = NoSub]
                /\ mmap' = Orphaned(c, mmap)
           ELSE /\ sub'  = [sub EXCEPT ![c].subs = r.keep,
                                       ![c].bufr = Filter(log, @, r.drop)]
                /\ UNCHANGED <<smap, mmap>>

\* Subscribers.Mon: the new subscriber record, one monitor per request.
Mon(c, watch) ==
    LET id == sub[c].monid + 1
    IN  /\ sub'  = [sub EXCEPT
                       ![c].monid = id,
                       ![c].mons  = @ \cup {[id |-> id, watch |-> watch, bufr |-> {}]}]
        /\ smap' = smap \cup {c}
        /\ mmap' = [g \in Sigs |->
                       IF g \in watch
                       THEN Append(mmap[g], [conn |-> c, id |-> id, live |-> TRUE])
                       ELSE mmap[g]]
        /\ UNCHANGED tmap

\* Subscribers.Unmon; an unknown monitor changes nothing.
Unmon(c, id) ==
    IF c \notin smap \/ \A m \in sub[c].mons : m.id # id THEN UNCHANGED subsVars
    ELSE LET m    == CHOOSE m \in sub[c].mons : m.id = id
             left == sub[c].mons \ {m}
             map  == [g \in Sigs |->
                         IF g \in m.watch THEN DropMon(mmap[g], id) ELSE mmap[g]]
         IN  /\ IF left = {} /\ sub[c].subs = {}
                THEN /\ smap' = smap \ {c}
                     /\ sub'  = [sub EXCEPT ![c] = NoSub]
                     /\ mmap' = Orphaned(c, map)
                ELSE /\ sub'  = [sub EXCEPT ![c].mons = left]
                     /\ mmap' = map
                     /\ UNCHANGED smap
             /\ UNCHANGED tmap
=============================================================================
