------------------------------ MODULE EvtServer ------------------------------
(***************************************************************************)
(* The event server of package evt: Server and the controller (Ctrl) it    *)
(* embeds, driven one message at a time by the goroutine in Run.           *)
(*                                                                         *)
(* A publication shows its events to the other subscribers' buffers and    *)
(* asks for a broadcast, which a timer throttled to one per 200ms delivers *)
(* as an internal "_bcast" message on the server's own input.  Requests    *)
(* are taken from the connections in any order, which covers every order   *)
(* the input channel can hold them in.                                     *)
(*                                                                         *)
(* got, mark, since and gone are history variables on the client's side of *)
(* the connection: what a client was sent, the revision of the last update *)
(* it was sent, the topics it holds a granted subscription for with the    *)
(* revision it asked them from, and the connections that signed off.       *)
(***************************************************************************)
EXTENDS Subscribers, SequencesExt

CONSTANTS Transs,      \* the action lists clients publish
          Batches,     \* the lists of offline transactions satellites bring
          Nows,        \* readings of the clock
          Watches,     \* the signature sets clients monitor
          Transient,   \* one-off connections (hub id -1)
          Dispatch,    \* subjects of the service table the server loop uses
          Internal,    \* internal messages the host sends
          LateHistory, \* clients may ask history the server holds back
          LedgerFails, \* reading or publishing may fail with an error
          MaxLate      \* bound on overdue timers and on queued broadcasts

\* What pub takes: it refuses a request without actions.
ActionLists == Seq(Actions) \ {<< >>}

ASSUME ServerAssumption ==
    /\ Transs \subseteq ActionLists
    /\ Batches \subseteq Seq(ActionLists)
    /\ Nows \subseteq Nat
    /\ Watches \subseteq SUBSET Sigs
    /\ LateHistory \in BOOLEAN /\ LedgerFails \in BOOLEAN
    /\ MaxLate \in Nat \ {0}

\* The subjects Ctrl.Services and Server.Services offer.
CtrlServices   == {"evt.sub", "evt.unsub", "evt.mon", "evt.unmon"}
ServerServices == CtrlServices \cup {"evt.pub", "evt.sat"}

VARIABLES log,      \* the ledger
          bcast,    \* Ctrl.bcast: revision of the last broadcast
          window,   \* less than 200ms passed since Ctrl.btrig
          timers,   \* timers armed by Btrig that have not fired
          queued,   \* _bcast messages in Ctrl.Input
          stopped,  \* a _stop message was handled
          sat,      \* the satellite request in progress, or NoSat
          ignored,  \* a request was logged as unknown and not answered
          got,      \* history: how often each client was sent each event
          mark,     \* history: revision of the last update sent to each client
          since,    \* history: granted topics and the revision asked for each
          gone      \* history: connections that signed off

ctrlVars == <<bcast, window, timers, queued, stopped>>
feedVars == <<got, mark, since>>
vars == <<log, subsVars, ctrlVars, sat, ignored, feedVars, gone>>

NoSat == [conn |-> {}]

Init ==
    /\ log = << >>
    /\ SubscribersInit
    /\ bcast = 0 /\ window = FALSE /\ timers = 0 /\ queued = 0 /\ stopped = FALSE
    /\ sat = NoSat
    /\ ignored = FALSE
    /\ got = [c \in Conns |-> NoEvents]
    /\ mark = [c \in Conns |-> 0]
    /\ since = [c \in Conns |-> << >>]
    /\ gone = {}

Plus(a, b) == [e \in 1..MaxEvents |-> a[e] + b[e]]
Once(es)   == [e \in 1..MaxEvents |-> IF e \in es THEN 1 ELSE 0]

\* The server goroutine is between two messages.
Idle == sat = NoSat

\* It takes a message of c and finds a service for its subject.
Serves(c, subj) == Idle /\ c \notin gone /\ subj \in Dispatch

-----------------------------------------------------------------------------
\* Mutant of Btrig: the comparison with the 200ms is turned around.
BtrigInWindow(trig) ==
    /\ IF trig /\ window
       THEN window' = TRUE /\ timers' = timers + 1
       ELSE UNCHANGED <<window, timers>>
    /\ UNCHANGED <<bcast, queued, stopped>>

\* Ctrl.Btrig when trig holds: arm a timer unless one was armed in the window.
Btrig(trig) ==
    /\ IF trig /\ ~window
       THEN window' = TRUE /\ timers' = timers + 1
       ELSE UNCHANGED <<window, timers>>
    /\ UNCHANGED <<bcast, queued, stopped>>

\* Mutant of Unsent: only notes are flushed before the answer.
UnsentNotes(s) == s.note

\* showSubs flushes the sender's own buffer and notes first.
Unsent(s) == s.note \/ s.bufr # NoEvents

\* Server.pub and showSubs: publish, show the events to the others, flush the
\* sender's own buffer at the old revision, then answer with all new events.
Pub(c, acts, now) ==
    LET old   == Rev(log)
        next  == Published(log, acts, now)
        new   == (Len(log) + 1)..Len(next)
        shown == Shown(next, new, c)
        s     == shown[c]
        flush == Unsent(s)
        s1    == IF flush THEN Update(s, old) ELSE s
    IN  /\ Serves(c, "evt.pub")
        /\ Len(next) <= MaxEvents
        /\ log' = next
        /\ sub' = [shown EXCEPT ![c] =
                      IF c \notin smap THEN NoSub
                      ELSE IF Rev(next) > s1.rev THEN [s1 EXCEPT !.rev = Rev(next)]
                      ELSE s1]
        /\ Btrig(Trigger(next, new, c))
        /\ got' = [got EXCEPT ![c] =
                      Plus(Once(new),
                           IF flush THEN Plus(@, Carried(s, old)) ELSE @)]
        /\ mark' = [mark EXCEPT ![c] = Rev(next)]
        /\ UNCHANGED <<smap, tmap, mmap, sat, ignored, since, gone>>

\* Ctrl.sub for topics tops from revision r, with subs the subscribers as they
\* are before it: register the new topics, fetch their history, and answer with
\* an update unless there is nothing to say.
Subscribe(c, r, tops, subs) ==
    LET s     == subs[c]
        fresh == tops \ s.subs
        s1    == [s EXCEPT !.subs = @ \cup fresh]
        s2    == [s1 EXCEPT !.bufr = Plus(@, Once(EventsSince(log, r, fresh)))]
        again == [e \in 1..MaxEvents |->
                     IF e <= Len(log) /\ log[e].act.top \in fresh THEN 0 ELSE got[c][e]]
    IN  /\ Sub(c, tops, fresh)
        /\ IF fresh = {}    \* "no new subscriptions"
           THEN sub' = subs /\ UNCHANGED feedVars
           ELSE \/ /\ LateHistory \/ s.rev < Rev(log) \/ r = Rev(log)
                   /\ sub' = [subs EXCEPT ![c] = Update(s2, Rev(log))]
                   /\ since' = [since EXCEPT ![c] = [t \in DOMAIN @ \cup fresh |->
                                   IF t \in fresh THEN r ELSE @[t]]]
                   /\ got' = [got EXCEPT ![c] = Plus(again, Carried(s2, Rev(log)))]
                   /\ mark' = IF Answers(s2, Rev(log))
                              THEN [mark EXCEPT ![c] = Rev(log)] ELSE mark
                \/ /\ LedgerFails
                   /\ sub' = [subs EXCEPT ![c] = s1]
                   /\ UNCHANGED feedVars

\* The revisions a client can know and ask events after.
KnownRevs == {0} \cup {log[e].rev : e \in 1..Len(log)}

SubReq(c, r, tops) ==
    /\ Serves(c, "evt.sub")
    /\ Subscribe(c, r, tops, sub)
    /\ UNCHANGED <<log, ctrlVars, sat, ignored, gone>>

(***************************************************************************)
(* Server.sat, the first message of a satellite, in the steps between      *)
(* which a timer may fire: its offline transactions are published one by   *)
(* one, then all their events are shown and the satellite is subscribed.   *)
(***************************************************************************)
SatBegin(c, batch, r, tops) ==
    /\ Serves(c, "evt.sat") /\ c \notin smap
    /\ Len(log) + Len(FlattenSeq(batch)) <= MaxEvents
    /\ sat' = [conn |-> {c}, batch |-> batch, rev |-> r, tops |-> tops, from |-> Len(log)]
    /\ UNCHANGED <<log, subsVars, ctrlVars, ignored, feedVars, gone>>

SatPublish(now) ==
    /\ ~Idle /\ sat.batch # << >>
    /\ Len(log) + Len(Head(sat.batch)) <= MaxEvents
    /\ log' = Published(log, Head(sat.batch), now)
    /\ sat' = [sat EXCEPT !.batch = Tail(@)]
    /\ UNCHANGED <<subsVars, ctrlVars, ignored, feedVars, gone>>

SatFails ==
    /\ ~Idle /\ sat.batch # << >> /\ LedgerFails
    /\ sat' = NoSat
    /\ UNCHANGED <<log, subsVars, ctrlVars, ignored, feedVars, gone>>

SatEnd(c) ==
    LET new == (sat.from + 1)..Len(log)
    IN  /\ ~Idle /\ c \in sat.conn /\ sat.batch = << >>
        /\ sat' = NoSat
        /\ Btrig(Trigger(log, new, c))
        /\ Subscribe(c, sat.rev, sat.tops, Shown(log, new, c))
        /\ UNCHANGED <<log, ignored, gone>>

\* What the client still asks for after giving up tops, or all of its topics.
Forgo(c, tops) ==
    since' = [since EXCEPT ![c] =
                 [t \in IF tops = {} THEN {} ELSE DOMAIN @ \ tops |-> @[t]]]

UnsubReq(c, tops) ==
    /\ Serves(c, "evt.unsub")
    /\ Unsub(log, c, tops)
    /\ Forgo(c, tops)
    /\ UNCHANGED <<log, ctrlVars, sat, ignored, got, mark, gone>>

MonReq(c, watch) ==
    /\ Serves(c, "evt.mon")
    /\ sub[c].monid < MaxMons
    /\ Mon(c, watch)
    /\ UNCHANGED <<log, ctrlVars, sat, ignored, feedVars, gone>>

UnmonReq(c, id) ==
    /\ Serves(c, "evt.unmon")
    /\ Unmon(c, id)
    /\ UNCHANGED <<log, ctrlVars, sat, ignored, feedVars, gone>>

\* Ctrl.Handle of hub.Signoff, the last message of a connection.
Signoff(c) ==
    /\ Idle /\ c \notin gone /\ c \notin Transient
    /\ gone' = gone \cup {c}
    /\ Unsub(log, c, {})
    /\ Forgo(c, {})
    /\ UNCHANGED <<log, ctrlVars, sat, ignored, got, mark>>

\* A request of the server's that the loop's table lacks ends in Ctrl.Handle's
\* default case: it is logged and the client gets no answer.
Unknown(c, subj) ==
    /\ Idle /\ c \notin gone /\ subj \in ServerServices \ Dispatch
    /\ ignored' = TRUE
    /\ UNCHANGED <<log, subsVars, ctrlVars, sat, feedVars, gone>>

-----------------------------------------------------------------------------
\* 200ms passed since btrig; no more than MaxLate timers are overdue at a time.
WindowCloses ==
    /\ window /\ timers <= MaxLate
    /\ window' = FALSE
    /\ UNCHANGED <<log, subsVars, bcast, timers, queued, stopped, sat, ignored, feedVars, gone>>

\* Mutants of TimerFires: a timer shorter than the window, and one not armed.
TimerFiresEarly ==
    /\ timers > 0 /\ queued < MaxLate
    /\ timers' = timers - 1
    /\ queued' = queued + 1
    /\ UNCHANGED <<log, subsVars, bcast, window, stopped, sat, ignored, feedVars, gone>>

TimerFiresUnarmed ==
    /\ queued < MaxLate
    /\ timers' = timers - 1
    /\ queued' = queued + 1
    /\ UNCHANGED <<log, subsVars, bcast, window, stopped, sat, ignored, feedVars, gone>>

\* The timer's function sends _bcast; the timer of an open window is not due.
TimerFires ==
    /\ timers > (IF window /\ ~stopped THEN 1 ELSE 0)
    /\ queued < MaxLate
    /\ timers' = timers - 1
    /\ queued' = queued + 1
    /\ UNCHANGED <<log, subsVars, bcast, window, stopped, sat, ignored, feedVars, gone>>

\* Mutant of Due: one broadcast only.
DueOnce(rev) == bcast = 0

\* Ctrl.Bcast only acts on a revision after the last broadcast.
Due(rev) == rev > bcast

\* Ctrl.Bcast and Subscribers.Bcast on a queued _bcast message.
HandleBcast ==
    LET rev   == Rev(log)
        takes(c) == Due(rev) /\ c \in smap /\ Answers(sub[c], rev)
    IN  /\ Idle /\ queued > 0
        /\ queued' = queued - 1
        /\ bcast' = IF Due(rev) THEN rev ELSE bcast
        /\ sub' = [c \in Conns |-> IF takes(c) THEN Update(sub[c], rev) ELSE sub[c]]
        /\ got' = [c \in Conns |-> IF takes(c) THEN Plus(got[c], sub[c].bufr) ELSE got[c]]
        /\ mark' = [c \in Conns |-> IF takes(c) THEN rev ELSE mark[c]]
        /\ UNCHANGED <<log, smap, tmap, mmap, window, timers, stopped, sat, ignored, since, gone>>

HandleBtrig ==
    /\ Idle /\ "_btrig" \in Internal
    /\ Btrig(TRUE)
    /\ UNCHANGED <<log, subsVars, sat, ignored, feedVars, gone>>

\* Ctrl.Stop: the newest timer does not fire if it has not yet.
Stop ==
    /\ Idle /\ "_stop" \in Internal
    /\ stopped' = TRUE
    /\ timers' \in IF timers = 0 THEN {0}
                   ELSE IF window /\ ~stopped THEN {timers - 1} ELSE {timers - 1, timers}
    /\ UNCHANGED <<log, subsVars, bcast, window, queued, sat, ignored, feedVars, gone>>

Next ==
    \/ \E c \in Conns, acts \in Transs, now \in Nows : Pub(c, acts, now)
    \/ \E c \in Conns, r \in KnownRevs, tops \in SUBSET Topics : SubReq(c, r, tops)
    \/ \E c \in Conns, batch \in Batches, r \in KnownRevs, tops \in SUBSET Topics :
          SatBegin(c, batch, r, tops)
    \/ \E now \in Nows : SatPublish(now)
    \/ SatFails
    \/ \E c \in Conns : SatEnd(c)
    \/ \E c \in Conns, tops \in SUBSET Topics : UnsubReq(c, tops)
    \/ \E c \in Conns, watch \in Watches : MonReq(c, watch)
    \/ \E c \in Conns, id \in 1..MaxMons : UnmonReq(c, id)
    \/ \E c \in Conns : Signoff(c)
    \/ \E c \in Conns, subj \in ServerServices : Unknown(c, subj)
    \/ WindowCloses
    \/ TimerFires
    \/ HandleBcast
    \/ HandleBtrig
    \/ Stop

\* Timers fire, time passes, and the server goroutine takes its next message.
Fairness ==
    /\ WF_vars(WindowCloses) /\ WF_vars(TimerFires) /\ WF_vars(HandleBcast)
    /\ WF_vars(\E now \in Nows : SatPublish(now)) /\ WF_vars(\E c \in Conns : SatEnd(c))

Spec     == Init /\ [][Next]_vars
FairSpec == Spec /\ Fairness

-----------------------------------------------------------------------------
SatReqs == [conn : {{c} : c \in Conns}, batch : Seq(ActionLists), rev : Nat,
            tops : SUBSET Topics, from : 0..MaxEvents]

\* The variables range over these values.
TypeOK ==
    /\ log \in Seq(Events) /\ Len(log) <= MaxEvents
    /\ sub \in [Conns -> Subscriber]
    /\ smap \subseteq Conns
    /\ tmap \in [Topics -> SUBSET Conns]
    /\ mmap \in [Sigs -> Seq(MonRef)]
    /\ bcast \in Nat
    /\ window \in BOOLEAN /\ stopped \in BOOLEAN /\ ignored \in BOOLEAN
    /\ timers \in Nat /\ queued \in Nat
    /\ sat \in SatReqs \cup {NoSat}
    /\ got \in [Conns -> Bufr]
    /\ mark \in [Conns -> Nat]
    /\ DOMAIN since = Conns
    /\ \A c \in Conns : since[c] \in [DOMAIN since[c] -> Nat] /\ DOMAIN since[c] \subseteq Topics
    /\ gone \subseteq Conns

\* Events the server has shown: all but those of a satellite being served.
Shows == 1..(IF Idle THEN Len(log) ELSE sat.from)

\* Event e is newer than c's last update and waits in its buffer.
Fresh(c, e) == sub[c].bufr[e] > 0 /\ log[e].rev > sub[c].rev

Pending(c) == sub[c].note \/ \E e \in 1..Len(log) : Fresh(c, e)

\* A broadcast is on its way: a timer has yet to fire or its message waits.
Armed == timers > 0 \/ queued > 0

\* No trigger is lost: whatever the throttling in Btrig swallows, as long as
\* the server was not stopped, a subscriber with undelivered notes or newer
\* events has a broadcast on its way that will not be skipped as done already.
NoLostTrigger ==
    ~stopped => \A c \in smap : Pending(c) => Armed /\ bcast < Rev(log)

\* The client is owed event e: it holds its topic and asked from before it.
Owed(c, e) ==
    /\ log[e].act.top \in DOMAIN since[c]
    /\ log[e].rev > since[c][log[e].act.top]

\* Every event a client asked for was sent to it exactly once, or waits in its
\* buffer exactly once: through own publications, history and broadcasts alike.
ExactlyOnce ==
    \A c \in Conns \ gone : \A e \in Shows :
        Owed(c, e) => got[c][e] + sub[c].bufr[e] = 1

\* Nothing waits for a client that gave the topic up (comment at subs.go:151).
OnlySubscribed ==
    \A c \in Conns \ gone : \A e \in 1..Len(log) :
        sub[c].bufr[e] > 0 => log[e].act.top \in DOMAIN since[c]

\* A client resumes from the revision of its last update: no event it is owed
\* up to that revision may still be on the server.
Watermark ==
    \A c \in Conns \ gone : \A e \in Shows :
        Owed(c, e) /\ log[e].rev <= mark[c] => sub[c].bufr[e] = 0

\* The registry agrees with itself and with what clients were granted: a topic
\* reaches exactly the subscribers that hold it, a subscriber stays registered
\* exactly as long as it holds a topic or a monitor.
RegistryAgrees ==
    /\ \A c \in Conns, t \in Topics : c \in tmap[t] <=> t \in sub[c].subs
    /\ \A c \in Conns : sub[c].subs = DOMAIN since[c]
    /\ \A c \in Conns : c \in smap <=> sub[c].subs # {} \/ sub[c].mons # {}

\* A signoff leaves a connection in the registry just when it has a monitor or
\* more than two topics (subs.go:130-147), and that is final: no message still on
\* its way, a satellite's among them, brings a connection back that was forgotten,
\* or gives one that was kept another topic or takes its last.
Unforgotten(c) == c \in smap /\ (sub[c].mons # {} \/ Cardinality(sub[c].subs) > 2)
SignoffOutcome ==
    [][\A c \in Conns :
          /\ c \in gone' \ gone => (c \in smap' <=> Unforgotten(c))
          /\ c \in gone => (c \in smap' <=> c \in smap) /\ sub'[c].subs = sub[c].subs]_vars

\* A monitor with unsent signatures has its subscriber flagged, or the update
\* that clears the flag would leave them behind.
NotesFlagged ==
    \A c \in smap : \A m \in sub[c].mons : m.bufr # {} => sub[c].note

\* No request of a subject the server offers goes unanswered (srv.go:10, "Server
\* provides hub services to subscribe and publish to a ledger").
NothingIgnored == ~ignored

\* After a broadcast up to revision rev no subscriber keeps an event up to rev
\* (subs.go:202).
BcastFlushes ==
    [][bcast' # bcast =>
         \A c \in smap : \A e \in 1..Len(log) :
             log[e].rev <= bcast' => sub'[c].bufr[e] = 0]_vars

\* The revision a client resumes from never goes back.
MarkGrows == [][\A c \in Conns : mark'[c] >= mark[c]]_vars

\* What clients see of the server is the promised feed: each time one is sent
\* anything, it is brought up to date, and no event it holds is sent twice.
Feed == INSTANCE EventFeed WITH log <- log, got <- got, mark <- mark, since <- since
ImplementsFeed == Feed!Spec

\* Newer events in a buffer are sent sooner or later, however many requests
\* keep the server busy and the trigger throttled.
EventuallySent ==
    \A c \in Conns : \A e \in 1..MaxEvents :
        (e <= Len(log) /\ Fresh(c, e)) ~> ~(e <= Len(log) /\ Fresh(c, e))

-----------------------------------------------------------------------------
(***************************************************************************)
(* The strengthening that makes NoLostTrigger inductive.                   *)
(***************************************************************************)
\* The ledger's last event has its highest revision, broadcasts lag behind it.
LedgerLeads ==
    /\ \A e \in 1..Len(log) : log[e].rev <= Rev(log)
    /\ bcast <= Rev(log)

\* An open window has its timer still to fire.
WindowArmed == window /\ ~stopped => timers > 0

\* Buffers hold events of the ledger only.
BuffersLogged == \A c \in Conns : \A e \in 1..MaxEvents : sub[c].bufr[e] > 0 => e <= Len(log)

\* What reaches a subscriber by topic or by monitor is registered in smap.
OnlyRegistered ==
    /\ \A c \in Conns, t \in Topics : c \in tmap[t] <=> t \in sub[c].subs
    /\ \A g \in Sigs : \A i \in DOMAIN mmap[g] : mmap[g][i].live => mmap[g][i].conn \in smap
    /\ \A c \in Conns \ smap : sub[c] = NoSub

\* While a satellite is served, what it published is ahead of every broadcast.
SatAhead ==
    ~Idle => sat.from <= Len(log) /\ (sat.from < Len(log) => bcast < Rev(log))

TriggerInv ==
    /\ LedgerLeads /\ WindowArmed /\ BuffersLogged /\ OnlyRegistered /\ SatAhead
    /\ NoLostTrigger
=============================================================================
