------------------------------ MODULE EventFeed ------------------------------
(***************************************************************************)
(* What the event server promises a client, without buffers, timers or     *)
(* broadcasts: the ledger grows by transactions, a client holds topics     *)
(* from a revision on, and whenever it is sent anything it is brought up   *)
(* to date, so that the revision of its last update tells it where to      *)
(* resume.  An event it holds the topic of is sent to it exactly once.     *)
(***************************************************************************)
EXTENDS EvtLedger

CONSTANTS Conns, MaxEvents

VARIABLES log,    \* the ledger
          got,    \* how often each client was sent each event
          mark,   \* revision of the last update sent to each client
          since   \* the topics each client holds, with the revision asked for

vars == <<log, got, mark, since>>

Init ==
    /\ log = << >>
    /\ got = [c \in Conns |-> [e \in 1..MaxEvents |-> 0]]
    /\ mark = [c \in Conns |-> 0]
    /\ since = [c \in Conns |-> << >>]

\* Event e of ledger lg is asked for by a client that holds the topics held.
Owed(lg, held, e) ==
    /\ e \in 1..Len(lg)
    /\ lg[e].act.top \in DOMAIN held
    /\ lg[e].rev > held[lg[e].act.top]

\* The client's count g once every owed event it lacks was sent to it.
UpToDate(lg, held, g) ==
    [e \in 1..MaxEvents |-> IF Owed(lg, held, e) /\ g[e] = 0 THEN 1 ELSE g[e]]

\* A transaction is appended, all of it at one later revision.
Appends ==
    /\ Len(log') \in (Len(log) + 1)..MaxEvents
    /\ SubSeq(log', 1, Len(log)) = log
    /\ \A e \in (Len(log) + 1)..Len(log') :
          log'[e].rev > Rev(log) /\ log'[e].rev = Rev(log')

\* Client c publishes and is answered with its own events, held or not.
Publish(c) ==
    /\ Appends
    /\ got' = [got EXCEPT ![c] =
                  [e \in 1..MaxEvents |->
                      IF e \in (Len(log) + 1)..Len(log') THEN 1
                      ELSE UpToDate(log, since[c], @)[e]]]
    /\ mark' = [mark EXCEPT ![c] = Rev(log')]
    /\ UNCHANGED since

\* An offline transaction of a satellite is published on its behalf.
PublishOffline == Appends /\ UNCHANGED <<got, mark, since>>

\* Client c asks new topics from revision r on and is brought up to date; the
\* update may be left out when there is nothing in it.
Subscribe(c, r, fresh) ==
    LET held  == [t \in DOMAIN since[c] \cup fresh |->
                     IF t \in fresh THEN r ELSE since[c][t]]
        again == [e \in 1..MaxEvents |->
                     IF e \in 1..Len(log) /\ log[e].act.top \in fresh
                     THEN 0 ELSE got[c][e]]
    IN  /\ since' = [since EXCEPT ![c] = held]
        /\ got' = [got EXCEPT ![c] = UpToDate(log, held, again)]
        /\ \/ mark' = [mark EXCEPT ![c] = Rev(log)]
           \/ mark' = mark /\ got'[c] = again
        /\ UNCHANGED log

\* Client c gives some of its topics up.
Unsubscribe(c, left) ==
    /\ since' = [since EXCEPT ![c] = [t \in left |-> @[t]]]
    /\ UNCHANGED <<log, got, mark>>

\* The clients cs are brought up to date.
Broadcast(cs) ==
    /\ got' = [c \in Conns |->
                  IF c \in cs THEN UpToDate(log, since[c], got[c]) ELSE got[c]]
    /\ mark' = [c \in Conns |-> IF c \in cs THEN Rev(log) ELSE mark[c]]
    /\ UNCHANGED <<log, since>>

Next ==
    \/ \E c \in Conns : Publish(c)
    \/ PublishOffline
    \/ \E c \in Conns, fresh \in SUBSET Topics :
          \E r \in 0..Rev(log) : Subscribe(c, r, fresh)
    \/ \E c \in Conns : \E left \in SUBSET DOMAIN since[c] : Unsubscribe(c, left)
    \/ \E cs \in SUBSET Conns : Broadcast(cs)

Spec == Init /\ [][Next]_vars
=============================================================================
