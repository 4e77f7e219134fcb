----------------------------- MODULE SigsToWatch -----------------------------
(***************************************************************************)
(* sigsToWatch: the signatures a monitor gathered are grouped by topic     *)
(* into the watches of a note.  The watch of a topic is filled through a   *)
(* pointer into the result slice, kept in wm.  When append outgrows the    *)
(* slice's array, the watches are copied to a larger one and the pointers  *)
(* kept so far go on pointing into the array left behind.                  *)
(***************************************************************************)
EXTENDS Integers, Sequences

CONSTANTS SigTopics, SigKeys,  \* of the signatures
          MaxSigs   \* bound on the signatures of a monitor

ASSUME MaxSigsAssumption == MaxSigs \in Nat

VARIABLES sigs,   \* the signatures handled so far
          mem,    \* the arrays of res, oldest first; res is the last one
          cap,    \* capacity of the last array
          wm      \* topic -> array and cell of the watch it points to

sigsVars == <<sigs, mem, cap, wm>>

SigsInit == sigs = << >> /\ mem = << << >> >> /\ cap = 0 /\ wm = << >>

res == mem[Len(mem)]

\* How append grows a slice of this element size.
Grown(n) == IF n = 0 THEN 1 ELSE 2 * n

\* Mutant of KnownTopic: the key is added to the last watch.
LastTopic(sig) ==
    /\ sig.top \in DOMAIN wm
    /\ mem' = [mem EXCEPT ![Len(mem)][Len(res)].keys = Append(@, sig.key)]
    /\ UNCHANGED <<cap, wm>>

\* A topic seen before: the key is added to the watch wm points to.
KnownTopic(sig) ==
    /\ sig.top \in DOMAIN wm
    /\ LET p == wm[sig.top]
       IN  mem' = [mem EXCEPT ![p.arr][p.cell].keys = Append(@, sig.key)]
    /\ UNCHANGED <<cap, wm>>

\* A new topic: a watch is appended to res and pointed to.
NewTopic(sig) ==
    LET watch == [top |-> sig.top, keys |-> <<sig.key>>]
        full  == Len(res) = cap
    IN  /\ sig.top \notin DOMAIN wm
        /\ mem' = IF full THEN Append(mem, Append(res, watch))
                  ELSE [mem EXCEPT ![Len(mem)] = Append(@, watch)]
        /\ cap' = IF full THEN Grown(cap) ELSE cap
        /\ wm' = [t \in DOMAIN wm \cup {sig.top} |->
                     IF t = sig.top THEN [arr |-> Len(mem'), cell |-> Len(res) + 1]
                     ELSE wm[t]]

SigsNext ==
    \E sig \in [top : SigTopics, key : SigKeys] :
        /\ Len(sigs) < MaxSigs
        /\ sigs' = Append(sigs, sig)
        /\ KnownTopic(sig) \/ NewTopic(sig)

\* The keys of topic t, in the order they came in.
KeysOf(s, t) ==
    LET keys[n \in 0..Len(s)] ==
            IF n = 0 THEN << >>
            ELSE IF s[n].top = t THEN Append(keys[n - 1], s[n].key) ELSE keys[n - 1]
    IN  keys[Len(s)]

Grouped ==
    \A a, b, c \in DOMAIN sigs :
        a < b /\ b < c /\ sigs[a].top = sigs[c].top => sigs[b].top = sigs[a].top

\* Each topic has one watch, and a watch lists no key its monitor did not get and
\* in no other order.  It lists all of them if the keys came grouped by topic, and
\* may lose some otherwise: a topic that comes back after append moved the slice
\* is written to the array left behind (subs.go:254-256).
WatchesFaithful ==
    /\ \A i \in DOMAIN res :
          LET got == KeysOf(sigs, res[i].top)
          IN  /\ \A j \in DOMAIN res : res[j].top = res[i].top => j = i
              /\ Len(res[i].keys) <= Len(got)
              /\ \A n \in DOMAIN res[i].keys : res[i].keys[n] = got[n]
    /\ Grouped => \A n \in DOMAIN sigs : \E i \in DOMAIN res :
          /\ res[i].top = sigs[n].top
          /\ \E j \in DOMAIN res[i].keys : res[i].keys[j] = sigs[n].key
=============================================================================
