------------------------------ MODULE UnsubLoop ------------------------------
(***************************************************************************)
(* The loop of Subscribers.Unsub on Go slices.  s.Subs is the first len    *)
(* cells of the array arr.  A request without topics sets tops = s.Subs,   *)
(* which keeps the old length and shares the array that each removal       *)
(* shifts down, so the loop skips the topic after every one it removes.    *)
(***************************************************************************)
EXTENDS UnsubTopics, SequencesExt

CONSTANTS Topics,   \* topic names
          MaxReq    \* longest list of topics a request names

ASSUME UnsubAssumption == IsFiniteSet(Topics) /\ MaxReq \in Nat

VARIABLES subs,   \* s.Subs as the request finds it
          req,    \* the topics of the request
          arr,    \* the array behind s.Subs
          len,    \* the length of s.Subs
          i       \* the next cell of tops the loop reads

unsubVars == <<subs, req, arr, len, i>>

\* Mutant of Tops: the loop ranges over a copy.
TopsCopied == IF req = << >> THEN subs ELSE req

\* The slice the loop ranges over; its length is fixed when the loop starts.
Tops == IF req = << >> THEN arr ELSE req

UnsubInit ==
    /\ subs \in {s \in UNION {[1..n -> Topics] : n \in 0..Cardinality(Topics)} :
                    IsInjective(s)}
    /\ req \in UNION {[1..n -> Topics] : n \in 0..MaxReq}
    /\ arr = subs /\ len = Len(subs) /\ i = 1

\* append(s.Subs[:idx], s.Subs[idx+1:]...): the cells after idx move down and
\* the last cell keeps its old value.
ShiftedDown(idx) == [j \in DOMAIN arr |-> IF j \in idx..(len-1) THEN arr[j+1] ELSE arr[j]]

Drop(idx) ==
    /\ i <= Len(Tops) /\ idx \in 1..len /\ arr[idx] = Tops[i]
    /\ \A j \in 1..(idx-1) : arr[j] # Tops[i]
    /\ arr' = ShiftedDown(idx)
    /\ len' = len - 1
    /\ i' = i + 1
    /\ UNCHANGED <<subs, req>>

Skip ==
    /\ i <= Len(Tops) /\ \A j \in 1..len : arr[j] # Tops[i]
    /\ i' = i + 1
    /\ UNCHANGED <<subs, req, arr, len>>

UnsubNext == Skip \/ \E idx \in 1..Cardinality(Topics) : Drop(idx)

Done == i > Len(Tops)
Kept == {arr[j] : j \in 1..len}

\* For every order of the topics and every request the loop ends in one of the
\* outcomes the subscriber registry is modelled with; and when all are given up,
\* the second, the fourth and so on stay, but never the last one.
LoopOutcome ==
    Done =>
        /\ [keep |-> Kept, drop |-> ToSet(Tops)] \in UnsubOutcomes(ToSet(subs), ToSet(req))
        /\ req = << >> => Kept = {subs[j] : j \in {m \in 1..(Len(subs)-1) : m % 2 = 0}}
=============================================================================
