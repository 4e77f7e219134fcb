-------------------------- MODULE SequentialProofs --------------------------
(***************************************************************************)
(* Theorems about the components without goroutines: sessions, the loop of *)
(* Unsub, the watches of a monitor, merged actions, one time tokens,       *)
(* policies, datasets and the history of a project.                        *)
(***************************************************************************)
EXTENDS Sessions, UnsubLoop, SigsToWatch, EvtMerge, TokenDays, RulePolicy, Backups,
        MigHistory, SeqLemmas

-----------------------------------------------------------------------------
(* Sessions. *)

SesSpec == SesInit /\ [][SesNext]_sesVars

Tokens  == {NoTok} \cup Token
Request == [toks : [header : Tokens, cookie : Tokens], sid : Sids, new : BOOLEAN,
            resp : Seq(Tokens)]

SesTypes ==
    /\ codecs \in Seq(Codecs) /\ codecs # << >>
    /\ stored \in SUBSET Sids /\ given \in SUBSET Sids /\ lost \in SUBSET Sids
    /\ jar \in Tokens
    /\ reqs \in [Reqs -> {Free} \cup Request]

\* A cookie's session was stored once, or was to be; and there is a cookie only
\* where they are read.
Backed(tok) == tok # NoTok => tok.sid \in stored \cup lost /\ "cookie" \in ToSet(Readers)

CookiesBacked ==
    /\ Backed(jar)
    /\ \A r \in Reqs : reqs[r] # Free => \A tok \in ToSet(reqs[r].resp) : Backed(tok)

SesInv == SesTypes /\ CookiesBacked

LEMMA OneToken ==
    ASSUME NEW S, NEW t \in S
    PROVE  <<t>> \in Seq(S) /\ ToSet(<<t>>) = {t}
<1>1. <<t>> \in Seq(S) /\ Len(<<t>>) = 1 /\ <<t>>[1] = t
  OBVIOUS
<1>2. ToSet(<<t>>) = {<<t>>[k] : k \in 1..Len(<<t>>)}
  BY <1>1, ToSetDef
<1>3. 1..Len(<<t>>) = {1}
  BY <1>1
<1>4. {<<t>>[k] : k \in {1}} = {<<t>>[1]}
  OBVIOUS
<1> QED
  BY <1>1, <1>2, <1>3, <1>4

LEMMA SesInitInv == SesInit => SesInv
<1> SUFFICES ASSUME SesInit PROVE SesInv
  OBVIOUS
<1>1. PICK c \in Codecs : codecs = <<c>>
  BY DEF SesInit
<1>2. codecs \in Seq(Codecs) /\ codecs # << >>
  BY <1>1, OneToken
<1>3. jar = NoTok /\ \A r \in Reqs : reqs[r] = Free
  BY DEF SesInit
<1> QED
  BY <1>2, <1>3 DEF SesInit, SesInv, SesTypes, CookiesBacked, Backed, Tokens

\* What a step does to what cookies rely on: sessions that are known stay known.
LEMMA BackedStays ==
    ASSUME SesInv, stored \cup lost \subseteq stored' \cup lost'
    PROVE  \A tok : Backed(tok) => Backed(tok)'
  BY DEF Backed

\* Serve opens a session for a request or makes one.
LEMMA ServeInv == \A r \in Reqs : SesInv /\ Serve(r) => SesInv'
<1> SUFFICES ASSUME NEW r \in Reqs, SesInv, Serve(r) PROVE SesInv'
  OBVIOUS
<1> USE DEF SesInv
<1>1. PICK header \in {NoTok} \cup {t \in Token : t.sid \in given},
          sid \in Sids, new \in BOOLEAN, resp \in {<<NoTok>>, << >>} :
        /\ reqs' = [reqs EXCEPT ![r] =
               [toks |-> [header |-> header, cookie |-> jar], sid |-> sid, new |-> new, resp |-> resp]]
        /\ given' \in {given, given \cup {sid}}
        /\ UNCHANGED <<codecs, stored, jar, lost, rotated>>
  <2>1. PICK header \in {NoTok} \cup {t \in Token : t.sid \in given} :
           LET toks == [header |-> header, cookie |-> jar]
               found == Read(toks)
               resp == IF found.how = "cookie" /\ found.sids = {} THEN <<NoTok>> ELSE << >>
           IN  \/ /\ \E sid \in found.sids :
                        reqs' = [reqs EXCEPT ![r] =
                            [toks |-> toks, sid |-> sid, new |-> FALSE, resp |-> resp]]
                  /\ given' = given
               \/ \E sid \in Sids \ given :
                        /\ reqs' = [reqs EXCEPT ![r] =
                               [toks |-> toks, sid |-> sid, new |-> TRUE, resp |-> resp]]
                        /\ given' = given \cup {sid}
    BY DEF Serve
  <2> DEFINE toks == [header |-> header, cookie |-> jar]
             found == Read(toks)
             resp == IF found.how = "cookie" /\ found.sids = {} THEN <<NoTok>> ELSE << >>
  <2>2. found.sids \subseteq Sids
    BY DEF Read, SesTypes
  <2>3. resp \in {<<NoTok>>, << >>}
    OBVIOUS
  <2>4. UNCHANGED <<codecs, stored, jar, lost, rotated>>
    BY DEF Serve
  <2>5. \E sid \in Sids, new \in BOOLEAN :
           /\ reqs' = [reqs EXCEPT ![r] =
                  [toks |-> toks, sid |-> sid, new |-> new, resp |-> resp]]
           /\ given' \in {given, given \cup {sid}}
    <3> HIDE DEF toks
    <3>1. \/ \E sid \in found.sids :
                 /\ reqs' = [reqs EXCEPT ![r] =
                       [toks |-> toks, sid |-> sid, new |-> FALSE, resp |-> resp]]
                 /\ given' = given
          \/ \E sid \in Sids \ given :
                 /\ reqs' = [reqs EXCEPT ![r] =
                       [toks |-> toks, sid |-> sid, new |-> TRUE, resp |-> resp]]
                 /\ given' = given \cup {sid}
      BY <2>1 DEF toks
    <3> HIDE DEF found, resp
    <3> QED
      BY <2>2, <3>1
  <2> HIDE DEF resp, found
  <2> QED
    BY <2>3, <2>4, <2>5
<1>2. resp \in Seq(Tokens) /\ ToSet(resp) \subseteq {NoTok}
  <2>1. << >> \in Seq(Tokens)
    OBVIOUS
  <2>2. <<NoTok>> \in Seq(Tokens) /\ ToSet(<<NoTok>>) = {NoTok}
    BY OneToken DEF Tokens
  <2> QED
    BY <1>1, <2>1, <2>2, ToSetEmpty
<1>3. reqs'[r] \in Request /\ reqs'[r].resp = resp
  BY <1>1, <1>2 DEF Request, SesTypes, Tokens
<1>4. SesTypes'
  BY <1>1, <1>3 DEF SesTypes
<1>5. \A q \in Reqs : reqs'[q] # Free => \A tok \in ToSet(reqs'[q].resp) : Backed(tok)
  BY <1>1, <1>2, <1>3 DEF SesTypes, CookiesBacked, Backed
<1>6. \A tok : Backed(tok) => Backed(tok)'
  BY <1>1 DEF Backed
<1> QED
  BY <1>1, <1>4, <1>5, <1>6 DEF CookiesBacked

\* Save sends a cookie for a new session and stores it, or loses it.
LEMMA SaveInv == \A r \in Reqs : SesInv /\ Save(r) => SesInv'
<1> SUFFICES ASSUME NEW r \in Reqs, SesInv, Save(r) PROVE SesInv'
  OBVIOUS
<1> USE DEF SesInv
<1>1. reqs[r] \in Request /\ reqs[r].sid \in Sids /\ UNCHANGED <<codecs, given, jar>>
  BY DEF Save, SesTypes, Request
<1>2. CASE UNCHANGED <<reqs, stored, lost>>
  BY <1>1, <1>2 DEF SesTypes, CookiesBacked, Backed
<1>3. ASSUME StoreSave(reqs[r].sid)
      PROVE  /\ stored' \in SUBSET Sids /\ lost' \in SUBSET Sids
             /\ stored \cup lost \subseteq stored' \cup lost'
             /\ reqs[r].sid \in stored' \cup lost'
  BY <1>1, <1>3 DEF StoreSave, SesTypes
<1>4. CASE reqs' = reqs /\ StoreSave(reqs[r].sid)
  BY <1>1, <1>3, <1>4 DEF SesTypes, CookiesBacked, Backed
<1>5. ASSUME NEW tok \in Encoded(reqs[r].sid), tok # NoTok, "cookie" \in ToSet(Readers),
             reqs' = [reqs EXCEPT ![r].resp = <<tok>>], StoreSave(reqs[r].sid)
      PROVE  SesInv'
  <2>1. tok \in Tokens /\ tok.sid = reqs[r].sid
    <3>1. Last(codecs) \in Codecs
      BY LenProperties, ElementOfSeq, EmptySeq DEF SesTypes, Last
    <3> QED
      BY <1>1, <1>5, <3>1 DEF Encoded, Tokens, Token
  <2>2. <<tok>> \in Seq(Tokens) /\ ToSet(<<tok>>) = {tok}
    BY <2>1, OneToken
  <2>3. reqs'[r] \in Request /\ reqs'[r].resp = <<tok>>
    BY <1>1, <1>5, <2>2 DEF Request, SesTypes
  <2>4. \A q \in Reqs \ {r} : reqs'[q] = reqs[q]
    BY <1>5 DEF SesTypes
  <2>5. SesTypes'
    BY <1>1, <1>3, <1>5, <2>3 DEF SesTypes
  <2>6. Backed(tok)'
    BY <1>3, <1>5, <2>1 DEF Backed
  <2> QED
    BY <1>1, <1>3, <1>5, <2>2, <2>3, <2>4, <2>5, <2>6 DEF CookiesBacked, Backed
<1> QED
  BY <1>2, <1>4, <1>5 DEF Save

\* Clear forgets the session of a cookie and clears the cookie.
LEMMA ClearInv == \A r \in Reqs : SesInv /\ Clear(r) => SesInv'
<1> SUFFICES ASSUME NEW r \in Reqs, SesInv, Clear(r) PROVE SesInv'
  OBVIOUS
<1> USE DEF SesInv
<1>1. reqs[r] \in Request /\ reqs' = [reqs EXCEPT ![r].resp = <<NoTok>>]
      /\ UNCHANGED <<codecs, given, jar>>
  BY DEF Clear, SesTypes
<1>2. <<NoTok>> \in Seq(Tokens) /\ ToSet(<<NoTok>>) = {NoTok}
  BY OneToken DEF Tokens
<1>3. reqs'[r] \in Request /\ reqs'[r].resp = <<NoTok>>
  BY <1>1, <1>2 DEF Request, SesTypes
<1>4. \A q \in Reqs \ {r} : reqs'[q] = reqs[q]
  BY <1>1 DEF SesTypes
<1>5. DecodeToken(reqs[r].toks.cookie) \subseteq Sids
  BY <1>1 DEF Request, Tokens, Token, DecodeToken
<1>6. /\ stored' \in SUBSET Sids /\ lost' \in SUBSET Sids
      /\ stored \cup lost \subseteq stored' \cup lost'
  BY <1>5 DEF Clear, SesTypes
<1>7. SesTypes'
  BY <1>1, <1>3, <1>6 DEF SesTypes
<1> QED
  BY <1>1, <1>2, <1>3, <1>4, <1>6, <1>7 DEF CookiesBacked, Backed

\* Respond gives the browser the cookie of the response.
LEMMA RespondInv == \A r \in Reqs : SesInv /\ Respond(r) => SesInv'
<1> SUFFICES ASSUME NEW r \in Reqs, SesInv, Respond(r) PROVE SesInv'
  OBVIOUS
<1> USE DEF SesInv
<1>1. /\ reqs[r] # Free /\ reqs[r] \in Request /\ reqs' = [reqs EXCEPT ![r] = Free]
      /\ jar' \in {jar} \cup ToSet(reqs[r].resp)
      /\ UNCHANGED <<codecs, stored, given, lost>>
  BY DEF Respond, SesTypes
<1>2. ToSet(reqs[r].resp) \subseteq Tokens
  BY <1>1, ToSetDef DEF Request
<1>3. Backed(jar') /\ SesTypes'
  BY <1>1, <1>2 DEF SesTypes, CookiesBacked
<1>4. \A tok : Backed(tok) => Backed(tok)'
  BY <1>1 DEF Backed
<1> QED
  BY <1>1, <1>3, <1>4 DEF SesTypes, CookiesBacked

LEMMA SesNextInv == SesInv /\ [SesNext]_sesVars => SesInv'
<1> SUFFICES ASSUME SesInv, [SesNext]_sesVars PROVE SesInv'
  OBVIOUS
<1>1. CASE Forget
  BY <1>1 DEF Forget, SesInv, SesTypes, CookiesBacked, Backed
<1>2. CASE Rotate
  <2>1. codecs' \in Seq(Codecs) /\ codecs' # << >>
    <3>1. ASSUME NEW c \in Codecs, codecs' = <<c>> \o codecs
          PROVE  codecs' \in Seq(Codecs) /\ codecs' # << >>
      <4>1. <<c>> \in Seq(Codecs) /\ Len(<<c>>) = 1
        OBVIOUS
      <4>2. /\ <<c>> \o codecs \in Seq(Codecs)
            /\ Len(<<c>> \o codecs) = Len(<<c>>) + Len(codecs) /\ Len(codecs) \in Nat
        BY <4>1, ConcatProperties, LenProperties DEF SesInv, SesTypes
      <4> QED
        BY <3>1, <4>1, <4>2, EmptySeq
    <3>2. ASSUME Len(codecs) > 1, codecs' = Front(codecs)
          PROVE  codecs' \in Seq(Codecs) /\ codecs' # << >>
      <4>1. codecs \in Seq(Codecs) /\ Len(codecs) \in Nat
        BY LenProperties DEF SesInv, SesTypes
      <4>2. /\ SubSeq(codecs, 1, Len(codecs) - 1) \in Seq(Codecs)
            /\ Len(SubSeq(codecs, 1, Len(codecs) - 1)) = Len(codecs) - 1
        <5>1. \A k \in 1..(Len(codecs) - 1) : codecs[k] \in Codecs
          BY <4>1, ElementOfSeq
        <5>2. /\ SubSeq(codecs, 1, Len(codecs) - 1) \in Seq(Codecs)
              /\ Len(SubSeq(codecs, 1, Len(codecs) - 1)) =
                    IF 1 <= Len(codecs) - 1 THEN Len(codecs) - 1 - 1 + 1 ELSE 0
          BY <4>1, <5>1, SubSeqProperties
        <5> QED
          BY <3>2, <4>1, <5>2
      <4>3. Front(codecs) = SubSeq(codecs, 1, Len(codecs) - 1)
        BY DEF Front
      <4>4. Len(codecs') # 0 /\ codecs' \in Seq(Codecs)
        BY <3>2, <4>1, <4>2, <4>3
      <4> QED
        BY <4>4, EmptySeq
    <3> QED
      BY <1>2, <3>1, <3>2 DEF Rotate
  <2> QED
    BY <1>2, <2>1 DEF Rotate, SesInv, SesTypes, CookiesBacked, Backed
<1>3. CASE UNCHANGED sesVars
  BY <1>3 DEF sesVars, SesInv, SesTypes, CookiesBacked, Backed
<1> QED
  BY <1>1, <1>2, <1>3, ServeInv, SaveInv, ClearInv, RespondInv DEF SesNext

\* The readers are looked at in order; of those a cookie alone opens, each is the
\* cookie's, and there is a first one.
LEMMA CookieIsRead ==
    ASSUME SesInv, jar # NoTok, jar.codec \in ToSet(codecs)
    PROVE  Read([header |-> NoTok, cookie |-> jar]).sids = {jar.sid} \cap stored
<1> DEFINE toks == [header |-> NoTok, cookie |-> jar]
           opens == {k \in DOMAIN Readers : DecodeToken(toks[Readers[k]]) # {}}
           least == CHOOSE k \in opens : \A m \in opens : k <= m
<1>1. /\ Readers \in Seq({"header", "cookie"}) /\ Len(Readers) \in Nat
      /\ DOMAIN Readers = 1..Len(Readers)
      /\ \A k \in 1..Len(Readers) : Readers[k] \in {"header", "cookie"}
  BY SessionsAssumption, LenProperties, ElementOfSeq
<1>2. /\ toks["header"] = NoTok /\ toks["cookie"] = jar
      /\ DecodeToken(toks["header"]) = {} /\ DecodeToken(toks["cookie"]) = {jar.sid}
  BY DEF DecodeToken
<1>3. "cookie" \in ToSet(Readers)
  BY DEF SesInv, CookiesBacked, Backed
<1>4. PICK c \in 1..Len(Readers) : Readers[c] = "cookie"
  BY <1>1, <1>3, ToSetDef
<1>5. opens \in SUBSET Nat /\ c \in opens /\ \A k \in opens : Readers[k] = "cookie"
  <2>1. ASSUME NEW k \in 1..Len(Readers)
        PROVE  k \in opens <=> Readers[k] = "cookie"
    <3>1. CASE Readers[k] = "cookie"
      BY <1>1, <1>2, <3>1
    <3>2. CASE Readers[k] = "header"
      BY <1>2, <3>2
    <3> QED
      BY <1>1, <3>1, <3>2
  <2>2. opens \subseteq 1..Len(Readers)
    BY <1>1
  <2> HIDE DEF opens
  <2> QED
    BY <1>1, <1>4, <2>1, <2>2
<1>6. opens # {}
  BY <1>5
<1> HIDE DEF opens
<1>7. \E k \in opens : \A m \in opens : k <= m
  BY <1>5, <1>6, LeastNumber
<1>8. least \in opens
  BY <1>7
<1>9. Readers[least] = "cookie"
  BY <1>5, <1>8
<1>10. Read(toks).sids = DecodeToken(toks["cookie"]) \cap stored
  BY <1>6, <1>9 DEF Read, opens
<1> QED
  BY <1>2, <1>10

LEMMA SesInvOpens == SesInv => CookieOpens
<1> SUFFICES ASSUME SesInv, jar # NoTok, jar.codec \in ToSet(codecs), jar.sid \notin lost
             PROVE  Read([header |-> NoTok, cookie |-> jar]).sids = {jar.sid}
  BY DEF CookieOpens
<1>1. jar.sid \in stored
  BY DEF SesInv, CookiesBacked, Backed
<1> QED
  BY <1>1, CookieIsRead

\* The cookie a browser holds opens its session, for any number of requests under
\* way, codecs and sessions: what the manager wrote as a cookie it finds again,
\* as long as the cookie's codec is configured and its session is in the store.
THEOREM CookiesOpen == SesSpec => []CookieOpens
<1>1. SesSpec => []SesInv
  BY SesInitInv, SesNextInv, PTL DEF SesSpec
<1> QED
  BY <1>1, SesInvOpens, PTL

-----------------------------------------------------------------------------
(* The loop of Unsub. *)

UnsubSpec == UnsubInit /\ [][UnsubNext]_unsubVars

LEMMA FunctionIsList ==
    ASSUME NEW S, NEW n \in Nat, NEW f \in [1..n -> S]
    PROVE  f \in Seq(S) /\ Len(f) = n /\ DOMAIN f = 1..n
  OBVIOUS

\* A function that tells its arguments apart has as many values.
LEMMA ImageSize ==
    ASSUME NEW S, NEW n \in Nat, NEW f \in [1..n -> S],
           \A a, b \in 1..n : f[a] = f[b] => a = b
    PROVE  Cardinality({f[k] : k \in 1..n}) = n
<1> DEFINE T == {f[k] : k \in 1..n}
<1>1. IsFiniteSet(1..n) /\ Cardinality(1..n) = n
  BY FS_Interval
<1>2. f \in [1..n -> T]
  OBVIOUS
<1>3. \A t \in T : \E k \in 1..n : f[k] = t
  OBVIOUS
<1> HIDE DEF T
<1>4. f \in Surjection(1..n, T) /\ f \in Injection(1..n, T)
  BY <1>2, <1>3 DEF Surjection, Injection, IsInjective
<1>5. Cardinality(T) = n
  BY <1>1, <1>4, FS_Surjection
<1> QED
  BY <1>5 DEF T

\* The slices: the topics as the request found them, and the array of as many.
SlicesType ==
    /\ subs \in Seq(Topics) /\ \A a, b \in 1..Len(subs) : subs[a] = subs[b] => a = b
    /\ req \in Seq(Topics)
    /\ arr \in [1..Len(subs) -> Topics]
    /\ len \in 0..Len(subs) /\ i \in 1..(Len(subs) + Len(req) + 1)

\* A request that names its topics: those it came by are gone, the others stay.
Named ==
    /\ i <= Len(req) + 1
    /\ \A a, b \in 1..len : arr[a] = arr[b] => a = b
    /\ Kept = ToSet(subs) \ {req[k] : k \in 1..(i - 1)}

\* A request without topics takes the first, the third and so on, and each time
\* the cells after it move down and the last one stays in place.
Removing ==
    /\ 2 * (i - 1) <= Len(subs) /\ len = Len(subs) - i + 1
    /\ \A k \in 1..Len(subs) :
          arr[k] = IF k < i THEN subs[2 * k]
                   ELSE IF k + i - 1 <= Len(subs) THEN subs[k + i - 1] ELSE subs[Len(subs)]

\* Then the cells it has yet to read all hold the last topic, which is gone.
Emptied ==
    /\ Len(subs) \in {2 * len + 1, 2 * len + 2} /\ i > len
    /\ \A k \in 1..Len(subs) : arr[k] = IF k <= len THEN subs[2 * k] ELSE subs[Len(subs)]

UnsubInv == SlicesType /\ (req # << >> => Named) /\ (req = << >> => Removing \/ Emptied)

LEMMA UnsubInitInv == UnsubInit => UnsubInv
<1> SUFFICES ASSUME UnsubInit PROVE UnsubInv
  OBVIOUS
<1>1. PICK n \in 0..Cardinality(Topics) : subs \in [1..n -> Topics]
  BY DEF UnsubInit
<1>2. PICK m \in 0..MaxReq : req \in [1..m -> Topics]
  BY DEF UnsubInit
<1>3. n \in Nat /\ m \in Nat
  BY UnsubAssumption, FS_CardinalityType
<1>4. /\ subs \in Seq(Topics) /\ Len(subs) = n /\ DOMAIN subs = 1..n
      /\ req \in Seq(Topics) /\ Len(req) = m
  BY <1>1, <1>2, <1>3, FunctionIsList
<1>5. arr = subs /\ len = n /\ i = 1
  BY <1>4 DEF UnsubInit
<1>6. \A a, b \in 1..Len(subs) : subs[a] = subs[b] => a = b
  BY <1>4 DEF UnsubInit, IsInjective
<1>7. SlicesType
  BY <1>1, <1>3, <1>4, <1>5, <1>6 DEF SlicesType
<1>8. Named
  <2>1. ToSet(subs) = {subs[k] : k \in 1..n} /\ 1..(i - 1) = {}
    BY <1>4, <1>5, ToSetDef
  <2> QED
    BY <1>3, <1>4, <1>5, <1>6, <2>1 DEF Named, Kept
<1>9. Removing
  BY <1>3, <1>4, <1>5 DEF Removing
<1> QED
  BY <1>7, <1>8, <1>9 DEF UnsubInv

\* What a turn does to the array and what a removal leaves of its cells.
LEMMA DropFacts ==
    ASSUME SlicesType, NEW idx \in 1..len, Drop(idx)
    PROVE  /\ arr' \in [1..Len(subs) -> Topics] /\ len' = len - 1 /\ i' = i + 1
           /\ subs' = subs /\ req' = req
           /\ \A k \in 1..Len(subs) :
                 arr'[k] = IF k \in idx..(len - 1) THEN arr[k + 1] ELSE arr[k]
<1>1. Len(subs) \in Nat /\ DOMAIN arr = 1..Len(subs)
  BY LenProperties DEF SlicesType
<1>2. arr' = [k \in 1..Len(subs) |-> IF k \in idx..(len - 1) THEN arr[k + 1] ELSE arr[k]]
  BY <1>1 DEF Drop, ShiftedDown
<1>3. \A k \in idx..(len - 1) : k + 1 \in 1..Len(subs)
  BY <1>1 DEF SlicesType
<1> QED
  BY <1>1, <1>2, <1>3 DEF Drop, SlicesType

LEMMA TurnTypes ==
    SlicesType /\ UnsubNext => SlicesType' /\ i <= Len(Tops) /\ i' = i + 1
<1> SUFFICES ASSUME SlicesType, UnsubNext
             PROVE  SlicesType' /\ i <= Len(Tops) /\ i' = i + 1
  OBVIOUS
<1>1. Len(subs) \in Nat /\ Len(req) \in Nat /\ Len(arr) = Len(subs)
  BY LenProperties, FunctionIsList DEF SlicesType
<1>2. Len(Tops) <= Len(subs) + Len(req)
  BY <1>1 DEF Tops
<1>3. i <= Len(Tops) /\ i' = i + 1 /\ subs' = subs /\ req' = req
  BY DEF UnsubNext, Skip, Drop
<1>4. i' \in 1..(Len(subs) + Len(req) + 1)
  BY <1>1, <1>2, <1>3 DEF SlicesType, Tops
<1>5. arr' \in [1..Len(subs) -> Topics] /\ len' \in 0..Len(subs)
  <2>1. CASE Skip
    BY <2>1 DEF Skip, SlicesType
  <2>2. ASSUME NEW idx, Drop(idx)
        PROVE  arr' \in [1..Len(subs) -> Topics] /\ len' \in 0..Len(subs)
    <3>1. idx \in 1..len
      BY <2>2 DEF Drop
    <3> QED
      BY <1>1, <2>2, <3>1, DropFacts DEF SlicesType
  <2> QED
    BY <2>1, <2>2 DEF UnsubNext
<1> QED
  BY <1>3, <1>4, <1>5 DEF SlicesType

LEMMA NamedTurn == SlicesType /\ Named /\ req # << >> /\ UnsubNext => Named'
<1> SUFFICES ASSUME SlicesType, Named, req # << >>, UnsubNext PROVE Named'
  OBVIOUS
<1>1. /\ Len(subs) \in Nat /\ Len(req) \in Nat /\ Tops = req /\ i \in Nat /\ i >= 1
      /\ len \in Nat /\ len <= Len(subs)
  BY LenProperties DEF SlicesType, Tops
<1>2. i <= Len(req) /\ i' = i + 1
  BY <1>1, TurnTypes
<1>3. {req[k] : k \in 1..i} = {req[k] : k \in 1..(i - 1)} \cup {req[i]}
  <2>1. 1..i = 1..(i - 1) \cup {i}
    BY <1>1
  <2> QED
    BY <2>1
<1>4. CASE Skip
  <2>1. req[i] \notin Kept
    BY <1>1, <1>4 DEF Skip, Kept
  <2>2. ToSet(subs) \ {req[k] : k \in 1..i} = Kept
    BY <1>3, <2>1 DEF Named
  <2>3. /\ i' = i + 1 /\ arr' = arr /\ len' = len /\ req' = req /\ subs' = subs
        /\ Kept' = Kept
    BY <1>4 DEF Skip, Kept
  <2>4. Kept = ToSet(subs) \ {req[k] : k \in 1..i} /\ i' - 1 = i /\ i' <= Len(req) + 1
    BY <1>1, <1>2, <2>2
  <2>5. \A a, b \in 1..len : arr[a] = arr[b] => a = b
    BY DEF Named
  <2> HIDE DEF Kept
  <2> QED
    BY <2>3, <2>4, <2>5 DEF Named
<1>5. ASSUME NEW idx, Drop(idx) PROVE Named'
  <2>1. idx \in 1..len /\ arr[idx] = req[i]
    BY <1>1, <1>5 DEF Drop
  <2>2. /\ len' = len - 1 /\ subs' = subs /\ req' = req
        /\ \A k \in 1..Len(subs) :
              arr'[k] = IF k \in idx..(len - 1) THEN arr[k + 1] ELSE arr[k]
    BY <1>5, <2>1, DropFacts
  <2>3. \A k \in 1..(len - 1) : arr'[k] = arr[IF k < idx THEN k ELSE k + 1]
    BY <1>1, <2>1, <2>2
  <2>4. \A a, b \in 1..(len - 1) : arr'[a] = arr'[b] => a = b
    <3> SUFFICES ASSUME NEW a \in 1..(len - 1), NEW b \in 1..(len - 1), arr'[a] = arr'[b]
                 PROVE  a = b
      OBVIOUS
    <3> DEFINE c == IF a < idx THEN a ELSE a + 1
               d == IF b < idx THEN b ELSE b + 1
    <3>1. c \in 1..len /\ d \in 1..len /\ (c = d => a = b)
      BY <1>1, <2>1
    <3>2. arr[c] = arr[d]
      BY <2>3
    <3> HIDE DEF c, d
    <3> QED
      BY <3>1, <3>2 DEF Named
  <2>5. {arr'[k] : k \in 1..(len - 1)} = Kept \ {req[i]}
    <3>1. ASSUME NEW k \in 1..(len - 1) PROVE arr'[k] \in Kept \ {req[i]}
      <4> DEFINE c == IF k < idx THEN k ELSE k + 1
      <4>1. c \in 1..len /\ c # idx
        BY <1>1, <2>1
      <4>2. arr'[k] = arr[c]
        BY <2>3
      <4> HIDE DEF c
      <4> QED
        BY <2>1, <4>1, <4>2 DEF Named, Kept
    <3>2. ASSUME NEW c \in 1..len, arr[c] # req[i]
          PROVE  \E k \in 1..(len - 1) : arr'[k] = arr[c]
      <4> DEFINE k == IF c < idx THEN c ELSE c - 1
      <4>1. c # idx
        BY <2>1, <3>2
      <4>2. k \in 1..(len - 1) /\ c = IF k < idx THEN k ELSE k + 1
        BY <1>1, <2>1, <4>1
      <4>3. arr'[k] = arr[c]
        BY <2>3, <4>2
      <4> QED
        BY <4>2, <4>3
    <3> QED
      BY <3>1, <3>2 DEF Kept
  <2>6. Kept' = ToSet(subs) \ {req[k] : k \in 1..i}
    BY <1>3, <2>2, <2>5 DEF Kept, Named
  <2> QED
    BY <1>1, <1>2, <2>2, <2>4, <2>6 DEF Named
<1> QED
  BY <1>4, <1>5 DEF UnsubNext

LEMMA RemovingTurn ==
    SlicesType /\ Removing /\ req = << >> /\ UnsubNext => (Removing \/ Emptied)'
<1> SUFFICES ASSUME SlicesType, Removing, req = << >>, UnsubNext PROVE (Removing \/ Emptied)'
  OBVIOUS
<1> DEFINE n == Len(subs)
<1>1. /\ n \in Nat /\ Len(arr) = n /\ Tops = arr /\ i \in Nat /\ i >= 1
      /\ len = n - i + 1 /\ 2 * (i - 1) <= n
  BY LenProperties, FunctionIsList DEF SlicesType, Tops, Removing
<1>2. i <= n /\ i' = i + 1
  BY <1>1, TurnTypes
<1>3. \A a, b \in 1..n : subs[a] = subs[b] => a = b
  BY DEF SlicesType
<1>4. \A k \in 1..n : /\ k < i => arr[k] = subs[2 * k]
                      /\ k >= i /\ k + i - 1 <= n => arr[k] = subs[k + i - 1]
                      /\ k >= i /\ k + i - 1 >= n => arr[k] = subs[n]
  <2>1. \A k \in 1..n : arr[k] = IF k < i THEN subs[2 * k]
                                  ELSE IF k + i - 1 <= n THEN subs[k + i - 1] ELSE subs[n]
    BY DEF Removing
  <2> HIDE DEF n
  <2>2. ASSUME NEW k \in 1..n, k >= i, k + i - 1 >= n PROVE arr[k] = subs[n]
    <3>1. ~(k < i) /\ (k + i - 1 = n \/ ~(k + i - 1 <= n))
      BY <1>1, <2>2
    <3> QED
      BY <2>1, <3>1
  <2>3. ASSUME NEW k \in 1..n, k >= i, k + i - 1 <= n PROVE arr[k] = subs[k + i - 1]
    <3>1. ~(k < i)
      BY <1>1, <2>3
    <3> QED
      BY <2>1, <2>3, <3>1
  <2> QED
    BY <2>1, <2>2, <2>3
<1>5. ASSUME NEW idx \in 1..len, arr[idx] = arr[i]
      PROVE  idx = IF 2 * i = n + 2 THEN len ELSE i
  <2>1. idx \in 1..n /\ i \in 1..n
    BY <1>1, <1>2
  <2>2. CASE 2 * i = n + 2
    <3>1. len = i - 1 /\ idx < i /\ arr[idx] = subs[2 * idx] /\ arr[i] = subs[n]
      BY <1>1, <1>4, <2>1, <2>2
    <3>2. 2 * idx \in 1..n /\ n \in 1..n
      <4>1. n \in Nat /\ i \in Nat
        BY <1>1
      <4> HIDE DEF n
      <4> QED
        BY <2>1, <2>2, <3>1, <4>1
    <3>3. 2 * idx = n
      BY <1>3, <1>5, <3>1, <3>2
    <3> QED
      BY <1>1, <2>2, <3>1, <3>3
  <2>3. CASE 2 * i < n + 2
    <3>1. arr[i] = subs[i + i - 1] /\ i + i - 1 \in 1..n
      BY <1>1, <1>4, <2>1, <2>3
    <3>2. CASE idx < i
      <4>1. arr[idx] = subs[2 * idx] /\ 2 * idx \in 1..n
        BY <1>1, <1>4, <2>1, <3>2
      <4>2. 2 * idx = i + i - 1
        BY <1>3, <1>5, <3>1, <4>1
      <4> QED
        BY <1>1, <4>2
    <3>3. CASE idx >= i
      <4>1. arr[idx] = subs[idx + i - 1] /\ idx + i - 1 \in 1..n
        BY <1>1, <1>4, <2>1, <3>3
      <4>2. idx + i - 1 = i + i - 1
        BY <1>3, <1>5, <3>1, <4>1
      <4> QED
        BY <1>1, <2>3, <4>2
    <3> QED
      BY <1>1, <3>2, <3>3
  <2> QED
    BY <1>1, <2>2, <2>3
<1>6. ~Skip
  <2>1. CASE 2 * i = n + 2
    <3>1. i - 1 \in 1..len /\ i - 1 \in 1..n /\ i \in 1..n /\ 2 * (i - 1) = n /\ i + i - 1 >= n
      BY <1>1, <1>2, <2>1
    <3>2. arr[i - 1] = arr[i]
      <4>1. i - 1 < i /\ i >= i
        BY <1>1
      <4>2. arr[i - 1] = subs[2 * (i - 1)]
        BY <1>4, <3>1, <4>1
      <4>3. arr[i] = subs[n]
        BY <1>4, <3>1, <4>1
      <4> QED
        BY <3>1, <4>2, <4>3
    <3> QED
      BY <1>1, <3>1, <3>2 DEF Skip
  <2>2. CASE 2 * i < n + 2
    <3>1. i \in 1..len
      BY <1>1, <2>2
    <3> QED
      BY <1>1, <3>1 DEF Skip
  <2> QED
    BY <1>1, <2>1, <2>2
<1>7. PICK idx \in 1..len : Drop(idx) /\ arr[idx] = arr[i]
  BY <1>1, <1>6 DEF UnsubNext, Drop
<1>8. /\ len' = len - 1 /\ subs' = subs
      /\ \A k \in 1..n : arr'[k] = IF k \in idx..(len - 1) THEN arr[k + 1] ELSE arr[k]
  BY <1>7, DropFacts
<1>9. CASE 2 * i = n + 2
  <2>1. idx = len /\ len = i - 1 /\ n = 2 * len' + 2
    <3>1. idx = len
      BY <1>5, <1>7, <1>9
    <3>2. len = i - 1
      BY <1>1, <1>9
    <3> QED
      BY <1>1, <1>8, <1>9, <3>1, <3>2
  <2>2. ASSUME NEW k \in 1..n
        PROVE  arr'[k] = IF k <= len' THEN subs[2 * k] ELSE subs[n]
    <3>1. arr'[k] = arr[k]
      <4>1. k \notin idx..(len - 1)
        BY <1>1, <2>1
      <4> QED
        BY <1>8, <4>1
    <3>2. CASE k <= len'
      BY <1>1, <1>4, <1>8, <2>1, <3>1, <3>2
    <3>3. CASE k = i - 1
      <4>1. arr[k] = subs[2 * k] /\ 2 * k = n
        BY <1>1, <1>4, <1>9, <3>3
      <4> QED
        BY <1>1, <1>8, <2>1, <3>1, <3>3, <4>1
    <3>4. CASE k >= i
      <4>1. k + i - 1 >= n
        BY <1>1, <1>9, <3>4
      <4>2. arr[k] = subs[n]
        BY <1>4, <3>4, <4>1
      <4> QED
        BY <1>1, <1>8, <2>1, <3>1, <3>4, <4>2
    <3> QED
      BY <1>1, <1>8, <2>1, <3>2, <3>3, <3>4
  <2>3. Emptied'
    BY <1>1, <1>2, <1>8, <2>1, <2>2 DEF Emptied
  <2> QED
    BY <2>3
<1>10. CASE 2 * i = n + 1
  <2>1. idx = i /\ len = i /\ n = 2 * len' + 1
    <3>1. 2 * i # n + 2 /\ len = i
      BY <1>1, <1>10
    <3>2. idx = i
      BY <1>5, <1>7, <3>1
    <3> QED
      BY <1>1, <1>8, <1>10, <3>1, <3>2
  <2>2. ASSUME NEW k \in 1..n
        PROVE  arr'[k] = IF k <= len' THEN subs[2 * k] ELSE subs[n]
    <3>1. arr'[k] = arr[k]
      BY <1>1, <1>8, <2>1
    <3>2. CASE k < i
      BY <1>1, <1>4, <1>8, <2>1, <3>1, <3>2
    <3>3. CASE k >= i
      <4>1. k + i - 1 >= n
        BY <1>1, <1>10, <3>3
      <4>2. arr[k] = subs[n]
        BY <1>4, <3>3, <4>1
      <4> QED
        BY <1>1, <1>8, <2>1, <3>1, <3>3, <4>2
    <3> QED
      BY <1>1, <3>2, <3>3
  <2>3. Emptied'
    BY <1>1, <1>2, <1>8, <2>1, <2>2 DEF Emptied
  <2> QED
    BY <2>3
<1>11. CASE 2 * i <= n
  <2>1. idx = i /\ len - 1 = n - i
    BY <1>1, <1>5, <1>7, <1>11
  <2>2. ASSUME NEW k \in 1..n
        PROVE  arr'[k] = IF k < i + 1 THEN subs[2 * k]
                         ELSE IF k + (i + 1) - 1 <= n THEN subs[k + (i + 1) - 1] ELSE subs[n]
    <3>1. CASE k < i
      <4>1. k \notin idx..(len - 1) /\ k < i + 1
        BY <1>1, <2>1, <3>1
      <4>2. arr'[k] = subs[2 * k]
        BY <1>4, <1>8, <3>1, <4>1
      <4> QED
        BY <4>1, <4>2
    <3>2. CASE k >= i /\ k + i <= n
      <4>1. k \in idx..(len - 1) /\ k + 1 \in 1..n /\ k + 1 >= i /\ (k + 1) + i - 1 <= n
        BY <1>1, <2>1, <3>2
      <4>2. arr'[k] = arr[k + 1] /\ arr[k + 1] = subs[(k + 1) + i - 1]
        BY <1>4, <1>8, <4>1
      <4>3. (k + 1) + i - 1 = k + i /\ k + (i + 1) - 1 = k + i /\ (k = i => 2 * k = k + i)
        BY <1>1
      <4> QED
        BY <1>1, <3>2, <4>2, <4>3
    <3>3. CASE k + i > n
      <4>1. k \notin idx..(len - 1) /\ k >= i /\ k + i - 1 >= n /\ ~(k < i + 1)
        BY <1>1, <1>11, <2>1, <3>3
      <4>2. arr'[k] = arr[k] /\ arr[k] = subs[n]
        BY <1>4, <1>8, <4>1
      <4> QED
        BY <1>1, <3>3, <4>1, <4>2
    <3> QED
      BY <1>1, <3>1, <3>2, <3>3
  <2>3. 2 * ((i + 1) - 1) <= n /\ len' = n - (i + 1) + 1
    BY <1>1, <1>8, <1>11
  <2>4. Removing'
    BY <1>2, <1>8, <2>2, <2>3 DEF Removing
  <2> QED
    BY <2>4
<1>12. 2 * i = n + 2 \/ 2 * i = n + 1 \/ 2 * i <= n
  BY <1>1
<1> QED
  BY <1>9, <1>10, <1>11, <1>12

LEMMA EmptiedTurn ==
    SlicesType /\ Emptied /\ req = << >> /\ UnsubNext => Emptied'
<1> SUFFICES ASSUME SlicesType, Emptied, req = << >>, UnsubNext PROVE Emptied'
  OBVIOUS
<1> DEFINE n == Len(subs)
<1>1. /\ n \in Nat /\ len \in Nat /\ Len(arr) = n /\ Tops = arr /\ i \in Nat /\ i >= 1
      /\ n \in {2 * len + 1, 2 * len + 2} /\ i > len
  BY LenProperties, FunctionIsList DEF SlicesType, Tops, Emptied
<1>2. i <= n /\ i' = i + 1
  BY <1>1, TurnTypes
<1>3. \A k \in 1..len : arr[k] # arr[i]
  <2> SUFFICES ASSUME NEW k \in 1..len, arr[k] = arr[i] PROVE FALSE
    OBVIOUS
  <2>1. k \in 1..n /\ i \in 1..n /\ 2 * k \in 1..n /\ n \in 1..n
    BY <1>1, <1>2
  <2>2. arr[k] = subs[2 * k] /\ arr[i] = subs[n]
    BY <1>1, <2>1 DEF Emptied
  <2>3. 2 * k = n
    BY <2>1, <2>2 DEF SlicesType
  <2> QED
    BY <1>1, <2>3
<1>4. Skip
  BY <1>1, <1>3 DEF UnsubNext, Drop
<1> QED
  BY <1>1, <1>4 DEF Skip, Emptied

LEMMA UnsubNextInv == UnsubInv /\ [UnsubNext]_unsubVars => UnsubInv'
<1> SUFFICES ASSUME UnsubInv, [UnsubNext]_unsubVars PROVE UnsubInv'
  OBVIOUS
<1>1. CASE UnsubNext
  <2>1. req' = req
    BY <1>1 DEF UnsubNext, Skip, Drop
  <2> QED
    BY <1>1, <2>1, TurnTypes, NamedTurn, RemovingTurn, EmptiedTurn DEF UnsubInv
<1>2. CASE UNCHANGED unsubVars
  <2>1. UNCHANGED <<subs, req, arr, len, i>>
    BY <1>2 DEF unsubVars
  <2>2. SlicesType => SlicesType'
    BY <2>1 DEF SlicesType
  <2>3. Named => Named'
    <3>1. Kept' = Kept
      BY <2>1 DEF Kept
    <3> QED
      BY <2>1, <3>1 DEF Named
  <2>4. Removing => Removing'
    BY <2>1 DEF Removing
  <2>5. Emptied => Emptied'
    BY <2>1 DEF Emptied
  <2> QED
    BY <2>1, <2>2, <2>3, <2>4, <2>5 DEF UnsubInv
<1> QED
  BY <1>1, <1>2

\* When it ends without topics, the even ones stay and the last one is read.
LEMMA EmptiedOutcome ==
    ASSUME SlicesType, Emptied, req = << >>
    PROVE  LoopOutcome
<1> DEFINE n == Len(subs)
<1>1. /\ n \in Nat /\ n >= 1 /\ len \in Nat /\ n \in {2 * len + 1, 2 * len + 2}
      /\ arr \in Seq(Topics) /\ Len(arr) = n /\ Tops = arr /\ subs \in Seq(Topics)
  <2>1. subs \in Seq(Topics) /\ n \in Nat
    BY LenProperties DEF SlicesType
  <2>2. arr \in Seq(Topics) /\ Len(arr) = n
    BY <2>1, FunctionIsList DEF SlicesType
  <2>3. Tops = arr
    BY DEF Tops
  <2>4. len \in Nat /\ n \in {2 * len + 1, 2 * len + 2}
    BY <2>1 DEF SlicesType, Emptied
  <2> HIDE DEF n
  <2> QED
    BY <2>1, <2>2, <2>3, <2>4
<1>2. \A k \in 1..n : arr[k] = IF k <= len THEN subs[2 * k] ELSE subs[n]
  BY DEF Emptied
<1>3. \A a, b \in 1..n : subs[a] = subs[b] => a = b
  BY DEF SlicesType
<1>4. \A k \in 1..len : k \in 1..n /\ 2 * k \in 1..n /\ 2 * k # n /\ arr[k] = subs[2 * k]
  BY <1>1, <1>2
<1>5. ToSet(subs) = {subs[k] : k \in 1..n} /\ ToSet(arr) = {arr[k] : k \in 1..n}
  BY <1>1, ToSetDef
<1>6. ToSet(arr) = Kept \cup {subs[n]}
  <2>1. len + 1 \in 1..n /\ arr[len + 1] = subs[n]
    BY <1>1, <1>2
  <2>2. \A k \in 1..n : k \in 1..len \/ arr[k] = subs[n]
    BY <1>1, <1>2
  <2> QED
    BY <1>4, <1>5, <2>1, <2>2 DEF Kept
<1>7. Kept \subseteq ToSet(subs) /\ subs[n] \in ToSet(subs) \ Kept
  BY <1>1, <1>3, <1>4, <1>5 DEF Kept
<1>8. Cardinality(ToSet(subs)) = n
  <2>1. subs \in [1..n -> Topics]
    BY <1>1, LenProperties
  <2> QED
    <3>1. n \in Nat
      BY <1>1
    <3> HIDE DEF n
    <3>2. Cardinality({subs[k] : k \in 1..n}) = n
      BY <1>3, <2>1, <3>1, ImageSize
    <3> QED
      BY <1>5, <3>2
<1>9. Cardinality(Kept) = len
  <2> DEFINE f == [k \in 1..len |-> arr[k]]
  <2>1. f \in [1..len -> Topics] /\ \A k \in 1..len : f[k] = arr[k]
    BY <1>4 DEF SlicesType
  <2> HIDE DEF f
  <2>2. \A a, b \in 1..len : f[a] = f[b] => a = b
    <3> SUFFICES ASSUME NEW a \in 1..len, NEW b \in 1..len, f[a] = f[b] PROVE a = b
      OBVIOUS
    <3>1. subs[2 * a] = subs[2 * b]
      BY <1>4, <2>1
    <3>2. 2 * a = 2 * b
      BY <1>3, <1>4, <3>1
    <3> QED
      BY <3>2
  <2>3. Cardinality({f[k] : k \in 1..len}) = len
    BY <1>1, <2>1, <2>2, ImageSize
  <2>4. Kept = {f[k] : k \in 1..len}
    BY <2>1 DEF Kept
  <2> QED
    BY <2>3, <2>4
<1>10. len = (n - 1) \div 2
  BY <1>1
<1>11. [keep |-> Kept, drop |-> ToSet(Tops)] \in UnsubOutcomes(ToSet(subs), ToSet(req))
  <2> DEFINE half == {q \in SUBSET ToSet(subs) :
                         Cardinality(q) = (Cardinality(ToSet(subs)) - 1) \div 2}
             out == [keep |-> Kept, drop |-> Kept \cup {subs[n]}]
  <2>1. Kept \in half
    BY <1>7, <1>8, <1>9, <1>10
  <2>2. ToSet(req) = {} /\ ToSet(subs) # {} /\ ToSet(Tops) = Kept \cup {subs[n]}
    BY <1>1, <1>6, <1>7, ToSetEmpty
  <2>3. out \in {[keep |-> Kept, drop |-> Kept \cup {t}] : t \in ToSet(subs) \ Kept}
    BY <1>7
  <2>4. out \in UNION {{[keep |-> q, drop |-> q \cup {t}] : t \in ToSet(subs) \ q} : q \in half}
    <3> HIDE DEF half, out
    <3> QED
      BY <2>1, <2>3
  <2> QED
    BY <2>2, <2>4 DEF UnsubOutcomes
<1>12. Kept = {subs[k] : k \in {m \in 1..(n - 1) : m % 2 = 0}}
  <2>1. \A k \in 1..len : 2 * k \in {m \in 1..(n - 1) : m % 2 = 0}
    BY <1>1
  <2>2. ASSUME NEW m \in 1..(n - 1), m % 2 = 0
        PROVE  \E k \in 1..len : m = 2 * k
    <3>1. m \div 2 \in 1..len /\ m = 2 * (m \div 2)
      BY <1>1, <2>2
    <3> QED
      BY <3>1
  <2>3. ASSUME NEW m \in 1..(n - 1), m % 2 = 0
        PROVE  subs[m] \in Kept
    <3>1. PICK k \in 1..len : m = 2 * k
      BY <2>2, <2>3
    <3> QED
      BY <1>4, <3>1 DEF Kept
  <2>4. Kept = {arr[k] : k \in 1..len}
    BY DEF Kept
  <2> DEFINE even == {m \in 1..(n - 1) : m % 2 = 0}
  <2>5. \A k \in 1..len : 2 * k \in even /\ arr[k] = subs[2 * k]
    BY <1>4, <2>1
  <2>6. \A m \in even : subs[m] \in Kept
    BY <2>3
  <2> HIDE DEF even
  <2>7. Kept = {subs[k] : k \in even}
    BY <2>4, <2>5, <2>6
  <2> QED
    BY <2>7 DEF even
<1> QED
  BY <1>11, <1>12 DEF LoopOutcome

LEMMA UnsubInvOutcome == UnsubInv => LoopOutcome
<1> SUFFICES ASSUME UnsubInv, Done PROVE LoopOutcome
  BY DEF LoopOutcome
<1>1. /\ Len(subs) \in Nat /\ Len(req) \in Nat /\ Len(arr) = Len(subs) /\ i \in Nat
      /\ SlicesType
  BY LenProperties, FunctionIsList DEF UnsubInv, SlicesType
<1>2. CASE req # << >>
  <2>1. Tops = req /\ i - 1 = Len(req) /\ Named /\ req \in Seq(Topics)
    BY <1>1, <1>2 DEF UnsubInv, Named, Done, Tops, SlicesType
  <2>2. ToSet(req) = {req[k] : k \in 1..Len(req)} /\ req[1] \in ToSet(req)
    <3>1. Len(req) # 0
      BY <1>2, <2>1, EmptySeq
    <3> QED
      BY <1>1, <2>1, <3>1, ToSetDef
  <2>3. Kept = ToSet(subs) \ ToSet(req) /\ ToSet(req) # {}
    BY <2>1, <2>2 DEF Named
  <2> QED
    BY <1>2, <2>1, <2>3 DEF LoopOutcome, UnsubOutcomes
<1>3. CASE req = << >> /\ Removing
  <2>1. Tops = arr /\ Len(subs) = 0 /\ len = 0
    BY <1>1, <1>3 DEF Done, Tops, Removing
  <2>2. subs = << >> /\ arr = << >> /\ Kept = {}
    <3>1. subs \in Seq(Topics) /\ arr \in Seq(Topics)
      BY <1>1, FunctionIsList DEF SlicesType
    <3> QED
      BY <1>1, <2>1, <3>1, EmptySeq DEF Kept
  <2>3. ToSet(subs) = {} /\ ToSet(req) = {} /\ ToSet(Tops) = {}
    BY <1>3, <2>1, <2>2, ToSetEmpty
  <2>4. {m \in 1..(Len(subs) - 1) : m % 2 = 0} = {}
    BY <2>1
  <2> QED
    BY <1>3, <2>2, <2>3, <2>4 DEF LoopOutcome, UnsubOutcomes
<1>4. CASE req = << >> /\ Emptied
  BY <1>1, <1>4, EmptiedOutcome
<1> QED
  BY <1>2, <1>3, <1>4 DEF UnsubInv

\* For lists of topics and requests of every length, the loop of Unsub on the slice
\* it shrinks ends in one of the outcomes the registry is modelled with: a request
\* that names topics gives up just those, and one that names none keeps the
\* second, the fourth and so on.
THEOREM LoopEndsAsModelled == UnsubSpec => []LoopOutcome
<1>1. UnsubSpec => []UnsubInv
  BY UnsubInitInv, UnsubNextInv, PTL DEF UnsubSpec
<1> QED
  BY <1>1, UnsubInvOutcome, PTL

-----------------------------------------------------------------------------
(* Datasets. *)

BackupSpec == BackupInit /\ [][BackupNext]_backupVars

Content == [layers : Nat, rows : Rows \cup {Empty}]

\* There is something or nothing at every path, and files are named by their model.
BackupTypes ==
    /\ places = [p \in Paths |-> places[p]] /\ wrote = [p \in Paths |-> wrote[p]]
    /\ \A p \in Paths :
          /\ DOMAIN places[p].files \subseteq FileNames
          /\ \A n \in DOMAIN places[p].files : places[p].files[n] \in Content

\* The dataset at a place gives back what was to be written there.
GivesBack(place, w) ==
    w.data # << >> =>
        /\ place.vers = w.vers
        /\ \A pick \in Picks(place) : \A k \in DOMAIN w.data :
              [key |-> k, gz |-> FALSE] \in w.kept \/ Streams(place, pick)[k] = w.data[k]
        /\ KeysIn(place) = DOMAIN w.data \cup {n.key : n \in w.kept}

BackupInv == BackupTypes /\ \A p \in Paths : GivesBack(places[p], wrote[p])

LEMMA BackupInitInv == BackupInit => BackupInv
<1> SUFFICES ASSUME BackupInit PROVE BackupInv
  OBVIOUS
<1>1. PICK p \in Paths, fixture \in Fixtures :
         places = [q \in Paths |-> IF q = p THEN fixture ELSE Nothing]
  BY DEF BackupInit
<1>2. wrote = [q \in Paths |-> Unwritten]
  BY DEF BackupInit
<1>3. /\ DOMAIN fixture.files \subseteq FileNames
      /\ \A n \in DOMAIN fixture.files : fixture.files[n] \in Content
  <2>1. PICK s \in Stamps, f \in [Keys -> Rows], ns \in SUBSET FileNames :
           fixture = [vers |-> s, files |-> [n \in ns |-> Plain(f[n.key], n.gz)]]
    BY DEF Fixtures
  <2>2. \A n \in ns : n.key \in Keys /\ Plain(f[n.key], n.gz) \in Content
    BY DEF FileNames, Plain, Content
  <2> QED
    BY <2>1, <2>2
<1>4. DOMAIN Nothing.files = {}
  BY DEF Nothing
<1>5. BackupTypes
  BY <1>1, <1>2, <1>3, <1>4 DEF BackupTypes
<1>6. \A q \in Paths : wrote[q].data = << >>
  BY <1>2 DEF Unwritten
<1> QED
  BY <1>5, <1>6 DEF BackupInv, GivesBack

\* A step writes to one path and remembers what it was to write there.
LEMMA OneWritten ==
    ASSUME BackupInv, NEW p \in Paths, NEW vers, NEW files, NEW streams, NEW safe \in BOOLEAN,
           places' = [places EXCEPT ![p] = [vers |-> vers, files |-> files]],
           Expect(p, vers, streams, safe),
           DOMAIN files \subseteq FileNames, \A n \in DOMAIN files : files[n] \in Content,
           GivesBack([vers |-> vers, files |-> files],
                     [data |-> IF safe THEN streams ELSE << >>, vers |-> vers,
                      kept |-> IF p \in Zips THEN {} ELSE DOMAIN places[p].files])
    PROVE  BackupInv'
<1> DEFINE place == [vers |-> vers, files |-> files]
           w == [data |-> IF safe THEN streams ELSE << >>, vers |-> vers,
                 kept |-> IF p \in Zips THEN {} ELSE DOMAIN places[p].files]
<1>1. places' = [places EXCEPT ![p] = place] /\ wrote' = [wrote EXCEPT ![p] = w]
  BY DEF Expect
<1>2. place.files = files /\ GivesBack(place, w)
  OBVIOUS
<1> HIDE DEF place, w
<1>3. /\ places' = [q \in Paths |-> IF q = p THEN place ELSE places[q]]
      /\ wrote' = [q \in Paths |-> IF q = p THEN w ELSE wrote[q]]
  BY <1>1 DEF BackupInv, BackupTypes
<1>4. \A q \in Paths : /\ q = p => places'[q] = place /\ wrote'[q] = w
                       /\ q # p => places'[q] = places[q] /\ wrote'[q] = wrote[q]
  BY <1>3
<1>5. BackupTypes'
  <2>1. \A q \in Paths :
           /\ DOMAIN places'[q].files \subseteq FileNames
           /\ \A n \in DOMAIN places'[q].files : places'[q].files[n] \in Content
    BY <1>2, <1>4 DEF BackupInv, BackupTypes
  <2>2. places' = [q \in Paths |-> places'[q]] /\ wrote' = [q \in Paths |-> wrote'[q]]
    BY <1>3
  <2> QED
    BY <2>1, <2>2 DEF BackupTypes
<1>6. \A q \in Paths : GivesBack(places'[q], wrote'[q])
  BY <1>2, <1>4 DEF BackupInv
<1> QED
  BY <1>5, <1>6 DEF BackupInv

LEMMA NamesOf ==
    ASSUME NEW ks
    PROVE  /\ [key : ks, gz : {TRUE}] = {[key |-> k, gz |-> TRUE] : k \in ks}
           /\ [key : ks, gz : {FALSE}] = {[key |-> k, gz |-> FALSE] : k \in ks}
<1>1. ASSUME NEW g, NEW n \in [key : ks, gz : {g}]
      PROVE  n \in {[key |-> k, gz |-> g] : k \in ks}
  <2>1. n.key \in ks /\ n.gz = g /\ n = [key |-> n.key, gz |-> n.gz]
    OBVIOUS
  <2>2. n = [key |-> n.key, gz |-> g]
    BY <2>1
  <2> QED
    BY <2>1, <2>2
<1>2. ASSUME NEW g, NEW k \in ks
      PROVE  [key |-> k, gz |-> g] \in [key : ks, gz : {g}]
  OBVIOUS
<1>3. \A g : [key : ks, gz : {g}] = {[key |-> k, gz |-> g] : k \in ks}
  <2> SUFFICES ASSUME NEW g
               PROVE  [key : ks, gz : {g}] = {[key |-> k, gz |-> g] : k \in ks}
    OBVIOUS
  <2>1. \A n \in [key : ks, gz : {g}] : n \in {[key |-> k, gz |-> g] : k \in ks}
    BY <1>1
  <2>2. \A k \in ks : [key |-> k, gz |-> g] \in [key : ks, gz : {g}]
    BY <1>2
  <2>3. \A n : n \in {[key |-> k, gz |-> g] : k \in ks} => \E k \in ks : n = [key |-> k, gz |-> g]
    OBVIOUS
  <2>4. {[key |-> k, gz |-> g] : k \in ks} \subseteq [key : ks, gz : {g}]
    BY <2>2, <2>3, Zenon
  <2> DEFINE x == [key : ks, gz : {g}]
             y == {[key |-> k, gz |-> g] : k \in ks}
  <2>5. x \subseteq y /\ y \subseteq x
    BY <2>1, <2>4
  <2> HIDE DEF x, y
  <2>6. x = y
    BY <2>5
  <2> QED
    BY <2>6 DEF x, y
<1> QED
  BY <1>3, Zenon

LEMMA NameFacts ==
    ASSUME NEW ks \in SUBSET Keys, NEW g \in BOOLEAN
    PROVE  LET names == {[key |-> k, gz |-> g] : k \in ks}
           IN  /\ \A n \in names : n.key \in ks /\ n.gz = g /\ n \in FileNames
               /\ \A k \in ks : [key |-> k, gz |-> g] \in names
               /\ {n.key : n \in names} = ks
<1> DEFINE names == {[key |-> k, gz |-> g] : k \in ks}
<1>1. \A n \in names : \E k \in ks : n = [key |-> k, gz |-> g]
  OBVIOUS
<1>2. \A n \in names : n.key \in ks /\ n.gz = g
  BY <1>1
<1>3. \A k \in ks : [key |-> k, gz |-> g] \in names /\ [key |-> k, gz |-> g] \in FileNames
  BY DEF FileNames
<1>4. names \subseteq FileNames
  BY <1>1, <1>3
<1>5. {n.key : n \in names} = ks
  <2>1. \A k \in ks : \E n \in names : n.key = k
    <3>1. \A k \in ks : [key |-> k, gz |-> g].key = k
      OBVIOUS
    <3> QED
      BY <1>3, <3>1
  <2> QED
    BY <1>2, <2>1
<1> QED
  BY <1>2, <1>3, <1>4, <1>5

\* An archive holds the streams as they were read.
LEMMA ZipWritten ==
    ASSUME BackupInv, NEW p \in Zips, NEW vers, NEW streams, DOMAIN streams \subseteq Keys,
           \A k \in DOMAIN streams : streams[k] \in Rows \cup {Empty, Bad},
           WriteZip(p, vers, streams)
    PROVE  BackupInv'
<1>1. PICK ks \in SUBSET {k \in DOMAIN streams : streams[k] # Bad} :
         /\ places' = [places EXCEPT ![p] =
               [vers |-> vers,
                files |-> [n \in [key : ks, gz : {FALSE}] |-> Plain(streams[n.key], FALSE)]]]
         /\ Expect(p, vers, streams, ks = DOMAIN streams)
  BY DEF WriteZip
<1> DEFINE names == [key : ks, gz : {FALSE}]
           files == [n \in names |-> Plain(streams[n.key], FALSE)]
           place == [vers |-> vers, files |-> files]
           safe == ks = DOMAIN streams
           w == [data |-> IF safe THEN streams ELSE << >>, vers |-> vers,
                 kept |-> IF p \in Zips THEN {} ELSE DOMAIN places[p].files]
<1>2. /\ p \in Paths /\ safe \in BOOLEAN /\ ks \in SUBSET Keys
      /\ \A k \in ks : k \in Keys /\ streams[k] \in Rows \cup {Empty}
  BY DEF Paths
<1>3. /\ \A n \in names : n.key \in ks /\ n.gz = FALSE /\ n \in FileNames
      /\ {n.key : n \in names} = ks
  <2>1. names = {[key |-> k, gz |-> FALSE] : k \in ks} /\ ks \in SUBSET Keys
    <3>1. [key : ks, gz : {FALSE}] = {[key |-> k, gz |-> FALSE] : k \in ks}
      BY NamesOf
    <3> QED
      BY <1>2, <3>1
  <2> HIDE DEF names
  <2>2. FALSE \in BOOLEAN
    OBVIOUS
  <2> QED
    BY <1>2, <2>1, <2>2, NameFacts
<1> HIDE DEF names
<1>5. DOMAIN files = names /\ \A n \in names : files[n] = Plain(streams[n.key], FALSE)
  OBVIOUS
<1> HIDE DEF files
<1>6. DOMAIN files \subseteq FileNames /\ \A n \in DOMAIN files : files[n] \in Content
  BY <1>2, <1>3, <1>5 DEF Plain, Content
<1>7. GivesBack(place, w)
  <2> SUFFICES ASSUME safe PROVE GivesBack(place, w)
    BY DEF GivesBack
  <2>1. w.data = streams /\ w.vers = vers /\ w.kept = {} /\ place.files = files /\ place.vers = vers
    OBVIOUS
  <2> HIDE DEF place, w
  <2>2. KeysIn(place) = DOMAIN streams
    <3>1. ks = DOMAIN streams
      OBVIOUS
    <3> HIDE DEF safe
    <3> QED
      BY <1>3, <1>5, <2>1, <3>1 DEF KeysIn
  <2>3. ASSUME NEW pick \in Picks(place), NEW k \in DOMAIN streams
        PROVE  Streams(place, pick)[k] = streams[k]
    <3>1. pick[k] \in names /\ pick[k].key = k /\ pick[k].gz = FALSE
      BY <1>3, <1>5, <2>1, <2>2 DEF Picks
    <3>2. Streams(place, pick)[k] = Scanned(pick[k], files[pick[k]])
      BY <2>1, <2>2 DEF Streams
    <3>3. files[pick[k]] = Plain(streams[k], FALSE)
      BY <1>2, <1>5, <3>1
    <3> QED
      BY <3>1, <3>2, <3>3 DEF Scanned, Plain
  <2> QED
    BY <2>1, <2>2, <2>3 DEF GivesBack
<1>8. places' = [places EXCEPT ![p] = [vers |-> vers, files |-> files]]
  BY <1>1 DEF files, names
<1> QED
  BY <1>1, <1>2, <1>6, <1>7, <1>8, OneWritten

\* A directory's files of the keys ks hold what bytes says, gzipped once more; a
\* stream that was given is read from them, unless there was a file before.
LEMMA DirWritten ==
    ASSUME BackupInv, NEW p \in Dirs, NEW vers, NEW ks \in SUBSET Keys, NEW streams,
           NEW bytes \in [ks -> Content], NEW names, NEW files, NEW safe \in BOOLEAN,
           names = {[key |-> k, gz |-> TRUE] : k \in ks},
           files = Overlay(places[p].files, [n \in names |-> Wrapped(bytes[n.key])]),
           places' = [places EXCEPT ![p] = [vers |-> vers, files |-> files]],
           Expect(p, vers, streams, safe),
           safe => /\ DOMAIN streams = ks
                   /\ \A k \in ks : streams[k] = Scanned([key |-> k, gz |-> FALSE], bytes[k])
    PROVE  BackupInv'
<1> DEFINE old == places[p].files
           new == [n \in names |-> Wrapped(bytes[n.key])]
           place == [vers |-> vers, files |-> files]
           w == [data |-> IF safe THEN streams ELSE << >>, vers |-> vers,
                 kept |-> IF p \in Zips THEN {} ELSE DOMAIN places[p].files]
<1>1. p \in Paths /\ p \notin Zips
  BY BackupAssumption DEF Paths
<1>2. /\ DOMAIN old \subseteq FileNames /\ \A n \in DOMAIN old : old[n] \in Content
  BY <1>1 DEF BackupInv, BackupTypes
<1>3. /\ \A n \in names : n.key \in ks /\ n.gz = TRUE /\ n \in FileNames
      /\ \A k \in ks : [key |-> k, gz |-> TRUE] \in names
      /\ {n.key : n \in names} = ks
  <2>1. TRUE \in BOOLEAN
    OBVIOUS
  <2> QED
    BY <2>1, NameFacts
<1>4. DOMAIN new = names /\ \A n \in names : new[n] = Wrapped(bytes[n.key])
  OBVIOUS
<1> HIDE DEF new, old
<1>5. /\ DOMAIN files = DOMAIN old \cup names
      /\ \A n \in names : files[n] = Wrapped(bytes[n.key])
      /\ \A n \in DOMAIN old \ names : files[n] = old[n]
  BY <1>4 DEF Overlay, new, old
<1>6. \A k \in ks : Wrapped(bytes[k]) \in Content
  BY DEF Wrapped, Content
<1>7. DOMAIN files \subseteq FileNames /\ \A n \in DOMAIN files : files[n] \in Content
  BY <1>2, <1>3, <1>5, <1>6
<1>8. GivesBack(place, w)
  <2> SUFFICES ASSUME safe PROVE GivesBack(place, w)
    BY DEF GivesBack
  <2>1. /\ w.data = streams /\ w.vers = vers /\ w.kept = DOMAIN old
        /\ place.files = files /\ place.vers = vers
    BY <1>1 DEF old
  <2> HIDE DEF place, w
  <2>2. KeysIn(place) = ks \cup {n.key : n \in DOMAIN old}
    <3>1. KeysIn(place) = {n.key : n \in DOMAIN old \cup names}
      BY <1>5, <2>1 DEF KeysIn
    <3>2. {n.key : n \in DOMAIN old \cup names} =
             {n.key : n \in names} \cup {n.key : n \in DOMAIN old}
      OBVIOUS
    <3> QED
      BY <1>3, <3>1, <3>2
  <2>3. ASSUME NEW pick \in Picks(place), NEW k \in ks, [key |-> k, gz |-> FALSE] \notin DOMAIN old
        PROVE  Streams(place, pick)[k] = streams[k]
    <3>1. pick[k] \in DOMAIN files /\ pick[k].key = k
      BY <2>1, <2>2 DEF Picks
    <3>2. pick[k] \in names
      <4>1. pick[k] \in FileNames
        BY <1>7, <3>1
      <4>2. pick[k] = [key |-> k, gz |-> TRUE] \/ pick[k] = [key |-> k, gz |-> FALSE]
        BY <3>1, <4>1 DEF FileNames
      <4> QED
        BY <1>3, <1>5, <2>3, <3>1, <4>2
    <3>3. pick[k].gz = TRUE /\ files[pick[k]] = Wrapped(bytes[k]) /\ bytes[k] \in Content
      BY <1>3, <1>5, <3>1, <3>2
    <3>4. Streams(place, pick)[k] = Scanned(pick[k], files[pick[k]])
      BY <2>1, <2>2 DEF Streams
    <3>5. streams[k] = Scanned([key |-> k, gz |-> FALSE], bytes[k])
      OBVIOUS
    <3> DEFINE c == bytes[k]
    <3>6. c.layers \in Nat /\ c = [layers |-> c.layers, rows |-> c.rows]
      BY <3>3 DEF Content
    <3>7. Wrapped(c) = [layers |-> c.layers + 1, rows |-> c.rows]
      BY <3>6 DEF Wrapped
    <3>8. c = Plain(c.rows, FALSE) <=> c.layers = 0
      BY <3>6 DEF Plain
    <3>9. Wrapped(c) = Plain(Wrapped(c).rows, TRUE) <=> c.layers + 1 = 1
      BY <3>7 DEF Plain
    <3>10. Wrapped(c).rows = c.rows
      BY <3>7
    <3> HIDE DEF c
    <3>11. Scanned(pick[k], files[pick[k]]) =
              IF Wrapped(c) = Plain(Wrapped(c).rows, TRUE) THEN c.rows ELSE Bad
      BY <3>3, <3>10 DEF Scanned, c
    <3>12. streams[k] = IF c = Plain(c.rows, FALSE) THEN c.rows ELSE Bad
      BY <3>5 DEF Scanned, c
    <3>13. c.layers + 1 = 1 <=> c.layers = 0
      BY <3>6
    <3> QED
      BY <3>4, <3>8, <3>9, <3>11, <3>12, <3>13
  <2> QED
    BY <2>1, <2>2, <2>3 DEF GivesBack
<1> QED
  BY <1>1, <1>7, <1>8, OneWritten

LEMMA MemoryWritten ==
    ASSUME BackupInv, NEW p \in Paths, NEW vers \in Stamps, NEW ks \in SUBSET Keys,
           NEW rows \in [ks -> Rows], WriteMemory(p, vers, rows)
    PROVE  BackupInv'
<1>1. CASE p \in Zips
  BY <1>1, ZipWritten DEF WriteMemory
<1>2. CASE p \notin Zips
  <2> DEFINE names == {[key |-> k, gz |-> TRUE] : k \in ks}
             bytes == [k \in ks |-> Plain(rows[k], FALSE)]
             files == Overlay(places[p].files, [n \in names |-> Wrapped(bytes[n.key])])
  <2>1. p \in Dirs
    BY <1>2 DEF Paths
  <2>2. bytes \in [ks -> Content] /\ \A k \in ks : bytes[k] = Plain(rows[k], FALSE)
    <3>1. \A k \in ks : Plain(rows[k], FALSE) \in Content
      BY DEF Plain, Content
    <3> QED
      BY <3>1
  <2>3. [key : DOMAIN rows, gz : {TRUE}] = names
    <3>1. DOMAIN rows = ks
      OBVIOUS
    <3> QED
      BY <3>1, NamesOf, Zenon
  <2>4. [n \in names |-> Wrapped(Plain(rows[n.key], FALSE))] = [n \in names |-> Wrapped(bytes[n.key])]
    <3>1. \A n \in names : n.key \in ks
      OBVIOUS
    <3> HIDE DEF names, bytes
    <3> QED
      BY <2>2, <3>1
  <2>5. places' = [places EXCEPT ![p] = [vers |-> vers, files |-> files]]
    <3>1. places[p].files = places[p].files /\ p \in DOMAIN places
      BY DEF BackupInv, BackupTypes
    <3> HIDE DEF names, bytes
    <3> QED
      BY <1>2, <2>3, <2>4, <3>1 DEF WriteMemory
  <2>6. Expect(p, vers, rows, TRUE)
    BY <1>2 DEF WriteMemory
  <2>7. \A k \in ks : rows[k] = Scanned([key |-> k, gz |-> FALSE], bytes[k])
    BY <2>2 DEF Scanned, Plain
  <2>8. DOMAIN rows = ks
    OBVIOUS
  <2> HIDE DEF bytes, files, names
  <2> QED
    BY <2>1, <2>2, <2>5, <2>6, <2>7, <2>8, DirWritten DEF files, names
<1> QED
  BY <1>1, <1>2

LEMMA FilesWritten ==
    ASSUME BackupInv, NEW p \in Paths, NEW q \in Paths, WriteFiles(p, q)
    PROVE  BackupInv'
<1> DEFINE src == places[q]
           ks == KeysIn(src)
<1>1. /\ DOMAIN src.files \subseteq FileNames /\ \A n \in DOMAIN src.files : src.files[n] \in Content
  BY DEF BackupInv, BackupTypes
<1>2. ks \in SUBSET Keys
  BY <1>1 DEF KeysIn, FileNames
<1>3. PICK pick \in Picks(src) :
         LET streams == Streams(src, pick)
             target(k) == [key |-> k, gz |-> TRUE]
             bytes(k) == IF p = q /\ pick[k] = target(k) THEN Plain(Empty, FALSE)
                         ELSE src.files[pick[k]]
         IN  IF p \in Zips
             THEN WriteZip(p, src.vers, IF p = q THEN [k \in DOMAIN streams |-> Bad] ELSE streams)
             ELSE /\ places' = [places EXCEPT ![p] =
                        [vers |-> src.vers,
                         files |-> Overlay(@.files, [n \in {target(k) : k \in KeysIn(src)} |->
                                                        Wrapped(bytes(n.key))])]]
                  /\ Expect(p, src.vers, streams, \A k \in KeysIn(src) : ~pick[k].gz)
  BY DEF WriteFiles
<1> DEFINE streams == Streams(src, pick)
<1>4. \A k \in ks : pick[k] \in DOMAIN src.files /\ pick[k].key = k
                    /\ src.files[pick[k]] \in Content /\ pick[k] \in FileNames
  BY <1>1 DEF Picks
<1>5. /\ DOMAIN streams = ks
      /\ \A k \in ks : streams[k] = Scanned(pick[k], src.files[pick[k]])
  BY DEF Streams
<1>6. \A k \in ks : streams[k] \in Rows \cup {Empty, Bad}
  BY <1>4, <1>5 DEF Scanned, Content
<1>7. CASE p \in Zips
  <2> DEFINE given2 == IF p = q THEN [k \in DOMAIN streams |-> Bad] ELSE streams
  <2>1. WriteZip(p, src.vers, given2)
    BY <1>3, <1>7
  <2>2. DOMAIN given2 = ks /\ \A k \in ks : given2[k] \in Rows \cup {Empty, Bad}
    BY <1>5, <1>6
  <2> HIDE DEF given2, streams, src, ks
  <2> QED
    BY <1>2, <1>7, <2>1, <2>2, ZipWritten
<1>8. CASE p \notin Zips
  <2> DEFINE names == {[key |-> k, gz |-> TRUE] : k \in ks}
             bytes == [k \in ks |-> IF p = q /\ pick[k] = [key |-> k, gz |-> TRUE]
                                    THEN Plain(Empty, FALSE) ELSE src.files[pick[k]]]
             files == Overlay(places[p].files, [n \in names |-> Wrapped(bytes[n.key])])
             safe == \A k \in ks : ~pick[k].gz
  <2>1. p \in Dirs /\ safe \in BOOLEAN
    BY <1>8 DEF Paths
  <2>2. bytes \in [ks -> Content]
    BY <1>4 DEF Plain, Content
  <2>3. \A n \in names : n.key \in ks
    OBVIOUS
  <2>4. places' = [places EXCEPT ![p] = [vers |-> src.vers, files |-> files]]
    <3> DEFINE b(k) == IF p = q /\ pick[k] = [key |-> k, gz |-> TRUE]
                       THEN Plain(Empty, FALSE) ELSE src.files[pick[k]]
    <3>1. places' = [places EXCEPT ![p] =
              [vers |-> src.vers, files |-> Overlay(@.files, [n \in names |-> Wrapped(b(n.key))])]]
      BY <1>3, <1>8
    <3>2. [n \in names |-> Wrapped(b(n.key))] = [n \in names |-> Wrapped(bytes[n.key])]
      BY <2>3
    <3>3. p \in DOMAIN places
      BY DEF BackupInv, BackupTypes
    <3> HIDE DEF names, bytes, b, src
    <3> QED
      BY <3>1, <3>2, <3>3
  <2>5. Expect(p, src.vers, streams, safe)
    BY <1>3, <1>8
  <2>6. ASSUME safe, NEW k \in ks
        PROVE  streams[k] = Scanned([key |-> k, gz |-> FALSE], bytes[k])
    <3>1. pick[k] = [key |-> k, gz |-> FALSE]
      BY <1>4, <2>6 DEF FileNames
    <3>2. pick[k] # [key |-> k, gz |-> TRUE]
      BY <3>1
    <3> QED
      BY <1>5, <3>1, <3>2
  <2> HIDE DEF bytes, files, names, streams, src, ks, safe
  <2> QED
    BY <1>2, <1>5, <2>1, <2>2, <2>4, <2>5, <2>6, DirWritten DEF files, names
<1> QED
  BY <1>7, <1>8

LEMMA BackupNextInv == BackupInv /\ [BackupNext]_backupVars => BackupInv'
<1> SUFFICES ASSUME BackupInv, [BackupNext]_backupVars PROVE BackupInv'
  OBVIOUS
<1>1. CASE UNCHANGED backupVars
  BY <1>1 DEF backupVars, BackupInv, BackupTypes
<1>2. CASE BackupNext
  <2>1. PICK p \in Paths : WriteDataset(p)
    BY <1>2 DEF BackupNext
  <2>2. \/ \E vers \in Stamps, ks \in SUBSET Keys : \E rows \in [ks -> Rows] :
              WriteMemory(p, vers, rows)
        \/ \E q \in Paths : WriteFiles(p, q)
    BY <2>1 DEF WriteDataset
  <2> QED
    BY <2>2, MemoryWritten, FilesWritten
<1> QED
  BY <1>1, <1>2

\* A dataset that was written without an error gives back the version and the rows
\* its source gave, through any number of copies between memory, directories and
\* archives, with what BackupFaithful excepts.
THEOREM BackupsGiveBack == BackupSpec => []BackupFaithful
<1>1. BackupSpec => []BackupInv
  BY BackupInitInv, BackupNextInv, PTL DEF BackupSpec
<1>2. BackupInv => BackupFaithful
  BY DEF BackupInv, GivesBack, BackupFaithful
<1> QED
  BY <1>1, <1>2, PTL

-----------------------------------------------------------------------------
(* The order of versions as strings has a last one among finitely many. *)

\* What is above a member is not above what is above it: a smallest such set is empty.
LEMMA LastExists ==
    ASSUME NEW S, IsFiniteSet(S), S # {}, NEW rel,
           \A x \in S : <<x, x>> \notin rel,
           \A x, y, z \in S : <<x, y>> \in rel /\ <<y, z>> \in rel => <<x, z>> \in rel
    PROVE  \E x \in S : \A y \in S : <<x, y>> \notin rel
<1> DEFINE above(x) == {y \in S : <<x, y>> \in rel}
           T == {above(x) : x \in S}
<1>1. IsWellFoundedOn(StrictSubsetOrdering(S), FiniteSubsetsOf(S))
  BY FS_StrictSubsetOrderingWellFounded
<1>2. T \subseteq FiniteSubsetsOf(S) /\ T # {}
  <2>1. \A x \in S : above(x) \in SUBSET S /\ IsFiniteSet(above(x))
    BY FS_Subset
  <2>2. \A x \in S : above(x) \in FiniteSubsetsOf(S) /\ above(x) \in T
    BY <2>1 DEF FiniteSubsetsOf
  <2>3. \A A \in T : \E x \in S : A = above(x)
    OBVIOUS
  <2> HIDE DEF above, T
  <2> QED
    BY <2>2, <2>3
<1>3. PICK A \in T : \A B \in T : ~(<<B, A>> \in StrictSubsetOrdering(S))
  BY <1>1, <1>2, WFMin
<1>4. PICK x \in S : A = above(x)
  OBVIOUS
<1>5. ASSUME NEW y \in S, <<x, y>> \in rel
      PROVE  FALSE
  <2>1. above(y) \in T /\ above(y) \in SUBSET S /\ above(x) \in SUBSET S
    OBVIOUS
  <2>2. above(y) \subseteq above(x)
    BY <1>5
  <2>3. y \in above(x) /\ y \notin above(y)
    BY <1>5
  <2> QED
    BY <1>3, <1>4, <2>1, <2>2, <2>3 DEF StrictSubsetOrdering
<1> QED
  BY <1>5

\* The first x of a are before the first y of b in the order of strings.
LexLess(a, x, b, y) ==
    \/ x < y /\ \A k \in 1..x : a[k] = b[k]
    \/ \E k \in 1..x : k <= y /\ a[k] < b[k] /\ \A m \in 1..(k - 1) : a[m] = b[m]

Before(a, b) == LexLess(a, Len(a), b, Len(b))

LEMMA LexOrders ==
    ASSUME NEW a, NEW b, NEW c, NEW x \in Nat, NEW y \in Nat, NEW z \in Nat,
           \A k \in 1..x : a[k] \in Int,
           \A k \in 1..y : b[k] \in Int,
           \A k \in 1..z : c[k] \in Int
    PROVE  ~LexLess(a, x, a, x) /\ (LexLess(a, x, b, y) /\ LexLess(b, y, c, z) => LexLess(a, x, c, z))
<1>1. /\ \A k \in 1..x : a[k] \in Int
      /\ \A k \in 1..y : b[k] \in Int
      /\ \A k \in 1..z : c[k] \in Int
  OBVIOUS
<1>2. ~LexLess(a, x, a, x)
  BY <1>1 DEF LexLess
<1>3. ASSUME x < y, \A k \in 1..x : a[k] = b[k], LexLess(b, y, c, z)
      PROVE  LexLess(a, x, c, z)
  <2>1. CASE y < z /\ \A k \in 1..y : b[k] = c[k]
    <3>1. x < z /\ \A k \in 1..x : k \in 1..y /\ a[k] = c[k]
      BY <1>1, <1>3, <2>1
    <3> QED
      BY <3>1 DEF LexLess
  <2>2. ASSUME NEW k \in 1..y, k <= z, b[k] < c[k], \A m \in 1..(k - 1) : b[m] = c[m]
        PROVE  LexLess(a, x, c, z)
    <3>1. CASE k <= x
      <4>1. k \in 1..x /\ a[k] < c[k] /\ \A m \in 1..(k - 1) : m \in 1..x /\ a[m] = c[m]
        BY <1>1, <1>3, <2>2, <3>1
      <4> QED
        BY <2>2, <4>1 DEF LexLess
    <3>2. CASE x < k
      <4>1. x < z /\ \A m \in 1..x : m \in 1..(k - 1) /\ a[m] = c[m]
        BY <1>1, <1>3, <2>2, <3>2
      <4> QED
        BY <4>1 DEF LexLess
    <3> QED
      BY <1>1, <3>1, <3>2
  <2> QED
    BY <1>3, <2>1, <2>2 DEF LexLess
<1>4. ASSUME NEW k \in 1..x, k <= y, a[k] < b[k], \A m \in 1..(k - 1) : a[m] = b[m],
             LexLess(b, y, c, z)
      PROVE  LexLess(a, x, c, z)
  <2>1. CASE y < z /\ \A m \in 1..y : b[m] = c[m]
    <3>1. /\ k <= z /\ k \in 1..y /\ a[k] < c[k]
          /\ \A m \in 1..(k - 1) : m \in 1..y /\ a[m] = c[m]
      BY <1>1, <1>4, <2>1
    <3> QED
      BY <3>1 DEF LexLess
  <2>2. ASSUME NEW n \in 1..y, n <= z, b[n] < c[n], \A m \in 1..(n - 1) : b[m] = c[m]
        PROVE  LexLess(a, x, c, z)
    <3>1. CASE k < n
      <4>1. /\ k <= z /\ k \in 1..(n - 1) /\ a[k] < c[k]
            /\ \A m \in 1..(k - 1) : m \in 1..(n - 1) /\ a[m] = c[m]
        BY <1>1, <1>4, <2>2, <3>1
      <4> QED
        BY <4>1 DEF LexLess
    <3>2. CASE n < k
      <4>1. /\ n \in 1..x /\ n \in 1..(k - 1) /\ a[n] < c[n]
            /\ \A m \in 1..(n - 1) : m \in 1..(k - 1) /\ a[m] = c[m]
        BY <1>1, <1>4, <2>2, <3>2
      <4> QED
        BY <2>2, <4>1 DEF LexLess
    <3>3. CASE n = k
      <4>1. /\ a[k] \in Int /\ b[k] \in Int /\ c[k] \in Int /\ k \in 1..x /\ k <= z
            /\ \A m \in 1..(k - 1) : a[m] = c[m]
        BY <1>1, <1>4, <2>2, <3>3
      <4>2. a[k] < c[k]
        BY <1>4, <2>2, <3>3, <4>1
      <4> QED
        BY <4>1, <4>2 DEF LexLess
    <3> QED
      BY <1>1, <3>1, <3>2, <3>3
  <2> QED
    BY <1>4, <2>1, <2>2 DEF LexLess
<1> QED
  BY <1>2, <1>3, <1>4 DEF LexLess

LEMMA BeforeOrders ==
    ASSUME NEW a \in Seq(Int), NEW b \in Seq(Int), NEW c \in Seq(Int)
    PROVE  ~Before(a, a) /\ (Before(a, b) /\ Before(b, c) => Before(a, c))
<1>1. /\ Len(a) \in Nat /\ Len(b) \in Nat /\ Len(c) \in Nat
      /\ \A k \in 1..Len(a) : a[k] \in Int
      /\ \A k \in 1..Len(b) : b[k] \in Int
      /\ \A k \in 1..Len(c) : c[k] \in Int
  BY LenProperties, ElementOfSeq
<1> QED
  BY <1>1, LexOrders DEF Before

LEMMA VersTextType ==
    ASSUME NEW v \in Nat \X Nat
    PROVE  VersText(v) \in Seq(Int)
<1>1. Base \in Nat /\ Base > 1
  BY HistoryAssumption
<1>2. ASSUME NEW n \in Nat PROVE Digits(n) \in Seq(Int)
  <2>1. n \div Base \in Int /\ n % Base \in Int
    BY <1>1
  <2> QED
    BY <2>1 DEF Digits
<1>3. v[1] \in Nat /\ v[2] \in Nat
  OBVIOUS
<1>4. Digits(v[1]) \in Seq(Int) /\ Digits(v[2]) \in Seq(Int) /\ <<-1>> \in Seq(Int)
  BY <1>2, <1>3
<1>5. Digits(v[1]) \o <<-1>> \in Seq(Int)
  BY <1>4, ConcatProperties
<1>6. (Digits(v[1]) \o <<-1>>) \o Digits(v[2]) \in Seq(Int)
  BY <1>4, <1>5, ConcatProperties
<1> QED
  BY <1>6 DEF VersText

LEMMA StrictPrefix ==
    ASSUME NEW a \in Seq(Int), NEW b \in Seq(Int)
    PROVE  IsStrictPrefix(a, b) <=> Len(a) < Len(b) /\ \A k \in 1..Len(a) : a[k] = b[k]
<1>1. /\ Len(a) \in Nat /\ Len(b) \in Nat
      /\ \A k \in 1..Len(a) : a[k] \in Int
      /\ \A k \in 1..Len(b) : b[k] \in Int
  BY LenProperties, ElementOfSeq
<1>2. ASSUME Len(a) <= Len(b)
      PROVE  SubSeq(a, 1, Len(a)) = SubSeq(b, 1, Len(a)) <=> \A k \in 1..Len(a) : a[k] = b[k]
  <2> DEFINE x == SubSeq(a, 1, Len(a))
             y == SubSeq(b, 1, Len(a))
  <2>1. /\ x \in Seq(Int) /\ Len(x) = IF 1 <= Len(a) THEN Len(a) - 1 + 1 ELSE 0
        /\ \A k \in 1..(Len(a) - 1 + 1) : x[k] = a[1 + k - 1]
    BY <1>1, SubSeqProperties
  <2>2. \A k \in 1..Len(a) : b[k] \in Int
    BY <1>1, <1>2
  <2>3. /\ y \in Seq(Int) /\ Len(y) = IF 1 <= Len(a) THEN Len(a) - 1 + 1 ELSE 0
        /\ \A k \in 1..(Len(a) - 1 + 1) : y[k] = b[1 + k - 1]
    BY <1>1, <2>2, SubSeqProperties
  <2> HIDE DEF x, y
  <2>4. /\ Len(x) = Len(a) /\ Len(y) = Len(a)
        /\ \A k \in 1..Len(a) : x[k] = a[k] /\ y[k] = b[k]
    BY <1>1, <2>1, <2>3
  <2>5. (\A k \in 1..Len(a) : a[k] = b[k]) => x = y
    BY <2>1, <2>3, <2>4, SeqEqual
  <2>6. x = y => \A k \in 1..Len(a) : a[k] = b[k]
    BY <2>4
  <2> QED
    BY <2>5, <2>6 DEF x, y
<1>3. CASE Len(a) < Len(b)
  BY <1>1, <1>2, <1>3 DEF IsStrictPrefix, IsPrefix
<1>4. CASE Len(a) = Len(b)
  <2>1. (\A k \in 1..Len(a) : a[k] = b[k]) => a = b
    BY <1>4, SeqEqual
  <2> QED
    BY <1>1, <1>2, <1>4, <2>1 DEF IsStrictPrefix, IsPrefix
<1>5. CASE Len(a) > Len(b)
  BY <1>1, <1>5 DEF IsStrictPrefix, IsPrefix
<1> QED
  BY <1>1, <1>3, <1>4, <1>5

LEMMA VersBeforeDef ==
    ASSUME NEW v \in Nat \X Nat, NEW w \in Nat \X Nat
    PROVE  VersBefore(v, w) <=> Before(VersText(v), VersText(w))
<1> DEFINE a == VersText(v)
           b == VersText(w)
<1>1. a \in Seq(Int) /\ b \in Seq(Int)
  BY VersTextType
<1>2. VersBefore(v, w) <=>
         IsStrictPrefix(a, b) \/ \E k \in DOMAIN a \cap DOMAIN b :
            a[k] < b[k] /\ \A m \in 1..(k - 1) : a[m] = b[m]
  BY DEF VersBefore
<1> HIDE DEF a, b
<1>3. /\ DOMAIN a = 1..Len(a) /\ DOMAIN b = 1..Len(b) /\ Len(a) \in Nat /\ Len(b) \in Nat
  BY <1>1, LenProperties
<1>4. \A k : k \in DOMAIN a \cap DOMAIN b <=> k \in 1..Len(a) /\ k <= Len(b)
  BY <1>3
<1>5. IsStrictPrefix(a, b) <=> Len(a) < Len(b) /\ \A k \in 1..Len(a) : a[k] = b[k]
  BY <1>1, StrictPrefix
<1>6. VersBefore(v, w) <=> Before(a, b)
  BY <1>2, <1>4, <1>5 DEF Before, LexLess
<1> QED
  BY <1>6 DEF a, b

-----------------------------------------------------------------------------
(* The history of a project. *)

HistorySpec == HistoryInit /\ [][HistoryNext]_historyVars

Entry(e) == /\ e = [vers |-> e.vers, min |-> e.min, pat |-> e.pat, date |-> e.date]
            /\ e.vers \in Nat \X Nat

Entries(m)  == \A n \in DOMAIN m : Entry(m[n])
Manifest(m) == Entries(m) /\ Project \in DOMAIN m /\ Schema \in DOMAIN m

\* m has every entry of a, or a later version in its place.
Below(a, m) ==
    \A n \in DOMAIN a : n \in DOMAIN m /\ (a[n] = m[n] \/ NumLess(a[n].vers, m[n].vers))

\* m has the contents of definition d.
Describes(m, d) ==
    \A n \in Visited(d) : /\ n \in DOMAIN m
                          /\ m[n].min = Hashed(d, n).min /\ m[n].pat = Hashed(d, n).pat

\* The manifests of the records that have one.
Recorded == {r.mf : r \in folder} \ {NoFile, Torn}

\* The folder's manifest is that of a record that none is ahead of.
Current == folder # {} => mfile \in Recorded /\ \A a \in Recorded : Below(a, mfile)

Unlike(m) == \A a \in Recorded : a[Project].vers # m[Project].vers

Started == IF mfile = NoFile THEN << >> ELSE mfile

RecordsInv ==
    /\ IsFiniteSet(folder) /\ \A a \in Recorded : Manifest(a)
    /\ \A a, b \in Recorded : a[Project].vers = b[Project].vers => a = b

CommitsInv ==
    /\ commits \in Seq(ToSet(commits))
    /\ \A c \in 1..Len(commits) :
          /\ commits[c].mf \in Recorded /\ Describes(commits[c].mf, commits[c].defn)
          /\ \A b \in 1..(c - 1) : Below(commits[b].mf, commits[c].mf)

\* Where the program is, and what manifest.json is then.
StepInv ==
    /\ Entries(Started)
    /\ step = "closed" => (Readable => Current)
    /\ step = "open" => Readable /\ Current /\ opened = UpdatedManifest(Started, defn)
    /\ step \in {"manifest", "folder", "record", "project"} =>
          /\ Manifest(opened) /\ Describes(opened, defn) /\ \A a \in Recorded : Below(a, opened)
    /\ step = "manifest" =>
          /\ \A n \in DOMAIN mfile : n \in DOMAIN opened /\ mfile[n] = opened[n]
          /\ mfile # << >> => Project \in DOMAIN mfile
          /\ folder # {} => opened[Project].vers # LastOf(folder)[Project].vers
    /\ step \in {"manifest", "folder", "record"} => Unlike(opened)
    /\ step \in {"folder", "record", "project"} => mfile = opened
    /\ step = "folder" => \E r \in folder : r.mf = NoFile
    /\ step = "record" => \E r \in folder : r.mf = Torn
    /\ step = "project" => opened \in Recorded
    /\ step \in {"closed", "open", "manifest", "folder", "record", "project"}

HistoryInv == RecordsInv /\ CommitsInv /\ StepInv

LEMMA HistoryInitInv == HistoryInit => HistoryInv
<1> SUFFICES ASSUME HistoryInit PROVE HistoryInv
  OBVIOUS
<1>1. Recorded = {}
  BY DEF HistoryInit, Recorded
<1>2. RecordsInv
  BY <1>1, FS_EmptySet DEF HistoryInit, RecordsInv
<1>3. commits = << >> /\ << >> \in Seq(ToSet(<< >>)) /\ Len(<< >>) = 0
  BY EmptySeq DEF HistoryInit
<1>4. CommitsInv
  BY <1>3 DEF CommitsInv
<1>5. StepInv
  BY DEF HistoryInit, StepInv, Started, Entries, Current
<1> QED
  BY <1>2, <1>4, <1>5 DEF HistoryInv

LEMMA NumLessOrders ==
    ASSUME NEW u \in Nat \X Nat, NEW v \in Nat \X Nat, NEW w \in Nat \X Nat
    PROVE  ~NumLess(u, u) /\ (NumLess(u, v) /\ NumLess(v, w) => NumLess(u, w))
  BY DEF NumLess

LEMMA BelowOrders ==
    ASSUME NEW a, NEW b, NEW c, Entries(a), Entries(b), Entries(c), Below(a, b), Below(b, c)
    PROVE  Below(a, c)
<1> SUFFICES ASSUME NEW n \in DOMAIN a
             PROVE  n \in DOMAIN c /\ (a[n] = c[n] \/ NumLess(a[n].vers, c[n].vers))
  BY DEF Below
<1>1. /\ n \in DOMAIN b /\ (a[n] = b[n] \/ NumLess(a[n].vers, b[n].vers))
      /\ n \in DOMAIN c /\ (b[n] = c[n] \/ NumLess(b[n].vers, c[n].vers))
  BY DEF Below
<1>2. a[n].vers \in Nat \X Nat /\ b[n].vers \in Nat \X Nat /\ c[n].vers \in Nat \X Nat
  BY <1>1 DEF Entries, Entry
<1> QED
  BY <1>1, <1>2, NumLessOrders

\* The records have a last one.
LEMMA LastIsRecord ==
    ASSUME RecordsInv, folder # {}, \A r \in folder : r.mf \notin {NoFile, Torn}
    PROVE  LastOf(folder) \in Recorded
<1> DEFINE mfs == {r.mf : r \in folder}
           rel == {p \in mfs \X mfs : VersBefore(p[1][Project].vers, p[2][Project].vers)}
<1>1. mfs = Recorded /\ mfs # {}
  BY DEF Recorded
<1>2. IsFiniteSet(mfs)
  <2> DEFINE f == [r \in folder |-> r.mf]
  <2>1. f \in [folder -> mfs] /\ \A m \in mfs : \E r \in folder : f[r] = m
    OBVIOUS
  <2> HIDE DEF f, mfs
  <2>2. f \in Surjection(folder, mfs)
    BY <2>1 DEF Surjection
  <2> QED
    BY <2>2, FS_Surjection DEF RecordsInv
<1>3. \A m \in mfs : m[Project].vers \in Nat \X Nat
  BY <1>1 DEF RecordsInv, Manifest, Entries, Entry
<1> HIDE DEF mfs
<1>4. \A x, y \in mfs : <<x, y>> \in rel <=>
         Before(VersText(x[Project].vers), VersText(y[Project].vers))
  <2> SUFFICES ASSUME NEW x \in mfs, NEW y \in mfs
               PROVE  <<x, y>> \in rel <=>
                         Before(VersText(x[Project].vers), VersText(y[Project].vers))
    OBVIOUS
  <2>1. <<x, y>> \in rel <=> VersBefore(x[Project].vers, y[Project].vers)
    OBVIOUS
  <2>2. x[Project].vers \in Nat \X Nat /\ y[Project].vers \in Nat \X Nat
    BY <1>3
  <2> QED
    BY <2>1, <2>2, VersBeforeDef
<1>5. \A x \in mfs : VersText(x[Project].vers) \in Seq(Int)
  BY <1>3, VersTextType
<1> HIDE DEF rel
<1>6. \A x \in mfs : <<x, x>> \notin rel
  BY <1>4, <1>5, BeforeOrders
<1>7. \A x, y, z \in mfs : <<x, y>> \in rel /\ <<y, z>> \in rel => <<x, z>> \in rel
  <2> SUFFICES ASSUME NEW x \in mfs, NEW y \in mfs, NEW z \in mfs,
                      <<x, y>> \in rel, <<y, z>> \in rel
               PROVE  <<x, z>> \in rel
    OBVIOUS
  <2> DEFINE a == VersText(x[Project].vers)
             b == VersText(y[Project].vers)
             c == VersText(z[Project].vers)
  <2>1. a \in Seq(Int) /\ b \in Seq(Int) /\ c \in Seq(Int)
    BY <1>5
  <2>2. Before(a, b) /\ Before(b, c)
    BY <1>4
  <2> HIDE DEF a, b, c
  <2>3. Before(a, c)
    BY <2>1, <2>2, BeforeOrders
  <2> QED
    BY <1>4, <2>3 DEF a, c
<1>8. \E x \in mfs : \A y \in mfs : <<x, y>> \notin rel
  BY <1>1, <1>2, <1>6, <1>7, LastExists
<1>9. \E m \in mfs : \A o \in mfs : ~VersBefore(m[Project].vers, o[Project].vers)
  BY <1>8 DEF rel
<1>10. LastOf(folder) \in mfs
  BY <1>9 DEF LastOf, mfs
<1> QED
  BY <1>1, <1>10

\* A manifest that is brought up to date has later versions for what differs.
LEMMA UpdateFacts ==
    ASSUME NEW m, Entries(m), NEW d
    PROVE  LET u == UpdatedManifest(m, d)
           IN  /\ DOMAIN u = DOMAIN m \cup Visited(d)
               /\ Manifest(u) /\ Describes(u, d) /\ Below(m, u)
<1> DEFINE u == UpdatedManifest(m, d)
<1>1. /\ DOMAIN u = DOMAIN m \cup Visited(d)
      /\ \A n \in DOMAIN u : u[n] = IF n \in Visited(d) THEN Version(m, d, n) ELSE m[n]
  BY DEF UpdatedManifest
<1>2. ASSUME NEW n
      PROVE  /\ (n \in DOMAIN m => Entry(m[n])) => Entry(Version(m, d, n))
             /\ Version(m, d, n).min = Hashed(d, n).min
             /\ Version(m, d, n).pat = Hashed(d, n).pat
             /\ n \in DOMAIN m /\ Entry(m[n]) =>
                   Version(m, d, n) = m[n] \/ NumLess(m[n].vers, Version(m, d, n).vers)
  <2> DEFINE h == Hashed(d, n)
             new(v) == [vers |-> v, min |-> h.min, pat |-> h.pat, date |-> 0]
             old == m[n]
  <2>1. Version(m, d, n) =
           IF n \notin DOMAIN m THEN new(<<0, 1>>)
           ELSE IF h.min # old.min THEN new(<<old.vers[1] + 1, 0>>)
           ELSE IF h.pat # old.pat THEN new(<<old.vers[1], old.vers[2] + 1>>)
           ELSE old
    BY DEF Version
  <2>2. \A v \in Nat \X Nat : Entry(new(v)) /\ new(v).vers = v /\ new(v).min = h.min /\ new(v).pat = h.pat
    BY DEF Entry
  <2>3. <<0, 1>> \in Nat \X Nat
    OBVIOUS
  <2>4. Entry(old) => /\ <<old.vers[1] + 1, 0>> \in Nat \X Nat
                      /\ NumLess(old.vers, <<old.vers[1] + 1, 0>>)
                      /\ <<old.vers[1], old.vers[2] + 1>> \in Nat \X Nat
                      /\ NumLess(old.vers, <<old.vers[1], old.vers[2] + 1>>)
    BY DEF Entry, NumLess
  <2>5. \A v : new(v).min = h.min /\ new(v).pat = h.pat
    OBVIOUS
  <2> HIDE DEF h, new, old
  <2>6. /\ (n \in DOMAIN m => Entry(old)) => Entry(Version(m, d, n))
        /\ Version(m, d, n).min = h.min /\ Version(m, d, n).pat = h.pat
        /\ n \in DOMAIN m /\ Entry(old) =>
              Version(m, d, n) = old \/ NumLess(old.vers, Version(m, d, n).vers)
    BY <2>1, <2>2, <2>3, <2>4, <2>5
  <2> QED
    BY <2>6 DEF h, old
<1> HIDE DEF u
<1>3. Entries(u)
  BY <1>1, <1>2 DEF Entries
<1>4. Project \in DOMAIN u /\ Schema \in DOMAIN u
  BY <1>1 DEF Visited
<1>5. Describes(u, d)
  BY <1>1, <1>2 DEF Describes
<1>6. Below(m, u)
  BY <1>1, <1>2 DEF Below, Entries
<1> QED
  BY <1>1, <1>3, <1>4, <1>5, <1>6 DEF Manifest, u

\* Dating leaves all but the dates, and those too where the last record agrees.
LEMMA DatedFacts ==
    ASSUME NEW m, Manifest(m), NEW last, NEW today
    PROVE  LET u == Dated(m, last, today)
           IN  /\ DOMAIN u = DOMAIN m /\ Manifest(u)
               /\ \A n \in DOMAIN m :
                     /\ u[n].vers = m[n].vers /\ u[n].min = m[n].min /\ u[n].pat = m[n].pat
                     /\ n \in DOMAIN last /\ last[n].vers = m[n].vers => u[n] = m[n]
<1> DEFINE u == Dated(m, last, today)
<1>1. /\ DOMAIN u = DOMAIN m
      /\ \A n \in DOMAIN m : u[n] = IF n \in DOMAIN last /\ last[n].vers = m[n].vers
                                    THEN m[n] ELSE [m[n] EXCEPT !.date = today]
  BY DEF Dated
<1>2. ASSUME NEW e, Entry(e)
      PROVE  /\ Entry([e EXCEPT !.date = today]) /\ [e EXCEPT !.date = today].vers = e.vers
             /\ [e EXCEPT !.date = today].min = e.min /\ [e EXCEPT !.date = today].pat = e.pat
  <2>1. [e EXCEPT !.date = today] = [vers |-> e.vers, min |-> e.min, pat |-> e.pat, date |-> today]
    <3>1. e = [vers |-> e.vers, min |-> e.min, pat |-> e.pat, date |-> e.date]
      BY <1>2 DEF Entry
    <3>2. \A a, b, c, f : [[vers |-> a, min |-> b, pat |-> c, date |-> f] EXCEPT !.date = today]
                             = [vers |-> a, min |-> b, pat |-> c, date |-> today]
      OBVIOUS
    <3> QED
      BY <3>1, <3>2
  <2> QED
    BY <1>2, <2>1 DEF Entry
<1> HIDE DEF u
<1>3. \A n \in DOMAIN m : Entry(u[n]) /\ u[n].vers = m[n].vers /\ u[n].min = m[n].min /\ u[n].pat = m[n].pat
  <2> SUFFICES ASSUME NEW n \in DOMAIN m
               PROVE  Entry(u[n]) /\ u[n].vers = m[n].vers /\ u[n].min = m[n].min /\ u[n].pat = m[n].pat
    OBVIOUS
  <2>1. Entry(m[n])
    BY DEF Manifest, Entries
  <2>2. u[n] = m[n] \/ u[n] = [m[n] EXCEPT !.date = today]
    BY <1>1
  <2> QED
    BY <1>2, <2>1, <2>2
<1> QED
  BY <1>1, <1>3 DEF Manifest, Entries, u

\* What leaves the folder's records and the commits as they were, or adds to them.
LEMMA CommitsStay ==
    ASSUME RecordsInv, CommitsInv, commits' = commits, Recorded \subseteq Recorded'
    PROVE  CommitsInv'
  BY DEF CommitsInv

LEMMA OpenInv == HistoryInv /\ Open => HistoryInv'
<1> SUFFICES ASSUME HistoryInv, Open PROVE HistoryInv'
  OBVIOUS
<1>1. /\ step = "closed" /\ Readable /\ opened' = UpdatedManifest(Started, defn) /\ step' = "open"
      /\ UNCHANGED <<defn, mfile, folder, begun, commits, cut>>
  BY DEF Open, Started
<1>2. /\ Recorded' = Recorded /\ Started' = Started /\ (Readable <=> Readable')
      /\ (Current <=> Current')
  BY <1>1 DEF Recorded, Started, Readable, LastOf, Current
<1>3. RecordsInv' /\ CommitsInv'
  BY <1>1, <1>2, CommitsStay DEF HistoryInv, RecordsInv
<1>4. StepInv'
  BY <1>1, <1>2 DEF HistoryInv, StepInv
<1> QED
  BY <1>3, <1>4 DEF HistoryInv

LEMMA EditInv == HistoryInv /\ Edit => HistoryInv'
<1> SUFFICES ASSUME HistoryInv, Edit PROVE HistoryInv'
  OBVIOUS
<1>1. step = "closed" /\ UNCHANGED <<mfile, folder, opened, step, begun, commits, cut>>
  BY DEF Edit
<1>2. /\ Recorded' = Recorded /\ Started' = Started /\ (Readable <=> Readable')
      /\ (Current <=> Current')
  BY <1>1 DEF Recorded, Started, Readable, LastOf, Current
<1>3. RecordsInv' /\ CommitsInv'
  BY <1>1, <1>2, CommitsStay DEF HistoryInv, RecordsInv
<1>4. StepInv'
  BY <1>1, <1>2 DEF HistoryInv, StepInv
<1> QED
  BY <1>3, <1>4 DEF HistoryInv

\* The version that is committed is ahead of every record's.
LEMMA CommitInv == HistoryInv /\ Commit => HistoryInv'
<1> SUFFICES ASSUME HistoryInv, Commit PROVE HistoryInv'
  OBVIOUS
<1> DEFINE last == LastOf(folder)
           u == UpdatedManifest(Started, defn)
           d == Dated(u, last, Len(commits) + 1)
<1>1. /\ step = "open" /\ opened' = d /\ mfile' = << >> /\ step' = "manifest"
      /\ last # << >> => u[Project].vers # last[Project].vers
      /\ UNCHANGED <<defn, folder, commits, cut>>
  BY DEF Commit, HistoryInv, StepInv
<1>2. Readable /\ Current /\ Entries(Started) /\ RecordsInv
  BY <1>1 DEF HistoryInv, StepInv
<1>3. /\ Manifest(u) /\ Describes(u, defn) /\ Below(Started, u)
  BY <1>2, UpdateFacts
<1>4. /\ DOMAIN d = DOMAIN u /\ Manifest(d)
      /\ \A n \in DOMAIN u : /\ d[n].vers = u[n].vers /\ d[n].min = u[n].min /\ d[n].pat = u[n].pat
                             /\ n \in DOMAIN last /\ last[n].vers = u[n].vers => d[n] = u[n]
  BY <1>3, DatedFacts
<1> HIDE DEF u, d, last
<1>5. Describes(d, defn)
  BY <1>3, <1>4 DEF Describes
<1>6. Recorded' = Recorded
  BY <1>1 DEF Recorded
<1>7. ASSUME folder # {}
      PROVE  /\ last \in Recorded /\ mfile \in Recorded /\ last = mfile /\ Started = mfile
             /\ last # << >>
  <2>1. last \in Recorded
    BY <1>2, <1>7, LastIsRecord DEF Readable, last
  <2>2. mfile \in Recorded /\ mfile[Project].vers = last[Project].vers /\ mfile # NoFile
    BY <1>2, <1>7 DEF Readable, Current, last
  <2>3. last = mfile
    BY <1>2, <2>1, <2>2 DEF RecordsInv
  <2> QED
    BY <1>2, <1>7, <2>1, <2>2, <2>3 DEF Readable, Started
<1>8. ASSUME NEW a \in Recorded
      PROVE  Below(a, d) /\ a[Project].vers # d[Project].vers
  <2>1. folder # {}
    BY DEF Recorded
  <2>2. Manifest(a) /\ Manifest(mfile) /\ Below(a, mfile) /\ Below(mfile, u)
    BY <1>2, <1>3, <1>7, <2>1 DEF RecordsInv, Current
  <2>3. Below(mfile, d)
    <3> SUFFICES ASSUME NEW n \in DOMAIN mfile
                 PROVE  n \in DOMAIN d /\ (mfile[n] = d[n] \/ NumLess(mfile[n].vers, d[n].vers))
      BY DEF Below
    <3>1. n \in DOMAIN u /\ (mfile[n] = u[n] \/ NumLess(mfile[n].vers, u[n].vers))
      BY <2>2 DEF Below
    <3>2. CASE mfile[n] = u[n]
      BY <1>4, <1>7, <2>1, <3>1, <3>2
    <3>3. CASE NumLess(mfile[n].vers, u[n].vers)
      BY <1>4, <3>1, <3>3
    <3> QED
      BY <3>1, <3>2, <3>3
  <2>4. Below(a, d)
    BY <1>4, <2>2, <2>3, BelowOrders DEF Manifest
  <2>5. NumLess(mfile[Project].vers, d[Project].vers)
    <3>1. u[Project].vers # mfile[Project].vers /\ Project \in DOMAIN mfile /\ Project \in DOMAIN u
      BY <1>1, <1>3, <1>7, <2>1, <2>2 DEF Manifest
    <3> QED
      BY <1>4, <2>2, <3>1 DEF Below
  <2>6. a[Project].vers = mfile[Project].vers \/ NumLess(a[Project].vers, mfile[Project].vers)
    BY <2>2 DEF Below, Manifest
  <2>7. /\ a[Project].vers \in Nat \X Nat /\ mfile[Project].vers \in Nat \X Nat
        /\ d[Project].vers \in Nat \X Nat
    BY <1>4, <2>2 DEF Manifest, Entries, Entry
  <2> QED
    BY <2>4, <2>5, <2>6, <2>7, NumLessOrders
<1>9. folder # {} => d[Project].vers # last[Project].vers
  BY <1>7, <1>8
<1>10. RecordsInv' /\ CommitsInv'
  BY <1>1, <1>2, <1>6, CommitsStay DEF HistoryInv, RecordsInv
<1>11. StepInv'
  <2>1. Unlike(opened)'
    BY <1>1, <1>6, <1>8 DEF Unlike
  <2>2. Started' = << >> /\ mfile' = << >> /\ Entries(Started)'
    BY <1>1 DEF Started, Entries
  <2>3. LastOf(folder)' = last
    BY <1>1 DEF LastOf, last
  <2>4. /\ Manifest(opened)' /\ Describes(opened, defn)'
        /\ \A a \in Recorded' : Below(a, opened')
    BY <1>1, <1>4, <1>5, <1>6, <1>8
  <2>5. \A n \in DOMAIN mfile' : FALSE
    BY <1>1
  <2>6. folder' # {} => opened'[Project].vers # LastOf(folder)'[Project].vers
    BY <1>1, <1>9, <2>3
  <2> QED
    BY <1>1, <2>1, <2>2, <2>4, <2>5, <2>6 DEF StepInv
<1> QED
  BY <1>10, <1>11 DEF HistoryInv

LEMMA WriteVersionInv == HistoryInv /\ WriteVersion => HistoryInv'
<1> SUFFICES ASSUME HistoryInv, WriteVersion PROVE HistoryInv'
  OBVIOUS
<1>1. /\ step = "manifest" /\ UNCHANGED <<defn, folder, opened, step, begun, commits, cut>>
      /\ Manifest(opened)
      /\ \A n \in DOMAIN mfile : n \in DOMAIN opened /\ mfile[n] = opened[n]
  BY DEF WriteVersion, HistoryInv, StepInv
<1>2. PICK k \in DOMAIN Nodes :
         /\ Nodes[k] \in DOMAIN opened \ DOMAIN mfile
         /\ \A m \in 1..(k - 1) : Nodes[m] \in DOMAIN opened => Nodes[m] \in DOMAIN mfile
         /\ mfile' = [n \in DOMAIN mfile \cup {Nodes[k]} |-> opened[n]]
  BY DEF WriteVersion
<1>3. \A n \in DOMAIN mfile' : n \in DOMAIN opened /\ mfile'[n] = opened[n]
  BY <1>1, <1>2
<1>4. Project \in DOMAIN mfile'
  <2>1. DOMAIN Nodes = 1..Len(Nodes) /\ Len(Nodes) \in Nat
    BY HistoryAssumption, LenProperties
  <2>2. CASE k = 1
    BY <1>2, <2>2 DEF Project
  <2>3. CASE k # 1
    <3>1. 1 \in 1..(k - 1)
      BY <2>1, <2>3
    <3>2. Nodes[1] \in DOMAIN mfile
      BY <1>1, <1>2, <3>1 DEF Manifest, Project
    <3> QED
      BY <1>2, <3>2 DEF Project
  <2> QED
    BY <2>2, <2>3
<1>5. Entries(Started)'
  <2>1. Entries(mfile') /\ Entries(<< >>)
    BY <1>1, <1>3 DEF Entries, Manifest
  <2> QED
    BY <2>1 DEF Started
<1>6. Recorded' = Recorded /\ LastOf(folder)' = LastOf(folder)
  BY <1>1 DEF Recorded, LastOf
<1>7. RecordsInv' /\ CommitsInv'
  BY <1>1, <1>6, CommitsStay DEF HistoryInv, RecordsInv
<1>8. StepInv'
  BY <1>1, <1>3, <1>4, <1>5, <1>6 DEF HistoryInv, StepInv, Unlike
<1> QED
  BY <1>7, <1>8 DEF HistoryInv

\* A file that is made or begun in a folder is no record yet.
LEMMA FolderFacts ==
    ASSUME RecordsInv, NEW old, NEW new, folder' = (folder \ {old}) \cup {new},
           old.mf \in {NoFile, Torn, new.mf}
    PROVE  /\ IsFiniteSet(folder')
           /\ Recorded' = Recorded \cup ({new.mf} \ {NoFile, Torn})
           /\ \E r \in folder' : r.mf = new.mf
<1>1. IsFiniteSet(folder \ {old}) /\ IsFiniteSet((folder \ {old}) \cup {new})
  BY FS_RemoveElement, FS_AddElement DEF RecordsInv
<1>2. Recorded' \subseteq Recorded \cup ({new.mf} \ {NoFile, Torn})
  BY DEF Recorded
<1>3. Recorded \cup ({new.mf} \ {NoFile, Torn}) \subseteq Recorded'
  BY DEF Recorded
<1> QED
  BY <1>1, <1>2, <1>3

LEMMA MakeRecordInv == HistoryInv /\ MakeRecord => HistoryInv'
<1> SUFFICES ASSUME HistoryInv, MakeRecord PROVE HistoryInv'
  OBVIOUS
<1> DEFINE new == [mf |-> NoFile, project |-> FALSE]
<1>1. /\ step = "manifest" /\ mfile = opened /\ step' = "folder"
      /\ folder' = (folder \ {new}) \cup {new} /\ new.mf = NoFile
      /\ UNCHANGED <<defn, mfile, opened, begun, commits, cut>>
  BY DEF MakeRecord, HistoryInv, StepInv
<1> HIDE DEF new
<1>2. /\ IsFiniteSet(folder') /\ Recorded' = Recorded /\ \E r \in folder' : r.mf = NoFile
  <2>1. RecordsInv /\ new.mf \in {NoFile, Torn, new.mf}
    BY <1>1 DEF HistoryInv
  <2>2. /\ IsFiniteSet(folder') /\ Recorded' = Recorded \cup ({new.mf} \ {NoFile, Torn})
        /\ \E r \in folder' : r.mf = new.mf
    BY <1>1, <2>1, FolderFacts
  <2> QED
    BY <1>1, <2>2
<1>3. RecordsInv' /\ CommitsInv'
  BY <1>1, <1>2, CommitsStay DEF HistoryInv, RecordsInv
<1>4. StepInv'
  BY <1>1, <1>2 DEF HistoryInv, StepInv, Unlike, Started
<1> QED
  BY <1>3, <1>4 DEF HistoryInv

LEMMA TruncateManifestInv == HistoryInv /\ TruncateManifest => HistoryInv'
<1> SUFFICES ASSUME HistoryInv, TruncateManifest PROVE HistoryInv'
  OBVIOUS
<1> DEFINE old == [mf |-> NoFile, project |-> FALSE]
           new == [mf |-> Torn, project |-> FALSE]
<1>1. /\ step = "folder" /\ step' = "record" /\ mfile = opened
      /\ folder' = (folder \ {old}) \cup {new} /\ old.mf = NoFile /\ new.mf = Torn
      /\ UNCHANGED <<defn, mfile, opened, begun, commits, cut>>
  BY DEF TruncateManifest, HistoryInv, StepInv
<1> HIDE DEF old, new
<1>2. /\ IsFiniteSet(folder') /\ Recorded' = Recorded /\ \E r \in folder' : r.mf = Torn
  <2>1. RecordsInv /\ old.mf \in {NoFile, Torn, new.mf}
    BY <1>1 DEF HistoryInv
  <2>2. /\ IsFiniteSet(folder') /\ Recorded' = Recorded \cup ({new.mf} \ {NoFile, Torn})
        /\ \E r \in folder' : r.mf = new.mf
    BY <1>1, <2>1, FolderFacts
  <2> QED
    BY <1>1, <2>2
<1>3. RecordsInv' /\ CommitsInv'
  BY <1>1, <1>2, CommitsStay DEF HistoryInv, RecordsInv
<1>4. StepInv'
  BY <1>1, <1>2 DEF HistoryInv, StepInv, Unlike, Started
<1> QED
  BY <1>3, <1>4 DEF HistoryInv

\* A manifest is told from a file that is not there or empty.
LEMMA ManifestIsOne ==
    ASSUME NEW m, Manifest(m)
    PROVE  m \notin {NoFile, Torn}
<1>1. DOMAIN Nodes = 1..Len(Nodes) /\ Len(Nodes) >= 2 /\ Len(Nodes) \in Nat
  BY HistoryAssumption, LenProperties
<1>2. Project # Schema
  BY <1>1, HistoryAssumption DEF IsInjective, Project, Schema
<1>3. DOMAIN NoFile = {"none"} /\ DOMAIN Torn = {"torn"}
  BY DEF NoFile, Torn
<1> QED
  BY <1>2, <1>3 DEF Manifest

LEMMA WriteManifestInv == HistoryInv /\ WriteManifest => HistoryInv'
<1> SUFFICES ASSUME HistoryInv, WriteManifest PROVE HistoryInv'
  OBVIOUS
<1> DEFINE old == [mf |-> Torn, project |-> FALSE]
           new == [mf |-> opened, project |-> FALSE]
<1>1. /\ step = "record" /\ step' = "project" /\ mfile = opened
      /\ folder' = (folder \ {old}) \cup {new} /\ old.mf = Torn /\ new.mf = opened
      /\ UNCHANGED <<defn, mfile, opened, begun, commits, cut>>
      /\ Manifest(opened) /\ Describes(opened, defn) /\ Unlike(opened)
      /\ \A a \in Recorded : Below(a, opened)
  BY DEF WriteManifest, HistoryInv, StepInv
<1> HIDE DEF old, new
<1>2. IsFiniteSet(folder') /\ Recorded' = Recorded \cup {opened}
  <2>1. RecordsInv /\ old.mf \in {NoFile, Torn, new.mf} /\ opened \notin {NoFile, Torn}
    BY <1>1, ManifestIsOne DEF HistoryInv
  <2>2. IsFiniteSet(folder') /\ Recorded' = Recorded \cup ({new.mf} \ {NoFile, Torn})
    BY <1>1, <2>1, FolderFacts
  <2> QED
    BY <1>1, <2>1, <2>2
<1>3. RecordsInv'
  BY <1>1, <1>2 DEF HistoryInv, RecordsInv, Unlike
<1>4. CommitsInv'
  BY <1>1, <1>2, CommitsStay DEF HistoryInv
<1>5. Below(opened, opened)
  BY DEF Below
<1>6. StepInv'
  BY <1>1, <1>2, <1>5 DEF HistoryInv, StepInv, Started
<1> QED
  BY <1>3, <1>4, <1>6 DEF HistoryInv

\* The record is complete and ahead of all that were committed before.
LEMMA WriteProjectInv == HistoryInv /\ WriteProject => HistoryInv'
<1> SUFFICES ASSUME HistoryInv, WriteProject PROVE HistoryInv'
  OBVIOUS
<1> DEFINE old == [mf |-> opened, project |-> FALSE]
           new == [mf |-> opened, project |-> TRUE]
           done == [mf |-> opened, defn |-> defn]
<1>1. /\ step = "project" /\ step' = "closed" /\ mfile = opened
      /\ folder' = (folder \ {old}) \cup {new} /\ old.mf = opened /\ new.mf = opened
      /\ commits' = Append(commits, done) /\ done.mf = opened /\ done.defn = defn
      /\ UNCHANGED <<defn, mfile, begun, cut>>
      /\ Manifest(opened) /\ Describes(opened, defn) /\ opened \in Recorded
      /\ \A a \in Recorded : Below(a, opened)
  BY DEF WriteProject, HistoryInv, StepInv
<1> HIDE DEF old, new, done
<1>2. IsFiniteSet(folder') /\ Recorded' = Recorded
  <2>1. RecordsInv /\ old.mf \in {NoFile, Torn, new.mf}
    BY <1>1 DEF HistoryInv
  <2>2. IsFiniteSet(folder') /\ Recorded' = Recorded \cup ({new.mf} \ {NoFile, Torn})
    BY <1>1, <2>1, FolderFacts
  <2> QED
    BY <1>1, <2>2
<1>3. RecordsInv'
  BY <1>2 DEF HistoryInv, RecordsInv
<1>4. CommitsInv'
  <2> DEFINE S == ToSet(commits) \cup {done}
  <2>1. commits \in Seq(S) /\ done \in S
    BY SeqMonotonic DEF HistoryInv, CommitsInv
  <2>2. ToSet(commits') = S /\ commits' \in Seq(S)
    BY <1>1, <2>1, ToSetAppend, AppendProperties
  <2>3. /\ Len(commits) \in Nat /\ Len(commits') = Len(commits) + 1
        /\ \A c \in 1..Len(commits') : \/ c \in 1..Len(commits) /\ commits'[c] = commits[c]
                                       \/ c = Len(commits) + 1 /\ commits'[c] = done
    BY <1>1, <2>1, AppendAt
  <2> HIDE DEF S
  <2>4. ASSUME NEW c \in 1..Len(commits')
        PROVE  /\ commits'[c].mf \in Recorded' /\ Describes(commits'[c].mf, commits'[c].defn)
               /\ \A b \in 1..(c - 1) : Below(commits'[b].mf, commits'[c].mf)
    <3>1. CASE c \in 1..Len(commits) /\ commits'[c] = commits[c]
      <4>1. \A b \in 1..(c - 1) : b \in 1..Len(commits) /\ commits'[b] = commits[b]
        BY <2>3, <3>1
      <4> QED
        BY <1>2, <3>1, <4>1 DEF HistoryInv, CommitsInv
    <3>2. CASE c = Len(commits) + 1 /\ commits'[c] = done
      <4>1. \A b \in 1..(c - 1) : /\ b \in 1..Len(commits) /\ commits'[b] = commits[b]
                                  /\ commits[b].mf \in Recorded
        BY <2>3, <3>2 DEF HistoryInv, CommitsInv
      <4> QED
        BY <1>1, <1>2, <3>2, <4>1
    <3> QED
      BY <2>3, <3>1, <3>2
  <2>5. commits' \in Seq(ToSet(commits'))
    BY <2>2
  <2> QED
    BY <2>4, <2>5 DEF CommitsInv
<1>5. StepInv'
  <2>1. Current'
    BY <1>1, <1>2 DEF Current
  <2> QED
    BY <1>1, <2>1 DEF HistoryInv, StepInv, Started
<1> QED
  BY <1>3, <1>4, <1>5 DEF HistoryInv

\* Stopped before the record, the folder can not be read, or it is empty.
LEMMA StopsInv == HistoryInv /\ Stops => HistoryInv'
<1> SUFFICES ASSUME HistoryInv, Stops PROVE HistoryInv'
  OBVIOUS
<1>1. /\ step # "closed" /\ step' = "closed"
      /\ UNCHANGED <<defn, mfile, folder, begun, commits>>
  BY DEF Stops
<1>2. /\ Recorded' = Recorded /\ Started' = Started /\ (Readable <=> Readable')
      /\ (Current <=> Current')
  BY <1>1 DEF Recorded, Started, Readable, LastOf, Current
<1>3. RecordsInv' /\ CommitsInv'
  BY <1>1, <1>2, CommitsStay DEF HistoryInv, RecordsInv
<1>4. Readable => Current
  <2>1. CASE step = "open"
    BY <2>1 DEF HistoryInv, StepInv
  <2>2. CASE step = "manifest"
    <3>1. /\ folder # {} => opened[Project].vers # LastOf(folder)[Project].vers
          /\ mfile # << >> => Project \in DOMAIN mfile
          /\ \A n \in DOMAIN mfile : mfile[n] = opened[n]
      BY <2>2 DEF HistoryInv, StepInv
    <3> QED
      BY <3>1 DEF Readable, Current
  <2>3. CASE step = "folder" \/ step = "record"
    <3>1. \E r \in folder : r.mf \in {NoFile, Torn}
      BY <2>3 DEF HistoryInv, StepInv
    <3> QED
      BY <3>1 DEF Readable
  <2>4. CASE step = "project"
    BY <2>4 DEF HistoryInv, StepInv, Current
  <2> QED
    BY <1>1, <2>1, <2>2, <2>3, <2>4 DEF HistoryInv, StepInv
<1>5. StepInv'
  BY <1>1, <1>2, <1>4 DEF HistoryInv, StepInv
<1> QED
  BY <1>3, <1>5 DEF HistoryInv

LEMMA HistoryNextInv == HistoryInv /\ [HistoryNext]_historyVars => HistoryInv'
<1> SUFFICES ASSUME HistoryInv, UNCHANGED historyVars PROVE HistoryInv'
  BY OpenInv, EditInv, CommitInv, WriteVersionInv, MakeRecordInv, TruncateManifestInv,
     WriteManifestInv, WriteProjectInv, StopsInv DEF HistoryNext
<1>1. UNCHANGED <<defn, mfile, folder, opened, step, begun, commits, cut>>
  BY DEF historyVars
<1>2. /\ Recorded' = Recorded /\ Started' = Started /\ (Readable <=> Readable')
      /\ (Current <=> Current') /\ LastOf(folder)' = LastOf(folder)
  BY <1>1 DEF Recorded, Started, Readable, LastOf, Current
<1> QED
  BY <1>1, <1>2 DEF HistoryInv, RecordsInv, CommitsInv, StepInv, Unlike

LEMMA HistoryInvIdentifies == HistoryInv => VersionsIdentify
<1> SUFFICES ASSUME HistoryInv PROVE VersionsIdentify
  OBVIOUS
<1>1. DOMAIN commits = 1..Len(commits)
  BY LenProperties DEF HistoryInv, CommitsInv
<1>2. \A c \in 1..Len(commits) : \A n \in Visited(commits[c].defn) :
         /\ commits[c].mf[n].min = Hashed(commits[c].defn, n).min
         /\ commits[c].mf[n].pat = Hashed(commits[c].defn, n).pat
  BY DEF HistoryInv, CommitsInv, Describes
<1>3. \A c \in 1..Len(commits) : \A b \in 1..(c - 1) : Below(commits[b].mf, commits[c].mf)
  BY DEF HistoryInv, CommitsInv
<1> QED
  BY <1>1, <1>2, <1>3 DEF VersionsIdentify, Below

\* A version stands for one definition, for ever: whatever is edited, however often
\* models go and come back and wherever a commit is interrupted, what two records
\* give the same version of a node is the same, and what differs has a later version
\* in the later record.
THEOREM VersionsStandForOne == HistorySpec => []VersionsIdentify
<1>1. HistorySpec => []HistoryInv
  BY HistoryInitInv, HistoryNextInv, PTL DEF HistorySpec
<1> QED
  BY <1>1, HistoryInvIdentifies, PTL

\* The numbers of a version are compared as they are written when they have as many
\* digits.
LEMMA DigitsOrder ==
    ASSUME NEW x \in Nat, NEW y \in Nat, x < y, Len(Digits(x)) = Len(Digits(y))
    PROVE  \E k \in 1..Len(Digits(x)) :
              /\ Digits(x)[k] < Digits(y)[k]
              /\ \A m \in 1..(k - 1) : Digits(x)[m] = Digits(y)[m]
<1>1. Base \in Nat /\ Base > 1
  BY HistoryAssumption
<1>2. ASSUME NEW n \in Nat
      PROVE  /\ n < Base => Len(Digits(n)) = 1 /\ Digits(n)[1] = n
             /\ ~(n < Base) => /\ Len(Digits(n)) = 2
                               /\ Digits(n)[1] = n \div Base /\ Digits(n)[2] = n % Base
  BY DEF Digits
<1>3. CASE x < Base
  <2>1. y < Base
    BY <1>2, <1>3
  <2>2. Len(Digits(x)) = 1 /\ Digits(x)[1] < Digits(y)[1]
    BY <1>2, <1>3, <2>1
  <2>3. 1 \in 1..1 /\ 1..(1 - 1) = {}
    OBVIOUS
  <2> QED
    BY <2>2, <2>3
<1>4. CASE ~(x < Base)
  <2>1. ~(y < Base)
    BY <1>2, <1>4
  <2>2. /\ Len(Digits(x)) = 2
        /\ Digits(x)[1] = x \div Base /\ Digits(x)[2] = x % Base
        /\ Digits(y)[1] = y \div Base /\ Digits(y)[2] = y % Base
    BY <1>2, <1>4, <2>1
  <2> DEFINE q == x \div Base
             p == y \div Base
             r == x % Base
             t == y % Base
  <2>3. /\ q \in Int /\ p \in Int /\ r \in 0..(Base - 1) /\ t \in 0..(Base - 1)
        /\ x = Base * q + r /\ y = Base * p + t
    BY <1>1
  <2> HIDE DEF q, p, r, t
  <2>4. q <= p /\ (q = p => r < t)
    <3>1. Base * (q - p) < Base
      BY <1>1, <2>3
    <3>2. q - p >= 1 => Base * (q - p) >= Base
      BY <1>1, <2>3
    <3>3. q = p => Base * q = Base * p
      OBVIOUS
    <3> QED
      BY <1>1, <2>3, <3>1, <3>2, <3>3
  <2>5. 1 \in 1..2 /\ 2 \in 1..2 /\ 1..(1 - 1) = {} /\ 1..(2 - 1) = {1}
    OBVIOUS
  <2>6. CASE q < p
    BY <2>2, <2>5, <2>6 DEF q, p
  <2>7. CASE q = p
    BY <2>2, <2>4, <2>5, <2>7 DEF q, p, r, t
  <2> QED
    BY <2>3, <2>4, <2>6, <2>7
<1> QED
  BY <1>3, <1>4

LEMMA ConcatAt ==
    ASSUME NEW S, NEW s \in Seq(S), NEW t \in Seq(S)
    PROVE  /\ s \o t \in Seq(S) /\ Len(s) \in Nat /\ Len(t) \in Nat
           /\ Len(s \o t) = Len(s) + Len(t)
           /\ \A k \in 1..Len(s) : (s \o t)[k] = s[k]
           /\ \A k \in 1..Len(t) : (s \o t)[Len(s) + k] = t[k]
<1>1. Len(s) \in Nat /\ Len(t) \in Nat
  BY LenProperties
<1>2. /\ s \o t \in Seq(S) /\ Len(s \o t) = Len(s) + Len(t)
      /\ \A k \in 1..(Len(s) + Len(t)) : (s \o t)[k] = IF k <= Len(s) THEN s[k] ELSE t[k - Len(s)]
  BY ConcatProperties
<1> DEFINE u == s \o t
           x == Len(s)
           y == Len(t)
<1> HIDE DEF u, x, y
<1>3. x \in Nat /\ y \in Nat /\ \A k \in 1..(x + y) : u[k] = IF k <= x THEN s[k] ELSE t[k - x]
  BY <1>1, <1>2 DEF u, x, y
<1>4. \A k \in 1..x : u[k] = s[k]
  BY <1>3
<1>5. \A k \in 1..y : u[x + k] = t[k]
  <2> TAKE k \in 1..y
  <2>1. x + k \in 1..(x + y) /\ ~(x + k <= x) /\ (x + k) - x = k
    BY <1>3
  <2> QED
    BY <1>3, <2>1
<1> QED
  BY <1>1, <1>2, <1>4, <1>5 DEF u, x, y

LEMMA ConcatStarts ==
    ASSUME NEW s \in Seq(Int), NEW t \in Seq(Int)
    PROVE  /\ s \o t \in Seq(Int) /\ Len(s) \in Nat /\ Len(s \o t) >= Len(s)
           /\ \A k \in 1..Len(s) : k \in 1..Len(s \o t) /\ (s \o t)[k] = s[k]
<1> DEFINE u == s \o t
           x == Len(s)
           y == Len(t)
           z == Len(u)
<1>1. /\ u \in Seq(Int) /\ x \in Nat /\ y \in Nat /\ z = x + y
      /\ \A k \in 1..x : u[k] = s[k]
  BY ConcatAt
<1> HIDE DEF u, x, y, z
<1>2. z >= x /\ \A k \in 1..x : k \in 1..z
  BY <1>1
<1> QED
  BY <1>1, <1>2 DEF u, x, z

\* Versions whose numbers have as many digits are listed in their order.
LEMMA LessIsBefore ==
    ASSUME NEW v \in Nat \X Nat, NEW w \in Nat \X Nat, NumLess(v, w),
           Len(Digits(v[1])) = Len(Digits(w[1])),
           v[1] = w[1] => Len(Digits(v[2])) = Len(Digits(w[2]))
    PROVE  VersBefore(v, w)
<1> DEFINE dot == <<-1>>
<1>1. \A n \in Nat : Digits(n) \in Seq(Int)
  <2>1. ASSUME NEW n \in Nat PROVE Digits(n) \in Seq(Int)
    <3>1. Base \in Nat /\ Base > 1
      BY HistoryAssumption
    <3>2. n \div Base \in Int /\ n % Base \in Int
      BY <3>1
    <3> QED
      BY <3>2 DEF Digits
  <2> QED
    BY <2>1
<1>2. v[1] \in Nat /\ v[2] \in Nat /\ w[1] \in Nat /\ w[2] \in Nat
  OBVIOUS
<1>3. /\ dot \in Seq(Int) /\ << >> \in Seq(Int)
      /\ Digits(v[1]) \in Seq(Int) /\ Digits(v[2]) \in Seq(Int)
      /\ Digits(w[1]) \in Seq(Int) /\ Digits(w[2]) \in Seq(Int)
  BY <1>1, <1>2
<1>4. /\ VersText(v) = (Digits(v[1]) \o dot) \o Digits(v[2])
      /\ VersText(w) = (Digits(w[1]) \o dot) \o Digits(w[2])
  BY DEF VersText
<1> HIDE DEF dot
<1>5. CASE v[1] < w[1]
  <2> DEFINE a == Digits(v[1])
             b == Digits(w[1])
             x == (a \o dot) \o Digits(v[2])
             y == (b \o dot) \o Digits(w[2])
  <2>1. \E k \in 1..Len(a) : a[k] < b[k] /\ \A m \in 1..(k - 1) : a[m] = b[m]
    BY <1>2, <1>5, DigitsOrder
  <2>2. /\ a \in Seq(Int) /\ b \in Seq(Int) /\ Len(a) = Len(b)
        /\ Digits(v[2]) \in Seq(Int) /\ Digits(w[2]) \in Seq(Int)
    BY <1>3
  <2>3. VersText(v) = x /\ VersText(w) = y
    BY <1>4
  <2> HIDE DEF a, b
  <2>0. dot \in Seq(Int)
    BY <1>3
  <2>4. /\ a \o dot \in Seq(Int) /\ Len(a) \in Nat /\ Len(a \o dot) >= Len(a)
        /\ \A k \in 1..Len(a) : k \in 1..Len(a \o dot) /\ (a \o dot)[k] = a[k]
    BY <2>0, <2>2, ConcatStarts
  <2>5. /\ b \o dot \in Seq(Int) /\ Len(b \o dot) >= Len(b)
        /\ \A k \in 1..Len(b) : k \in 1..Len(b \o dot) /\ (b \o dot)[k] = b[k]
    BY <2>0, <2>2, ConcatStarts
  <2>6. Len(x) \in Nat /\ Len(x) >= Len(a) /\ \A k \in 1..Len(a) : x[k] = a[k]
    BY <2>2, <2>4, ConcatAt
  <2>7. Len(y) \in Nat /\ Len(y) >= Len(b) /\ \A k \in 1..Len(b) : y[k] = b[k]
    BY <2>2, <2>5, ConcatAt
  <2> HIDE DEF x, y
  <2>8. LexLess(x, Len(x), y, Len(y))
    <3> DEFINE l == Len(a)
               p == Len(x)
               q == Len(y)
    <3>1. /\ l \in Nat /\ p \in Nat /\ q \in Nat /\ p >= l /\ q >= l
          /\ \A k \in 1..l : x[k] = a[k] /\ y[k] = b[k]
          /\ \E k \in 1..l : a[k] < b[k] /\ \A m \in 1..(k - 1) : a[m] = b[m]
      BY <2>1, <2>2, <2>4, <2>6, <2>7
    <3> HIDE DEF l, p, q
    <3>2. PICK k \in 1..l : a[k] < b[k] /\ \A m \in 1..(k - 1) : a[m] = b[m]
      BY <3>1
    <3>3. k \in 1..p /\ k <= q /\ x[k] < y[k] /\ \A m \in 1..(k - 1) : x[m] = y[m]
      BY <3>1, <3>2
    <3>4. LexLess(x, p, y, q)
      BY <3>3 DEF LexLess
    <3> QED
      BY <3>4 DEF p, q
  <2> QED
    BY <2>3, <2>8, VersBeforeDef DEF Before
<1>6. CASE v[1] = w[1] /\ v[2] < w[2]
  <2> DEFINE a == Digits(v[2])
             b == Digits(w[2])
             h == Digits(v[1]) \o dot
             x == h \o a
             y == h \o b
  <2>1. \E k \in 1..Len(a) : a[k] < b[k] /\ \A m \in 1..(k - 1) : a[m] = b[m]
    BY <1>2, <1>6, DigitsOrder
  <2>2. h \in Seq(Int) /\ a \in Seq(Int) /\ b \in Seq(Int) /\ Len(a) = Len(b)
    BY <1>3, <1>6, ConcatProperties
  <2>3. VersText(v) = x /\ VersText(w) = y
    BY <1>4, <1>6
  <2> HIDE DEF a, b, h
  <2>4. /\ Len(h) \in Nat /\ Len(a) \in Nat
        /\ Len(x) \in Nat /\ Len(x) >= Len(h) + Len(a)
        /\ \A k \in 1..Len(h) : x[k] = h[k]
        /\ \A k \in 1..Len(a) : x[Len(h) + k] = a[k]
    BY <2>2, ConcatAt
  <2>5. /\ Len(y) \in Nat /\ Len(y) >= Len(h) + Len(b)
        /\ \A k \in 1..Len(h) : y[k] = h[k]
        /\ \A k \in 1..Len(b) : y[Len(h) + k] = b[k]
    BY <2>2, ConcatAt
  <2> HIDE DEF x, y
  <2>6. LexLess(x, Len(x), y, Len(y))
    <3> DEFINE l == Len(a)
               n == Len(h)
               p == Len(x)
               q == Len(y)
    <3>1. /\ l \in Nat /\ n \in Nat /\ p \in Nat /\ q \in Nat /\ p >= n + l /\ q >= n + l
          /\ \E k \in 1..l : a[k] < b[k] /\ \A m \in 1..(k - 1) : a[m] = b[m]
      BY <2>1, <2>2, <2>4, <2>5
    <3>2. \A k \in 1..n : x[k] = y[k]
      BY <2>4, <2>5
    <3>3. \A k \in 1..l : x[n + k] = a[k] /\ y[n + k] = b[k]
      BY <2>2, <2>4, <2>5
    <3> HIDE DEF l, n, p, q
    <3>4. PICK k \in 1..l : a[k] < b[k] /\ \A m \in 1..(k - 1) : a[m] = b[m]
      BY <3>1
    <3>5. n + k \in 1..p /\ n + k <= q /\ \A m \in 1..(k - 1) : m \in 1..l
      BY <3>1
    <3>6. x[n + k] < y[n + k]
      BY <3>3, <3>4
    <3>7. ASSUME NEW m \in 1..((n + k) - 1) PROVE x[m] = y[m]
      <4>1. CASE m \in 1..n
        BY <3>2, <4>1
      <4>2. CASE m - n \in 1..(k - 1)
        <5>1. n + (m - n) = m
          BY <3>1
        <5>2. x[n + (m - n)] = a[m - n] /\ y[n + (m - n)] = b[m - n]
          BY <3>3, <3>5, <4>2
        <5> QED
          BY <3>4, <4>2, <5>1, <5>2
      <4> QED
        BY <3>1, <4>1, <4>2
    <3>8. LexLess(x, p, y, q)
      BY <3>5, <3>6, <3>7 DEF LexLess
    <3> QED
      BY <3>8 DEF p, q
  <2> QED
    BY <2>3, <2>6, VersBeforeDef DEF Before
<1> QED
  BY <1>2, <1>5, <1>6 DEF NumLess

\* Of two commits the later has the later version, and so does one that is to end.
Increasing ==
    \A c \in 1..Len(commits) :
        /\ \A b \in 1..(c - 1) : NumLess(commits[b].mf[Project].vers, commits[c].mf[Project].vers)
        /\ step = "project" => NumLess(commits[c].mf[Project].vers, opened[Project].vers)

\* The records of the commits, and what a commit on its way left so far.
Whole == {[mf |-> commits[c].mf, project |-> TRUE] : c \in 1..Len(commits)}
Part  == {[mf |-> m, project |-> FALSE] :
             m \in {NoFile : s \in {step} \cap {"folder"}} \cup {Torn : s \in {step} \cap {"record"}}
                   \cup {opened : s \in {step} \cap {"project"}}}

\* Unless a commit was interrupted the folder has the records of the commits, and
\* its manifest is the last one's.
FolderInv ==
    ~cut => /\ folder = Whole \cup Part
            /\ step \in {"closed", "open"} /\ commits # << >> => mfile = commits[Len(commits)].mf

PartIs ==
    /\ step = "folder" => Part = {[mf |-> NoFile, project |-> FALSE]}
    /\ step = "record" => Part = {[mf |-> Torn, project |-> FALSE]}
    /\ step = "project" => Part = {[mf |-> opened, project |-> FALSE]}
    /\ step \notin {"folder", "record", "project"} => Part = {}

LEMMA PartCases == PartIs
<1> DEFINE ms == {NoFile : s \in {step} \cap {"folder"}} \cup {Torn : s \in {step} \cap {"record"}}
                     \cup {opened : s \in {step} \cap {"project"}}
<1>1. /\ step = "folder" => ms = {NoFile}
      /\ step = "record" => ms = {Torn}
      /\ step = "project" => ms = {opened}
      /\ step \notin {"folder", "record", "project"} => ms = {}
  OBVIOUS
<1>2. Part = {[mf |-> m, project |-> FALSE] : m \in ms}
  BY DEF Part
<1> HIDE DEF ms
<1> QED
  BY <1>1, <1>2 DEF PartIs

LEMMA NextCommit ==
    ASSUME HistoryInv, WriteProject
    PROVE  /\ Len(commits) \in Nat /\ Len(commits') = Len(commits) + 1
           /\ \A c \in 1..Len(commits) : commits'[c] = commits[c]
           /\ commits'[Len(commits) + 1].mf = opened
<1> DEFINE done == [mf |-> opened, defn |-> defn]
           S == ToSet(commits) \cup {done}
<1>1. commits' = Append(commits, done) /\ done.mf = opened
  BY DEF WriteProject
<1> HIDE DEF done
<1>2. commits \in Seq(S) /\ done \in S
  BY SeqMonotonic DEF HistoryInv, CommitsInv
<1> HIDE DEF S
<1>3. /\ Len(commits) \in Nat /\ Len(Append(commits, done)) = Len(commits) + 1
      /\ \A c \in 1..Len(commits) : Append(commits, done)[c] = commits[c]
      /\ Append(commits, done)[Len(commits) + 1] = done
  BY <1>2, AppendProperties, LenProperties
<1> QED
  BY <1>1, <1>3

LEMMA IncreasingStep ==
    ASSUME HistoryInv, Increasing, [HistoryNext]_historyVars
    PROVE  Increasing'
<1>1. CASE WriteManifest
  <2>1. step = "record" /\ step' = "project" /\ opened' = opened /\ commits' = commits
    BY <1>1 DEF WriteManifest
  <2>2. ASSUME NEW c \in 1..Len(commits)
        PROVE  NumLess(commits[c].mf[Project].vers, opened[Project].vers)
    <3>1. commits[c].mf \in Recorded
      BY DEF HistoryInv, CommitsInv
    <3>2. Manifest(commits[c].mf) /\ Below(commits[c].mf, opened) /\ Unlike(opened)
      BY <2>1, <3>1 DEF HistoryInv, RecordsInv, StepInv
    <3> QED
      BY <3>1, <3>2 DEF Manifest, Below, Unlike
  <2> QED
    BY <2>1, <2>2 DEF Increasing
<1>2. CASE WriteProject
  <2>1. step = "project" /\ step' = "closed"
    BY <1>2 DEF WriteProject
  <2>2. /\ Len(commits) \in Nat /\ Len(commits') = Len(commits) + 1
        /\ \A c \in 1..Len(commits) : commits'[c] = commits[c]
        /\ commits'[Len(commits) + 1].mf = opened
    BY <1>2, NextCommit
  <2>3. ASSUME NEW c \in 1..Len(commits'), NEW b \in 1..(c - 1)
        PROVE  NumLess(commits'[b].mf[Project].vers, commits'[c].mf[Project].vers)
    <3>1. b \in 1..Len(commits) /\ (c \in 1..Len(commits) \/ c = Len(commits) + 1)
      BY <2>2
    <3>2. CASE c \in 1..Len(commits)
      BY <2>2, <3>1, <3>2 DEF Increasing
    <3>3. CASE c = Len(commits) + 1
      BY <2>1, <2>2, <3>1, <3>3 DEF Increasing
    <3> QED
      BY <3>1, <3>2, <3>3
  <2> QED
    BY <2>1, <2>3 DEF Increasing
<1>3. CASE commits' = commits /\ (step' # "project" \/ (step' = step /\ opened' = opened))
  BY <1>3 DEF Increasing
<1> QED
  BY <1>1, <1>2, <1>3 DEF HistoryNext, Open, Edit, Commit, WriteVersion, MakeRecord,
     TruncateManifest, Stops, historyVars

\* A record that is whole is none that a commit has yet to finish.
LEMMA WholeApart == \A r \in Whole : r.project
  BY DEF Whole

LEMMA FolderStep ==
    ASSUME HistoryInv, FolderInv, [HistoryNext]_historyVars
    PROVE  FolderInv'
<1> SUFFICES ASSUME ~cut'
             PROVE  /\ folder' = Whole' \cup Part'
                    /\ step' \in {"closed", "open"} /\ commits' # << >> =>
                          mfile' = commits'[Len(commits')].mf
  BY DEF FolderInv
<1> DEFINE none == [mf |-> NoFile, project |-> FALSE]
           torn == [mf |-> Torn, project |-> FALSE]
           old  == [mf |-> opened, project |-> FALSE]
           new  == [mf |-> opened, project |-> TRUE]
<1>1. ~cut
  BY DEF HistoryNext, Open, Edit, Commit, WriteVersion, MakeRecord, TruncateManifest,
         WriteManifest, WriteProject, Stops, historyVars
<1>2. /\ folder = Whole \cup Part
      /\ step \in {"closed", "open"} /\ commits # << >> => mfile = commits[Len(commits)].mf
  BY <1>1 DEF FolderInv
<1>0. PartIs /\ PartIs'
  BY PartCases, PTL
<1>3. (step' = "folder" => Part' = {none}) /\ (step' = "record" => Part' = {torn})
      /\ (step' = "project" => Part' = {[mf |-> opened', project |-> FALSE]})
      /\ (step' \notin {"folder", "record", "project"} => Part' = {})
  BY <1>0 DEF PartIs
<1>4. commits' = commits => Whole' = Whole
  BY DEF Whole
<1>5. ~none.project /\ ~torn.project /\ ~old.project
  OBVIOUS
<1> HIDE DEF none, torn, old, new
<1>6. none \notin Whole /\ torn \notin Whole /\ old \notin Whole
  BY <1>5, WholeApart
<1>7. CASE Open \/ Edit
  <2>1. /\ step \in {"closed", "open"} /\ step' \in {"closed", "open"}
        /\ folder' = folder /\ commits' = commits /\ mfile' = mfile
    BY <1>7 DEF Open, Edit
  <2> QED
    BY <1>2, <1>3, <1>4, <2>1, <1>0 DEF PartIs
<1>8. CASE Commit \/ WriteVersion
  <2>1. /\ step \in {"open", "manifest"} /\ step' = "manifest"
        /\ folder' = folder /\ commits' = commits
    BY <1>8 DEF Commit, WriteVersion
  <2> QED
    BY <1>2, <1>3, <1>4, <2>1, <1>0 DEF PartIs
<1>9. CASE MakeRecord
  <2>1. /\ step = "manifest" /\ step' = "folder" /\ commits' = commits
        /\ folder' = folder \cup {none}
    BY <1>9 DEF MakeRecord, none
  <2> QED
    BY <1>2, <1>3, <1>4, <2>1, <1>0 DEF PartIs
<1>10. CASE TruncateManifest
  <2>1. /\ step = "folder" /\ step' = "record" /\ commits' = commits
        /\ folder' = (folder \ {none}) \cup {torn}
    BY <1>10 DEF TruncateManifest, none, torn
  <2>2. Part = {none}
    BY <2>1, <1>0 DEF PartIs, none
  <2> QED
    BY <1>2, <1>3, <1>4, <1>6, <2>1, <2>2
<1>11. CASE WriteManifest
  <2>1. /\ step = "record" /\ step' = "project" /\ commits' = commits
        /\ folder' = (folder \ {torn}) \cup {old} /\ opened' = opened
    BY <1>11 DEF WriteManifest, torn, old
  <2>2. Part = {torn} /\ Part' = {old}
    BY <1>3, <2>1, <1>0 DEF PartIs, torn, old
  <2> QED
    BY <1>2, <1>4, <1>6, <2>1, <2>2
<1>12. CASE WriteProject
  <2>1. /\ step = "project" /\ step' = "closed" /\ mfile' = mfile /\ mfile = opened
        /\ folder' = (folder \ {old}) \cup {new}
    BY <1>12 DEF WriteProject, old, new, HistoryInv, StepInv
  <2>2. Part = {old} /\ Part' = {}
    BY <1>3, <2>1, <1>0 DEF PartIs, old
  <2>3. /\ Len(commits) \in Nat /\ Len(commits') = Len(commits) + 1
        /\ \A c \in 1..Len(commits) : commits'[c] = commits[c]
        /\ commits'[Len(commits) + 1].mf = opened
    BY <1>12, NextCommit
  <2>4. Whole' = Whole \cup {new}
    <3>1. Whole' = {[mf |-> commits'[c].mf, project |-> TRUE] : c \in 1..Len(commits')}
      BY DEF Whole
    <3>2. \A c : c \in 1..Len(commits') <=> c \in 1..Len(commits) \/ c = Len(commits) + 1
      BY <2>3
    <3> QED
      BY <2>3, <3>1, <3>2 DEF Whole, new
  <2> QED
    BY <1>2, <1>6, <2>1, <2>2, <2>3, <2>4
<1>13. CASE Stops
  <2>1. /\ step # "closed" /\ step' = "closed" /\ (step = "open" \/ folder = {})
        /\ folder' = folder /\ commits' = commits /\ mfile' = mfile
    BY <1>13 DEF Stops
  <2>2. CASE step = "open"
    BY <1>0, <1>2, <1>3, <1>4, <2>1, <2>2 DEF PartIs
  <2>3. CASE folder = {}
    <3>1. Whole = {} /\ Part = {}
      BY <1>2, <2>3
    <3>2. commits = << >>
      <4>1. commits \in Seq(ToSet(commits)) /\ Len(commits) \in Nat
        BY LenProperties DEF HistoryInv, CommitsInv
      <4>2. 1..Len(commits) = {}
        BY <3>1 DEF Whole
      <4>3. Len(commits) = 0
        BY <4>1, <4>2
      <4> QED
        BY <4>1, <4>3, EmptySeq
    <3> QED
      BY <1>3, <1>4, <2>1, <2>3, <3>1, <3>2
  <2> QED
    BY <2>1, <2>2, <2>3
<1>14. CASE UNCHANGED historyVars
  <2>1. Whole' = Whole /\ Part' = Part /\ UNCHANGED <<folder, mfile, step, commits>>
    BY <1>14 DEF Whole, Part, historyVars
  <2> QED
    BY <1>2, <2>1
<1> QED
  BY <1>7, <1>8, <1>9, <1>10, <1>11, <1>12, <1>13, <1>14 DEF HistoryNext

\* Numbers up to n that climb are all of them.
LEMMA Climbing ==
    ASSUME NEW n \in Nat, NEW g \in [1..n -> 1..n],
           \A a, b \in 1..n : a < b => g[a] < g[b]
    PROVE  \A a \in 1..n : g[a] = a
<1> DEFINE S == {k \in Nat : k \in 1..n => g[k] >= k}
           T == {k \in Nat : k < n => g[n - k] <= n - k}
<1>1. \A k \in 1..n : g[k] \in 1..n
  OBVIOUS
<1>2. 0 \in S /\ 0 \in T
  BY <1>1
<1>3. ASSUME NEW k \in Nat, k \in S PROVE k + 1 \in S
  <2>1. CASE k \in 1..n /\ k + 1 \in 1..n
    <3>1. g[k] >= k /\ g[k] < g[k + 1]
      BY <1>3, <2>1
    <3>2. g[k] \in Int /\ g[k + 1] \in Int
      BY <1>1, <2>1
    <3>3. g[k + 1] >= k + 1
      BY <3>1, <3>2
    <3> QED
      BY <3>3
  <2>2. CASE k + 1 \notin 1..n
    BY <2>2
  <2>3. CASE k = 0 /\ k + 1 \in 1..n
    BY <1>1, <2>3
  <2> QED
    BY <2>1, <2>2, <2>3
<1>4. ASSUME NEW k \in Nat, k \in T PROVE k + 1 \in T
  <2> SUFFICES ASSUME k + 1 < n PROVE g[n - (k + 1)] <= n - (k + 1)
    OBVIOUS
  <2>1. n - k \in 1..n /\ n - (k + 1) \in 1..n /\ n - (k + 1) < n - k /\ k < n
    OBVIOUS
  <2>2. g[n - k] <= n - k /\ g[n - (k + 1)] < g[n - k]
    BY <1>4, <2>1
  <2>3. g[n - k] \in Int /\ g[n - (k + 1)] \in Int
    BY <1>1, <2>1
  <2> QED
    BY <2>2, <2>3
<1> HIDE DEF S, T
<1>5. Nat \subseteq S
  BY <1>2, <1>3, Induction
<1>6. Nat \subseteq T
  BY <1>2, <1>4, Induction
<1>7. ASSUME NEW a \in 1..n PROVE g[a] = a
  <2>1. a \in S /\ n - a \in T /\ n - a < n /\ n - (n - a) = a
    BY <1>5, <1>6
  <2>2. g[a] >= a /\ g[a] <= a
    BY <2>1 DEF S, T
  <2> QED
    BY <1>1, <2>2
<1> QED
  BY <1>7

\* The list of n files that are one for each of 1..n, as it must be when it puts
\* none before one that is less.
BothInOrder(n, fs, f, list, less) ==
    /\ n \in Nat /\ f \in [1..n -> fs] /\ list \in [1..n -> fs]
    /\ \A m \in fs : \E a \in 1..n : f[a] = m
    /\ \A a, b \in 1..n : a < b => <<f[a], f[b]>> \in less
    /\ \A a, b \in 1..n : a < b => list[a] # list[b] /\ <<list[b], list[a]>> \notin less

LEMMA OneOrder ==
    ASSUME NEW n, NEW fs, NEW f, NEW list, NEW less, BothInOrder(n, fs, f, list, less)
    PROVE  list = f
<1> USE DEF BothInOrder
<1> DEFINE g == [a \in 1..n |-> CHOOSE b \in 1..n : f[b] = list[a]]
<1>1. ASSUME NEW a \in 1..n PROVE g[a] \in 1..n /\ f[g[a]] = list[a]
  <2>1. \E b \in 1..n : f[b] = list[a]
    OBVIOUS
  <2> QED
    BY <2>1
<1>2. g \in [1..n -> 1..n]
  BY <1>1
<1> HIDE DEF g
<1>3. ASSUME NEW a \in 1..n, NEW b \in 1..n, a < b PROVE g[a] < g[b]
  <2>1. list[a] # list[b] /\ <<list[b], list[a]>> \notin less
    BY <1>3
  <2>2. g[a] # g[b]
    BY <1>1, <2>1
  <2>3. ASSUME g[b] < g[a] PROVE FALSE
    <3>1. g[a] \in 1..n /\ g[b] \in 1..n
      BY <1>2
    <3>2. <<f[g[b]], f[g[a]]>> \in less
      BY <2>3, <3>1
    <3> QED
      BY <1>1, <2>1, <3>2
  <2> QED
    BY <1>2, <2>2, <2>3
<1>4. \A a \in 1..n : g[a] = a
  BY <1>2, <1>3, Climbing
<1>5. \A a \in 1..n : list[a] = f[a]
  BY <1>1, <1>4
<1> QED
  BY <1>5

\* The records of a folder that no commit left unfinished.
LEMMA RecordsInOrder ==
    ASSUME HistoryInv, Increasing, FolderInv, ~cut, step = "closed", SameLength,
           NEW n, n = Len(commits), NEW f, f = [c \in 1..n |-> commits[c].mf],
           NEW fs, fs = {r.mf : r \in folder}
    PROVE  /\ n \in Nat /\ DOMAIN commits = 1..n /\ f \in [1..n -> fs]
           /\ \A m \in fs : \E c \in 1..n : f[c] = m
           /\ \A c \in 1..n : f[c] \in Recorded /\ f[c][Project].vers \in Nat \X Nat
           /\ \A b, c \in 1..n : b < c => VersBefore(f[b][Project].vers, f[c][Project].vers)
<1>1. commits \in Seq(ToSet(commits)) /\ n \in Nat /\ DOMAIN commits = 1..n
  BY LenProperties DEF HistoryInv, CommitsInv
<1>2. folder = {[mf |-> commits[c].mf, project |-> TRUE] : c \in 1..n}
  <2>1. Part = {}
    BY PartCases DEF PartIs
  <2> QED
    BY <2>1 DEF FolderInv, Whole
<1>3. /\ \A c \in 1..n : f[c] = commits[c].mf /\ f[c] \in fs
      /\ \A m \in fs : \E c \in 1..n : f[c] = m
  <2>1. \A c \in 1..n : f[c] = commits[c].mf
    OBVIOUS
  <2>2. ASSUME NEW c \in 1..n PROVE commits[c].mf \in fs
    <3>1. [mf |-> commits[c].mf, project |-> TRUE] \in folder
      BY <1>2
    <3> QED
      BY <3>1
  <2>3. ASSUME NEW m \in fs PROVE \E c \in 1..n : f[c] = m
    <3>1. PICK r \in folder : r.mf = m
      OBVIOUS
    <3>2. PICK c \in 1..n : r = [mf |-> commits[c].mf, project |-> TRUE]
      BY <1>2
    <3> QED
      BY <2>1, <3>1, <3>2
  <2> QED
    BY <2>1, <2>2, <2>3
<1>4. f \in [1..n -> fs]
  BY <1>3
<1>5. \A c \in 1..n : f[c] \in Recorded /\ f[c][Project].vers \in Nat \X Nat
  BY <1>3 DEF HistoryInv, CommitsInv, RecordsInv, Manifest, Entries, Entry
<1>6. ASSUME NEW b \in 1..n, NEW c \in 1..n, b < c
      PROVE  VersBefore(f[b][Project].vers, f[c][Project].vers)
  <2> DEFINE v == f[b][Project].vers
             w == f[c][Project].vers
  <2>1. v \in Nat \X Nat /\ w \in Nat \X Nat
    BY <1>5
  <2>2. NumLess(v, w)
    <3>1. b \in 1..(c - 1)
      BY <1>1, <1>6
    <3> QED
      BY <1>3, <3>1 DEF Increasing
  <2>3. /\ Len(Digits(v[1])) = Len(Digits(w[1]))
        /\ v[1] = w[1] => Len(Digits(v[2])) = Len(Digits(w[2]))
    BY <1>1, <1>3 DEF SameLength
  <2> HIDE DEF v, w
  <2>4. VersBefore(v, w)
    BY <2>1, <2>2, <2>3, LessIsBefore
  <2> QED
    BY <2>4 DEF v, w
<1> QED
  BY <1>1, <1>3, <1>4, <1>5, <1>6

LEMMA VersBeforeOrders ==
    ASSUME NEW v \in Nat \X Nat, NEW w \in Nat \X Nat
    PROVE  ~VersBefore(v, v) /\ ~(VersBefore(v, w) /\ VersBefore(w, v))
<1>1. VersText(v) \in Seq(Int) /\ VersText(w) \in Seq(Int)
  BY VersTextType
<1> QED
  BY <1>1, VersBeforeDef, BeforeOrders

LEMMA HistoryInvReads == HistoryInv /\ Increasing /\ FolderInv => ReadsBack
<1> SUFFICES ASSUME HistoryInv, Increasing, FolderInv, step = "closed", ~cut, SameLength
             PROVE  Readable /\ Sorted(folder) = [c \in DOMAIN commits |-> commits[c].mf]
  BY DEF ReadsBack
<1> DEFINE n == Len(commits)
           f == [c \in 1..n |-> commits[c].mf]
           fs == {r.mf : r \in folder}
           less == {p \in fs \X fs : VersBefore(p[1][Project].vers, p[2][Project].vers)}
           InOrder(l) == \A a, b \in 1..n : a < b =>
                             l[a] # l[b] /\ ~VersBefore(l[b][Project].vers, l[a][Project].vers)
<1> HIDE DEF n, f, fs, less
<1>1. /\ n \in Nat /\ DOMAIN commits = 1..n /\ f \in [1..n -> fs]
      /\ \A m \in fs : \E c \in 1..n : f[c] = m
      /\ \A c \in 1..n : f[c] \in Recorded /\ f[c][Project].vers \in Nat \X Nat
      /\ \A b, c \in 1..n : b < c => VersBefore(f[b][Project].vers, f[c][Project].vers)
  BY RecordsInOrder DEF n, f, fs
<1>2. ASSUME NEW b \in 1..n, NEW c \in 1..n, b < c
      PROVE  f[b] # f[c] /\ ~VersBefore(f[c][Project].vers, f[b][Project].vers)
  <2> DEFINE v == f[b][Project].vers
             w == f[c][Project].vers
  <2>1. v \in Nat \X Nat /\ w \in Nat \X Nat /\ VersBefore(v, w)
    BY <1>1, <1>2
  <2>2. f[b] = f[c] => v = w
    OBVIOUS
  <2> HIDE DEF v, w
  <2>3. v # w /\ ~VersBefore(w, v)
    BY <2>1, VersBeforeOrders
  <2> QED
    BY <2>2, <2>3 DEF v, w
<1>3. ASSUME NEW a \in 1..n, NEW b \in 1..n, f[a] = f[b] PROVE a = b
  BY <1>1, <1>2, <1>3
<1>4. Cardinality(fs) = n
  <2>1. Cardinality({f[c] : c \in 1..n}) = n
    <3>1. \A a, b \in 1..n : f[a] = f[b] => a = b
      BY <1>3
    <3>2. n \in Nat /\ f \in [1..n -> fs]
      BY <1>1
    <3> QED
      BY <3>1, <3>2, ImageSize
  <2>2. {f[c] : c \in 1..n} = fs
    BY <1>1
  <2> QED
    BY <2>1, <2>2
<1>5. Sorted(folder) = f
  <2>1. Sorted(folder) = CHOOSE l \in [1..n -> fs] : InOrder(l)
    BY <1>4 DEF Sorted, fs
  <2>2. f \in [1..n -> fs] /\ InOrder(f)
    BY <1>1, <1>2
  <2> HIDE DEF InOrder
  <2>3. Sorted(folder) \in [1..n -> fs] /\ InOrder(Sorted(folder))
    BY <2>1, <2>2
  <2>4. PICK l \in [1..n -> fs] : l = Sorted(folder) /\ InOrder(l)
    BY <2>3
  <2>5. \A a, b \in 1..n : a < b => <<f[a], f[b]>> \in less
    BY <1>1 DEF less
  <2>6. \A a, b \in 1..n : a < b => l[a] # l[b] /\ <<l[b], l[a]>> \notin less
    BY <2>4 DEF less, InOrder
  <2>7. BothInOrder(n, fs, f, l, less)
    BY <1>1, <2>5, <2>6 DEF BothInOrder
  <2>8. l = f
    BY <2>7, OneOrder
  <2> QED
    BY <2>4, <2>8
<1>6. Readable
  <2>1. \A r \in folder : r.mf \in Recorded
    BY <1>1 DEF fs
  <2>2. ASSUME folder # {}
        PROVE  mfile \notin {NoFile, << >>} /\ mfile[Project].vers = LastOf(folder)[Project].vers
    <3>1. n \in 1..n /\ commits # << >> /\ f[n] = commits[n].mf
      <4>1. PICK m \in fs : TRUE
        BY <2>2 DEF fs
      <4>2. 1..n # {}
        BY <1>1, <4>1
      <4> QED
        BY <1>1, <4>2 DEF f, n
    <3>2. mfile = f[n]
      BY <3>1 DEF FolderInv, n
    <3>3. mfile # NoFile /\ mfile # << >>
      <4>1. mfile \in Recorded /\ Project \in DOMAIN mfile
        BY <1>1, <3>1, <3>2 DEF HistoryInv, RecordsInv, Manifest
      <4> QED
        BY <4>1 DEF Recorded
    <3>4. ASSUME NEW a \in 1..n
          PROVE  ~VersBefore(f[n][Project].vers, f[a][Project].vers)
      <4>1. a < n \/ a = n
        BY <1>1
      <4> QED
        BY <1>1, <1>2, <3>1, <4>1, VersBeforeOrders
    <3>5. f[n] \in fs /\ \A o \in fs : ~VersBefore(f[n][Project].vers, o[Project].vers)
      BY <1>1, <3>1, <3>4
    <3>6. LastOf(folder) = CHOOSE m \in fs : \A o \in fs : ~VersBefore(m[Project].vers, o[Project].vers)
      BY <2>2 DEF LastOf, fs
    <3>7. /\ LastOf(folder) \in fs
          /\ \A o \in fs : ~VersBefore(LastOf(folder)[Project].vers, o[Project].vers)
      BY <3>5, <3>6
    <3>8. PICK a \in 1..n : f[a] = LastOf(folder)
      BY <1>1, <3>7
    <3>9. ~(a < n)
      BY <1>1, <3>1, <3>5, <3>7, <3>8
    <3>10. a = n
      BY <1>1, <3>9
    <3> QED
      BY <3>2, <3>3, <3>8, <3>10
  <2> QED
    BY <2>1, <2>2 DEF Readable, Recorded
<1> QED
  BY <1>1, <1>5, <1>6 DEF f

\* What was committed is read back in the order it was committed in, unless a later
\* commit was interrupted or a number of the version got another digit
\* (history.go:40-118): every definition, any base and any number of commits.
THEOREM CommitsReadBack == HistorySpec => []ReadsBack
<1>1. HistoryInit => Increasing /\ FolderInv
  <2> SUFFICES ASSUME HistoryInit PROVE Increasing /\ FolderInv
    OBVIOUS
  <2>1. commits = << >> /\ Len(commits) = 0 /\ folder = {} /\ step = "closed"
    BY EmptySeq DEF HistoryInit
  <2>2. Part = {}
    BY <2>1, PartCases DEF PartIs
  <2>3. 1..Len(commits) = {}
    BY <2>1
  <2>4. Whole = {}
    BY <2>3 DEF Whole
  <2> QED
    BY <2>1, <2>2, <2>3, <2>4 DEF Increasing, FolderInv
<1>2. HistoryInv /\ Increasing /\ FolderInv /\ [HistoryNext]_historyVars
         => HistoryInv' /\ Increasing' /\ FolderInv'
  BY HistoryNextInv, IncreasingStep, FolderStep
<1> QED
  BY <1>1, <1>2, HistoryInitInv, HistoryInvReads, PTL DEF HistorySpec

-----------------------------------------------------------------------------
(* One time tokens. *)

LEMMA WidthType == Width \in Nat \ {0}
<1> DEFINE P == Nat \ {0}
           H == [n \in 1..DayBits |-> [v \in P |-> 2 * v]]
           table(f) == [n \in 0..DayBits |-> IF n = 0 THEN 1 ELSE 2 * f[n - 1]]
<1>1. DayBits \in Nat
  BY DaysAssumption
<1>2. H \in [1..DayBits -> [P -> P]] /\ 1 \in P
  OBVIOUS
<1>3. PICK f : Recurses(f, DayBits, P, 1, H)
  <2> HIDE DEF H, P
  <2> QED
    BY <1>1, <1>2, Recursion
<1>4. f = table(f)
  <2>1. DOMAIN f = 0..DayBits /\ f = [n \in 0..DayBits |-> f[n]]
    BY <1>3 DEF Recurses
  <2>2. f[0] = 1 /\ \A n \in 1..DayBits : f[n] = 2 * f[n - 1]
    <3>1. \A n \in 1..DayBits : \A v \in P : H[n][v] = 2 * v
      OBVIOUS
    <3>2. \A n \in 1..DayBits : n - 1 \in 0..DayBits
      BY <1>1
    <3> HIDE DEF H, P
    <3>3. f \in [0..DayBits -> P] /\ f[0] = 1 /\ \A n \in 1..DayBits : f[n] = H[n][f[n - 1]]
      BY <1>3 DEF Recurses
    <3> QED
      BY <3>1, <3>2, <3>3
  <2>3. \A n \in 0..DayBits : n = 0 \/ n \in 1..DayBits
    BY <1>1
  <2> QED
    BY <1>1, <2>1, <2>2, <2>3
<1>5. PICK pow : pow = table(pow) /\ Width = pow[DayBits]
  BY <1>4 DEF Width
<1>6. \A n \in Nat : n <= DayBits => pow[n] \in P
  <2> DEFINE S == {n \in Nat : n <= DayBits => pow[n] \in P}
  <2>1. 0 \in S
    BY <1>1, <1>5
  <2>2. ASSUME NEW n \in Nat, n \in S PROVE n + 1 \in S
    <3>1. SUFFICES ASSUME n + 1 <= DayBits PROVE pow[n + 1] \in P
      OBVIOUS
    <3>2. n + 1 \in 0..DayBits /\ n + 1 # 0 /\ (n + 1) - 1 = n /\ pow[n] \in P
      BY <1>1, <2>2, <3>1
    <3>3. pow[n + 1] = 2 * pow[n]
      BY <1>5, <3>2
    <3> QED
      BY <3>2, <3>3
  <2> HIDE DEF S
  <2>3. Nat \subseteq S
    BY <2>1, <2>2, Induction
  <2> QED
    BY <2>3 DEF S
<1> QED
  BY <1>1, <1>5, <1>6

\* What is left modulo w is the one number below w that differs by a multiple.
LEMMA Remainder ==
    ASSUME NEW w \in Nat \ {0}, NEW q \in Int, NEW r \in 0..(w - 1)
    PROVE  (w * q + r) % w = r
<1> DEFINE a == w * q + r
           m == a % w
           d == a \div w
<1>1. a \in Int
  OBVIOUS
<1>2. m \in 0..(w - 1) /\ d \in Int /\ a = w * d + m
  BY <1>1
<1> HIDE DEF m, d
<1>3. w * (d - q) = r - m
  BY <1>2
<1>4. \A k \in Int : w * k < w /\ w * k > 0 - w => k = 0
  <2> TAKE k \in Int
  <2>1. k >= 1 => w * k >= w
    OBVIOUS
  <2>2. k <= 0 - 1 => w * k <= 0 - w
    OBVIOUS
  <2> QED
    BY <2>1, <2>2
<1>5. d - q = 0
  BY <1>2, <1>3, <1>4
<1> QED
  BY <1>2, <1>3, <1>5 DEF m

\* Twice truncated is as good as once.
LEMMA DaysApart ==
    ASSUME NEW a \in Int, NEW b \in Int
    PROVE  Days(Days(a) - Days(b)) = Days(a - b)
<1> DEFINE w == Width
<1>1. w \in Nat \ {0}
  BY WidthType
<1>2. \A x \in Int : x % w \in 0..(w - 1) /\ x \div w \in Int /\ x = w * (x \div w) + (x % w)
  BY <1>1
<1> DEFINE d == a - b
           q == (d \div w) + (b \div w) - (a \div w)
           r == d % w
<1> HIDE DEF w
<1>3. q \in Int /\ r \in 0..(w - 1) /\ (a % w) - (b % w) = w * q + r
  BY <1>1, <1>2
<1> HIDE DEF q, r
<1>4. (w * q + r) % w = r
  BY <1>1, <1>3, Remainder
<1> QED
  BY <1>3, <1>4 DEF Days, r, w

\* A token is valid on its day and as many days after as the host allows, for
\* any width of a day, and on no other day less than that width away.
THEOREM TokensExpire == DaysInit => ValidDays
<1> SUFFICES ASSUME DaysInit, now - made \in (timeout - Width + 1)..(Width - 1)
             PROVE  Validate(Days(made), Days(now)) <=> now - made \in 0..timeout
  BY DEF ValidDays
<1> DEFINE w == Width
           d == now - made
<1>1. /\ w \in Nat \ {0} /\ now \in Int /\ made \in Int /\ d \in Int
      /\ timeout \in 0..(w - 1) /\ d \in (timeout - w + 1)..(w - 1)
  BY WidthType, DaysAssumption DEF DaysInit
<1>2. Validate(Days(made), Days(now)) <=> d % w <= timeout
  BY <1>1, DaysApart DEF Validate, Days
<1> HIDE DEF w, d
<1>3. CASE d >= 0
  <2>1. d % w = d
    <3>1. (w * 0 + d) % w = d
      BY <1>1, <1>3, Remainder
    <3> QED
      BY <1>1, <3>1
  <2> QED
    BY <1>1, <1>2, <1>3, <2>1 DEF d
<1>4. CASE d < 0
  <2>1. d % w = d + w
    <3>1. d + w \in 0..(w - 1) /\ 0 - 1 \in Int /\ w * (0 - 1) + (d + w) = d
      BY <1>1, <1>4
    <3>2. (w * (0 - 1) + (d + w)) % w = d + w
      BY <1>1, <3>1, Remainder
    <3> QED
      BY <3>1, <3>2
  <2> QED
    BY <1>1, <1>2, <1>4, <2>1 DEF d
<1> QED
  BY <1>1, <1>3, <1>4

-----------------------------------------------------------------------------
(* Merged actions. *)

KeyVals == [f : Fields, v : Vals]
OneEach(d) == \A a, b \in 1..Len(d) : d[a].f = d[b].f => a = b
Delta == {d \in Seq(KeyVals) : OneEach(d)}

LEMMA DeltasAre == Deltas \subseteq Delta
<1> SUFFICES ASSUME NEW d \in Deltas PROVE d \in Delta
  OBVIOUS
<1>1. PICK n \in 0..Cardinality(Fields) : d \in [1..n -> KeyVals]
  BY DEF Deltas, KeyVals
<1>2. n \in Nat
  BY FS_CardinalityType, MergeAssumption
<1>3. d \in Seq(KeyVals) /\ DOMAIN d = 1..Len(d)
  BY <1>1, <1>2, FunctionIsList
<1> QED
  BY <1>3 DEF Deltas, Delta, OneEach

\* The fields a delta names have its values, the others stay.
LEMMA WrittenIs ==
    ASSUME NEW d \in Delta, NEW r
    PROVE  /\ DOMAIN Written(r, d) = Fields
           /\ \A a \in 1..Len(d) : Written(r, d)[d[a].f] = d[a].v
           /\ \A x \in Fields : (\A a \in 1..Len(d) : d[a].f # x) => Written(r, d)[x] = r[x]
<1>1. DOMAIN d = 1..Len(d) /\ \A a \in 1..Len(d) : d[a] \in KeyVals
  BY LenProperties, ElementOfSeq DEF Delta
<1>2. ASSUME NEW a \in 1..Len(d) PROVE Written(r, d)[d[a].f] = d[a].v
  <2> DEFINE x == d[a].f
             c == CHOOSE pos \in DOMAIN d : d[pos].f = x
  <2>1. c \in 1..Len(d) /\ d[c].f = x
    BY <1>1
  <2>2. c = a
    BY <2>1 DEF Delta, OneEach
  <2>3. x \in Fields /\ Written(r, d)[x] = d[c].v
    BY <1>1 DEF Written, KeyVals
  <2> QED
    BY <2>2, <2>3
<1>3. ASSUME NEW x \in Fields, \A a \in 1..Len(d) : d[a].f # x
      PROVE  Written(r, d)[x] = r[x]
  BY <1>1, <1>3 DEF Written
<1> QED
  BY <1>2, <1>3 DEF Written

LEMMA WrittenType ==
    ASSUME NEW d \in Delta, NEW r \in Records
    PROVE  Written(r, d) \in Records
<1>1. \A a \in 1..Len(d) : d[a] \in KeyVals
  BY ElementOfSeq DEF Delta
<1>2. ASSUME NEW x \in Fields PROVE Written(r, d)[x] \in Vals \cup {Zero}
  <2>1. CASE \E a \in 1..Len(d) : d[a].f = x
    BY <1>1, <2>1, WrittenIs DEF KeyVals
  <2>2. CASE \A a \in 1..Len(d) : d[a].f # x
    BY <2>2, WrittenIs DEF Records
  <2> QED
    BY <2>1, <2>2
<1>3. Written(r, d) = [x \in Fields |-> Written(r, d)[x]]
  BY DEF Written
<1> QED
  BY <1>2, <1>3 DEF Records

\* A set key has its value, every other field what it had.
LEMMA SetKeyIs ==
    ASSUME NEW arg \in Delta, NEW kv \in KeyVals
    PROVE  /\ SetKey(arg, kv) \in Delta
           /\ \A r : /\ Written(r, SetKey(arg, kv))[kv.f] = kv.v
                     /\ \A x \in Fields \ {kv.f} :
                            Written(r, SetKey(arg, kv))[x] = Written(r, arg)[x]
<1> DEFINE s == SetKey(arg, kv)
<1>1. /\ arg \in Seq(KeyVals) /\ DOMAIN arg = 1..Len(arg) /\ Len(arg) \in Nat
      /\ \A a \in 1..Len(arg) : arg[a] \in KeyVals
      /\ \A a, b \in 1..Len(arg) : arg[a].f = arg[b].f => a = b
  BY LenProperties, ElementOfSeq DEF Delta, OneEach
<1>2. CASE \E a \in 1..Len(arg) : arg[a].f = kv.f
  <2>1. s = [a \in 1..Len(arg) |-> IF arg[a].f = kv.f THEN kv ELSE arg[a]]
    BY <1>1, <1>2 DEF SetKey
  <2> HIDE DEF s
  <2>2. s \in Seq(KeyVals) /\ Len(s) = Len(arg)
    BY <1>1, <2>1, FunctionIsList
  <2>3. \A a \in 1..Len(s) : s[a].f = arg[a].f /\ s[a] = IF arg[a].f = kv.f THEN kv ELSE arg[a]
    BY <2>1, <2>2
  <2>4. s \in Delta
    BY <1>1, <2>2, <2>3 DEF Delta, OneEach
  <2>5. ASSUME NEW r
        PROVE  /\ Written(r, s)[kv.f] = kv.v
               /\ \A x \in Fields \ {kv.f} : Written(r, s)[x] = Written(r, arg)[x]
    <3>1. Written(r, s)[kv.f] = kv.v
      BY <1>2, <2>2, <2>3, <2>4, WrittenIs
    <3>2. ASSUME NEW x \in Fields \ {kv.f} PROVE Written(r, s)[x] = Written(r, arg)[x]
      <4>1. CASE \E a \in 1..Len(arg) : arg[a].f = x
        BY <2>2, <2>3, <2>4, <4>1, WrittenIs
      <4>2. CASE \A a \in 1..Len(arg) : arg[a].f # x
        <5>1. Written(r, arg)[x] = r[x]
          BY <4>2, WrittenIs
        <5>2. Written(r, s)[x] = r[x]
          BY <2>2, <2>3, <2>4, <4>2, WrittenIs
        <5> QED
          BY <5>1, <5>2
      <4> QED
        BY <4>1, <4>2
    <3> QED
      BY <3>1, <3>2
  <2> QED
    BY <2>4, <2>5 DEF s
<1>3. CASE \A a \in 1..Len(arg) : arg[a].f # kv.f
  <2>1. s = Append(arg, kv)
    BY <1>1, <1>3 DEF SetKey
  <2> HIDE DEF s
  <2>2. /\ s \in Seq(KeyVals) /\ Len(s) = Len(arg) + 1 /\ s[Len(s)] = kv
        /\ \A a \in 1..Len(arg) : s[a] = arg[a]
    BY <1>1, <2>1, AppendProperties
  <2>3. \A a \in 1..Len(s) : a \in 1..Len(arg) \/ a = Len(s)
    BY <1>1, <2>2
  <2>4. s \in Delta
    BY <1>1, <1>3, <2>2, <2>3 DEF Delta, OneEach
  <2>5. ASSUME NEW r
        PROVE  /\ Written(r, s)[kv.f] = kv.v
               /\ \A x \in Fields \ {kv.f} : Written(r, s)[x] = Written(r, arg)[x]
    <3>1. Len(s) \in 1..Len(s) /\ \A a \in 1..Len(arg) : a \in 1..Len(s)
      BY <1>1, <2>2
    <3>2. Written(r, s)[kv.f] = kv.v
      BY <2>2, <2>4, <3>1, WrittenIs
    <3>3. ASSUME NEW x \in Fields \ {kv.f} PROVE Written(r, s)[x] = Written(r, arg)[x]
      <4>1. CASE \E a \in 1..Len(arg) : arg[a].f = x
        BY <2>2, <2>4, <3>1, <4>1, WrittenIs
      <4>2. CASE \A a \in 1..Len(arg) : arg[a].f # x
        <5>1. \A a \in 1..Len(s) : s[a].f # x
          BY <2>2, <2>3, <4>2
        <5>2. Written(r, arg)[x] = r[x]
          BY <4>2, WrittenIs
        <5>3. Written(r, s)[x] = r[x]
          BY <2>4, <5>1, WrittenIs
        <5> QED
          BY <5>2, <5>3
      <4> QED
        BY <4>1, <4>2
    <3> QED
      BY <3>2, <3>3
  <2> QED
    BY <2>4, <2>5 DEF s
<1> QED
  BY <1>2, <1>3

\* Writing what was applied is writing the argument and then the delta.
LEMMA AppliedIs ==
    ASSUME NEW arg \in Delta, NEW d \in Delta
    PROVE  /\ Applied(arg, d) \in Delta
           /\ \A r : Written(r, Applied(arg, d)) = Written(Written(r, arg), d)
<1> DEFINE N == Len(d)
           H == [n \in 1..N |-> [s \in Delta |-> SetKey(s, d[n])]]
           table(f) == [n \in 0..N |-> IF n = 0 THEN arg ELSE SetKey(f[n - 1], d[n])]
<1>1. N \in Nat /\ d \in Seq(KeyVals) /\ \A n \in 1..N : d[n] \in KeyVals
  BY LenProperties, ElementOfSeq DEF Delta
<1>2. H \in [1..N -> [Delta -> Delta]] /\ \A n \in 1..N : \A s \in Delta : H[n][s] = SetKey(s, d[n])
  BY <1>1, SetKeyIs
<1> HIDE DEF N, H
<1>3. PICK f : Recurses(f, N, Delta, arg, H)
  BY <1>1, <1>2, Recursion
<1>4. f = table(f)
  <2>1. f = [n \in 0..N |-> f[n]] /\ \A n \in 0..N : f[n] \in Delta
    BY <1>3 DEF Recurses
  <2>2. \A n \in 1..N : n - 1 \in 0..N /\ f[n] = H[n][f[n - 1]]
    BY <1>1, <1>3 DEF Recurses
  <2>3. \A n \in 0..N : f[n] = IF n = 0 THEN arg ELSE SetKey(f[n - 1], d[n])
    <3>1. f[0] = arg
      BY <1>3 DEF Recurses
    <3>2. \A n \in 1..N : f[n] = SetKey(f[n - 1], d[n])
      BY <1>2, <2>1, <2>2
    <3>3. \A n \in 0..N : n = 0 \/ (n # 0 /\ n \in 1..N)
      <4>1. N \in Nat
        BY <1>1
      <4> QED
        BY <4>1
    <3> QED
      BY <3>1, <3>2, <3>3
  <2> QED
    BY <2>1, <2>3
<1>5. PICK set : set = table(set) /\ Applied(arg, d) = set[N]
  BY <1>4 DEF Applied, N
<1>6. set[0] = arg /\ \A n \in 1..N : set[n] = SetKey(set[n - 1], d[n])
  BY <1>1, <1>5
<1> HIDE DEF table
<1> DEFINE Good(n) ==
             /\ set[n] \in Delta
             /\ \A r : \A x \in Fields :
                   /\ \A a \in 1..n : d[a].f = x => Written(r, set[n])[x] = d[a].v
                   /\ (\A a \in 1..n : d[a].f # x) => Written(r, set[n])[x] = Written(r, arg)[x]
           S == {n \in Nat : n <= N => Good(n)}
<1>7. 0 \in S
  BY <1>6
<1>8. ASSUME NEW n \in Nat, n \in S PROVE n + 1 \in S
  <2>1. SUFFICES ASSUME n + 1 <= N PROVE Good(n + 1)
    OBVIOUS
  <2> DEFINE m == n + 1
  <2>2. Good(n) /\ m \in 1..N /\ m - 1 = n /\ d[m] \in KeyVals
    BY <1>1, <1>8, <2>1
  <2>3. set[m] = SetKey(set[n], d[m])
    BY <1>6, <2>2
  <2>4. \A a \in 1..m : a \in 1..n \/ a = m
    OBVIOUS
  <2>5. m \in 1..m /\ 1..n \subseteq 1..m /\ \A a \in 1..n : a \in 1..N /\ a # m
    BY <1>1, <2>2
  <2> HIDE DEF m
  <2>6. /\ set[m] \in Delta
        /\ \A r : /\ Written(r, set[m])[d[m].f] = d[m].v
                  /\ \A x \in Fields \ {d[m].f} : Written(r, set[m])[x] = Written(r, set[n])[x]
    <3>1. set[n] \in Delta
      BY <2>2
    <3> QED
      BY <2>2, <2>3, <3>1, SetKeyIs
  <2>7. ASSUME NEW r, NEW x \in Fields
        PROVE  /\ \A a \in 1..m : d[a].f = x => Written(r, set[m])[x] = d[a].v
               /\ (\A a \in 1..m : d[a].f # x) => Written(r, set[m])[x] = Written(r, arg)[x]
    <3>1. CASE x = d[m].f
      <4>1. \A a \in 1..m : d[a].f = x => a = m
        <5>1. \A a, b \in 1..N : d[a].f = d[b].f => a = b
          BY DEF Delta, OneEach, N
        <5> QED
          BY <2>2, <2>4, <2>5, <3>1, <5>1
      <4> QED
        BY <2>5, <2>6, <3>1, <4>1
    <3>2. CASE x # d[m].f
      BY <2>2, <2>4, <2>5, <2>6, <3>2
    <3> QED
      BY <3>1, <3>2
  <2>8. Good(m)
    BY <2>6, <2>7
  <2> QED
    BY <2>8 DEF m
<1> HIDE DEF S
<1>9. Nat \subseteq S
  BY <1>7, <1>8, Induction
<1>10. Good(N)
  <2>1. N \in S /\ N <= N
    BY <1>1, <1>9
  <2> QED
    BY <2>1 DEF S
<1>11. ASSUME NEW r PROVE Written(r, set[N]) = Written(Written(r, arg), d)
  <2> DEFINE u == Written(r, arg)
             l == Written(r, set[N])
             w == Written(u, d)
  <2>1. DOMAIN l = Fields /\ DOMAIN w = Fields /\ l = [x \in Fields |-> l[x]] /\ w = [x \in Fields |-> w[x]]
    BY DEF Written
  <2>2. /\ \A a \in 1..N : w[d[a].f] = d[a].v
        /\ \A x \in Fields : (\A a \in 1..N : d[a].f # x) => w[x] = u[x]
    <3> HIDE DEF u
    <3> QED
      BY WrittenIs DEF N
  <2>3. \A x \in Fields : /\ \A a \in 1..N : d[a].f = x => l[x] = d[a].v
                          /\ (\A a \in 1..N : d[a].f # x) => l[x] = u[x]
    BY <1>10
  <2> HIDE DEF l, w, u
  <2>4. \A x \in Fields : l[x] = w[x]
    BY <2>2, <2>3
  <2> QED
    BY <2>1, <2>4 DEF l, w, u
<1> QED
  BY <1>5, <1>10, <1>11

\* By position: a delta that names the fields the other begins with.
LEMMA MergedDeltas ==
    ASSUME NEW p \in Delta, NEW q \in Delta, IsPrefix(Names(q), Names(p))
    PROVE  /\ Len(q) <= Len(p) /\ MergeDeltas(p, q) \in Delta
           /\ \A r : Written(r, MergeDeltas(p, q)) = Written(Written(r, p), q)
<1> DEFINE m == [pos \in DOMAIN p |-> IF pos <= Len(q) THEN q[pos] ELSE p[pos]]
<1>1. /\ p \in Seq(KeyVals) /\ DOMAIN p = 1..Len(p) /\ Len(p) \in Nat
      /\ q \in Seq(KeyVals) /\ DOMAIN q = 1..Len(q) /\ Len(q) \in Nat
      /\ OneEach(p) /\ OneEach(q)
      /\ \A pos \in 1..Len(p) : p[pos] \in KeyVals
      /\ \A j \in 1..Len(q) : q[j] \in KeyVals
  BY LenProperties, ElementOfSeq DEF Delta
<1>2. Len(q) <= Len(p) /\ \A pos \in 1..Len(q) : pos \in 1..Len(p) /\ q[pos].f = p[pos].f
  <2>1. /\ Names(p) \in Seq(Fields) /\ Len(Names(p)) = Len(p)
        /\ Names(q) \in Seq(Fields) /\ Len(Names(q)) = Len(q)
    <3>1. Names(p) \in [1..Len(p) -> Fields] /\ Names(q) \in [1..Len(q) -> Fields]
      BY <1>1 DEF Names, KeyVals
    <3> QED
      BY <1>1, <3>1, FunctionIsList
  <2>2. Len(q) <= Len(p) /\ SubSeq(Names(q), 1, Len(q)) = SubSeq(Names(p), 1, Len(q))
    BY <2>1 DEF IsPrefix
  <2>3. \A pos \in 1..Len(q) : Names(q)[pos] = Names(p)[pos]
    BY <1>1, <2>1, <2>2
  <2>4. \A pos \in 1..Len(q) : pos \in 1..Len(p)
    BY <1>1, <2>2
  <2> QED
    BY <1>1, <2>2, <2>3, <2>4 DEF Names
<1>3. MergeDeltas(p, q) = m
  BY DEF MergeDeltas
<1>4. m \in [1..Len(p) -> KeyVals]
  BY <1>1, <1>2
<1>5. /\ m \in Seq(KeyVals) /\ Len(m) = Len(p)
      /\ \A pos \in 1..Len(p) : m[pos] = (IF pos <= Len(q) THEN q[pos] ELSE p[pos]) /\ m[pos].f = p[pos].f
  BY <1>1, <1>2, <1>4, FunctionIsList
<1> HIDE DEF m
<1>6. m \in Delta
  BY <1>1, <1>5 DEF Delta, OneEach
<1>7. ASSUME NEW r PROVE Written(r, m) = Written(Written(r, p), q)
  <2> DEFINE u == Written(r, p)
             l == Written(r, m)
             w == Written(u, q)
  <2>1. l = [x \in Fields |-> l[x]] /\ w = [x \in Fields |-> w[x]]
    BY DEF Written
  <2>2. /\ \A pos \in 1..Len(q) : w[q[pos].f] = q[pos].v
        /\ \A x \in Fields : (\A pos \in 1..Len(q) : q[pos].f # x) => w[x] = u[x]
    <3> HIDE DEF u
    <3> QED
      BY WrittenIs
  <2>3. /\ \A pos \in 1..Len(p) : u[p[pos].f] = p[pos].v
        /\ \A x \in Fields : (\A pos \in 1..Len(p) : p[pos].f # x) => u[x] = r[x]
    BY WrittenIs
  <2>4. /\ \A pos \in 1..Len(m) : l[m[pos].f] = m[pos].v
        /\ \A x \in Fields : (\A pos \in 1..Len(m) : m[pos].f # x) => l[x] = r[x]
    BY <1>6, WrittenIs
  <2> HIDE DEF l, w, u
  <2>5. ASSUME NEW x \in Fields PROVE l[x] = w[x]
    <3>1. CASE \E pos \in 1..Len(q) : q[pos].f = x
      <4>1. PICK pos \in 1..Len(q) : q[pos].f = x
        BY <3>1
      <4>2. pos \in 1..Len(p) /\ pos <= Len(q)
        BY <1>1, <1>2
      <4>3. m[pos] = q[pos] /\ pos \in 1..Len(m)
        BY <1>5, <4>2
      <4> QED
        BY <2>2, <2>4, <4>1, <4>3
    <3>2. CASE /\ \A pos \in 1..Len(q) : q[pos].f # x
               /\ \E pos \in 1..Len(p) : p[pos].f = x
      <4>1. PICK pos \in 1..Len(p) : p[pos].f = x
        BY <3>2
      <4>2. ~(pos <= Len(q))
        BY <1>1, <1>2, <3>2, <4>1
      <4>3. m[pos] = p[pos] /\ pos \in 1..Len(m)
        BY <1>5, <4>2
      <4> QED
        BY <2>2, <2>3, <2>4, <3>2, <4>1, <4>3
    <3>3. CASE \A pos \in 1..Len(p) : p[pos].f # x
      <4>1. \A pos \in 1..Len(q) : q[pos].f # x
        BY <1>2, <3>3
      <4>2. \A pos \in 1..Len(m) : m[pos].f # x
        BY <1>5, <3>3
      <4> QED
        BY <2>2, <2>3, <2>4, <3>3, <4>1, <4>2
    <3> QED
      BY <3>1, <3>2, <3>3
  <2> QED
    BY <2>1, <2>5 DEF l, w, u
<1> QED
  BY <1>2, <1>3, <1>6, <1>7

\* A record that is there is told from one that is not.
LEMMA PresentIs ==
    /\ \A r \in Records : r # Absent
    /\ \A r : \A d \in Delta : Written(r, d) # Absent
    /\ [f \in Fields |-> Zero] \in Records
<1>1. DOMAIN Absent = {} /\ Fields # {}
  BY MergeAssumption DEF Absent
<1>2. \A r \in Records : DOMAIN r = Fields
  BY DEF Records
<1>3. \A r : \A d \in Delta : DOMAIN Written(r, d) = Fields
  BY DEF Written
<1>4. [f \in Fields |-> Zero] \in Records
  BY DEF Records
<1> QED
  BY <1>1, <1>2, <1>3, <1>4

LEMMA ActionsAre ==
    ASSUME NEW a \in Actions
    PROVE  /\ a.arg \in Delta /\ a.cmd \in {"new", "mod", "del", "other"}
           /\ a = [sig |-> a.sig, cmd |-> a.cmd, arg |-> a.arg]
<1>1. << >> \in Delta
  BY EmptySeq DEF Delta, OneEach
<1> QED
  BY <1>1, DeltasAre DEF Actions

\* Merge of two actions is right wherever it can be: it refuses just those that can
\* not follow each other on one record, and does to that record what the two do, for
\* any signatures, fields and values and deltas of every length.
THEOREM MergeIsFaithful == MergeInit => MergeFaithful
<1> SUFFICES ASSUME MergeInit PROVE MergeFaithful
  OBVIOUS
<1> DEFINE a == first
           b == second
           m == Merge(a, b)
           zero == [f \in Fields |-> Zero]
           from == {r \in Records \cup {Absent} : Follow(a, b, r)}
           Same == Mergeable(a, b) =>
                      \A r \in from : m.sig = a.sig /\ After(m, r) = After(b, After(a, r))
           Cmds == {"new", "mod", "del", "other"}
<1>1. /\ a.arg \in Delta /\ b.arg \in Delta /\ a.cmd \in Cmds /\ b.cmd \in Cmds
      /\ a = [sig |-> a.sig, cmd |-> a.cmd, arg |-> a.arg]
      /\ b = [sig |-> b.sig, cmd |-> b.cmd, arg |-> b.arg]
  BY ActionsAre DEF MergeInit
<1>2. /\ \A r \in Records : r # Absent
      /\ \A r : Written(r, a.arg) # Absent /\ Written(r, b.arg) # Absent
      /\ zero \in Records
  BY <1>1, PresentIs
<1> SUFFICES (m = Refused <=> from = {}) /\ Same
  BY DEF MergeFaithful
<1> HIDE DEF a, b
<1>3. CASE a.sig = b.sig /\ a.cmd = "del" /\ b.cmd = "new"
  <2>1. m = [sig |-> a.sig, cmd |-> "mod", arg |-> b.arg]
    BY <1>1, <1>3 DEF Merge
  <2>2. m # Refused
    BY <2>1 DEF Refused
  <2>3. zero \in from
    BY <1>2, <1>3 DEF Follow, Fits, After
  <2>4. Same
    <3> SUFFICES ASSUME ToSet(Names(b.arg)) = Fields, NEW r \in from
                 PROVE  After(m, r) = After(b, After(a, r))
      BY <1>3, <2>1 DEF Mergeable
    <3>1. r # Absent /\ After(a, r) = Absent
      BY <1>3 DEF Follow, Fits, After
    <3>2. After(b, Absent) = Written(zero, b.arg)
      BY <1>3 DEF After, Fits
    <3>3. After(m, r) = Written(r, b.arg)
      BY <2>1, <3>1 DEF After, Fits
    <3>4. \A x \in Fields : \E pos \in DOMAIN b.arg : b.arg[pos].f = x
      BY DEF ToSet, Names
    <3>5. Written(r, b.arg) = Written(zero, b.arg)
      BY <3>4 DEF Written
    <3> QED
      BY <3>1, <3>2, <3>3, <3>5
  <2> QED
    BY <2>2, <2>3, <2>4
<1>4. CASE a.sig = b.sig /\ a.cmd = "new" /\ b.cmd = "mod"
  <2>1. m = [sig |-> a.sig, cmd |-> "new", arg |-> Applied(a.arg, b.arg)]
    BY <1>1, <1>4 DEF Merge
  <2>2. m # Refused
    BY <2>1 DEF Refused
  <2>3. Absent \in from
    BY <1>2, <1>4 DEF Follow, Fits, After
  <2>4. Same
    <3> SUFFICES ASSUME NEW r \in from PROVE After(m, r) = After(b, After(a, r))
      BY <2>1
    <3>1. r = Absent /\ After(a, r) = Written(zero, a.arg)
      BY <1>4 DEF Follow, Fits, After
    <3>2. After(b, Written(zero, a.arg)) = Written(Written(zero, a.arg), b.arg)
      BY <1>2, <1>4 DEF After, Fits
    <3>3. After(m, r) = Written(zero, Applied(a.arg, b.arg))
      BY <2>1, <3>1 DEF After, Fits
    <3> QED
      BY <1>1, <3>1, <3>2, <3>3, AppliedIs
  <2> QED
    BY <2>2, <2>3, <2>4
<1>5. CASE a.sig = b.sig /\ a.cmd = "mod" /\ b.cmd = "mod"
  <2>1. m = IF Len(b.arg) > Len(a.arg) THEN Panics
            ELSE [sig |-> a.sig, cmd |-> "mod", arg |-> MergeDeltas(a.arg, b.arg)]
    BY <1>1, <1>5 DEF Merge
  <2>2. m # Refused
    BY <2>1 DEF Refused, Panics
  <2>3. zero \in from
    BY <1>2, <1>5 DEF Follow, Fits, After
  <2>4. Same
    <3> SUFFICES ASSUME IsPrefix(Names(b.arg), Names(a.arg)), NEW r \in from
                 PROVE  m.sig = a.sig /\ After(m, r) = After(b, After(a, r))
      BY <1>5 DEF Mergeable
    <3>1. r # Absent /\ After(a, r) = Written(r, a.arg)
      BY <1>5 DEF Follow, Fits, After
    <3>2. After(b, Written(r, a.arg)) = Written(Written(r, a.arg), b.arg)
      BY <1>2, <1>5 DEF After, Fits
    <3> DEFINE d == MergeDeltas(a.arg, b.arg)
    <3>5. Len(b.arg) <= Len(a.arg) /\ Written(r, d) = Written(Written(r, a.arg), b.arg)
      BY <1>1, MergedDeltas
    <3>6. Len(a.arg) \in Nat /\ Len(b.arg) \in Nat
      BY <1>1, LenProperties DEF Delta
    <3> HIDE DEF d
    <3>7. ~(Len(b.arg) > Len(a.arg))
      BY <3>5, <3>6
    <3>8. m = [sig |-> a.sig, cmd |-> "mod", arg |-> d]
      BY <2>1, <3>7 DEF d
    <3>3. m.sig = a.sig /\ m.cmd = "mod" /\ Written(r, m.arg) = Written(Written(r, a.arg), b.arg)
      BY <3>5, <3>8
    <3>4. After(m, r) = Written(r, m.arg)
      BY <3>1, <3>3 DEF After, Fits
    <3> QED
      BY <3>1, <3>2, <3>3, <3>4
  <2> QED
    BY <2>2, <2>3, <2>4
<1>6. CASE a.sig = b.sig /\ a.cmd \in {"new", "mod"} /\ b.cmd = "del"
  <2>1. m = b
    BY <1>6 DEF Merge
  <2>2. m # Refused
    BY <1>6, <2>1 DEF Refused
  <2>3. a.cmd = "new" => Absent \in from
    BY <1>2, <1>6 DEF Follow, Fits, After
  <2>4. a.cmd = "mod" => zero \in from
    BY <1>2, <1>6 DEF Follow, Fits, After
  <2>5. Same
    <3> SUFFICES ASSUME NEW r \in from PROVE After(m, r) = After(b, After(a, r))
      BY <1>6, <2>1
    <3>1. After(a, r) # Absent
      BY <1>1, <1>2, <1>6 DEF Follow, Fits, After
    <3>2. After(b, After(a, r)) = Absent
      BY <1>6, <3>1 DEF After, Fits
    <3>3. After(m, r) = Absent
      BY <1>6, <2>1 DEF After, Fits
    <3> QED
      BY <3>2, <3>3
  <2> QED
    BY <1>1, <1>6, <2>2, <2>3, <2>4, <2>5
<1>7. CASE \/ a.sig # b.sig \/ a.cmd = "other" \/ b.cmd = "other"
           \/ a.cmd = "del" /\ b.cmd # "new"
           \/ a.cmd # "del" /\ b.cmd = "new"
  <2>1. m = Refused
    BY <1>1, <1>7 DEF Merge
  <2>2. from = {}
    <3> SUFFICES ASSUME NEW r \in Records \cup {Absent}, Follow(a, b, r) PROVE FALSE
      OBVIOUS
    <3>1. CASE a.cmd = "del" /\ b.cmd # "new"
      BY <3>1 DEF Follow, Fits, After
    <3>2. CASE a.cmd # "del" /\ b.cmd = "new"
      BY <1>1, <1>2, <3>2 DEF Follow, Fits, After
    <3>3. CASE a.sig # b.sig \/ a.cmd = "other" \/ b.cmd = "other"
      BY <3>3 DEF Follow, Fits
    <3> QED
      BY <1>7, <3>1, <3>2, <3>3
  <2> QED
    BY <2>1, <2>2
<1> QED
  BY <1>1, <1>3, <1>4, <1>5, <1>6, <1>7

-----------------------------------------------------------------------------
(* The watches of a monitor. *)

\* s is how t begins.
IsStart(s, t) == Len(s) <= Len(t) /\ \A k \in 1..Len(s) : s[k] = t[k]

SigsSpec == SigsInit /\ [][SigsNext]_sigsVars

Sig   == [top : SigTopics, key : SigKeys]
Watch == [top : SigTopics, keys : Seq(SigKeys)]

\* The keys of a topic among the first n of s.
KeysTo(s, t, f) ==
    /\ f \in [0..Len(s) -> Seq(SigKeys)] /\ f[0] = << >>
    /\ \A n \in 1..Len(s) :
          f[n] = IF s[n].top = t THEN Append(f[n - 1], s[n].key) ELSE f[n - 1]

LEMMA KeysAre ==
    ASSUME NEW s \in Seq(Sig), NEW t
    PROVE  \E f : KeysTo(s, t, f) /\ KeysOf(s, t) = f[Len(s)]
<1> DEFINE N == Len(s)
           V == Seq(SigKeys)
           H == [n \in 1..N |-> [v \in V |-> IF s[n].top = t THEN Append(v, s[n].key) ELSE v]]
           table(f) == [n \in 0..N |-> IF n = 0 THEN << >>
                                      ELSE IF s[n].top = t THEN Append(f[n - 1], s[n].key)
                                      ELSE f[n - 1]]
<1>1. N \in Nat /\ \A n \in 1..N : s[n] \in Sig /\ s[n].key \in SigKeys
  <2>1. N \in Nat /\ \A n \in 1..N : s[n] \in Sig
    BY LenProperties, ElementOfSeq
  <2> QED
    BY <2>1 DEF Sig
<1>2. << >> \in V
  BY EmptySeq
<1>3. \A n \in 1..N : \A v \in V : Append(v, s[n].key) \in V
  BY <1>1, AppendProperties
<1>4. /\ H \in [1..N -> [V -> V]]
      /\ \A n \in 1..N : \A v \in V :
            H[n][v] = IF s[n].top = t THEN Append(v, s[n].key) ELSE v
  <2> HIDE DEF V
  <2> QED
    BY <1>3
<1> HIDE DEF N, H, V
<1>5. PICK f : Recurses(f, N, V, << >>, H)
  BY <1>1, <1>2, <1>4, Recursion
<1>6. f = table(f)
  <2>1. f = [n \in 0..N |-> f[n]] /\ \A n \in 0..N : f[n] \in V
    BY <1>5 DEF Recurses
  <2>2. \A n \in 1..N : n - 1 \in 0..N /\ f[n] = H[n][f[n - 1]]
    BY <1>1, <1>5 DEF Recurses
  <2>3. \A n \in 1..N : f[n] = IF s[n].top = t THEN Append(f[n - 1], s[n].key) ELSE f[n - 1]
    BY <1>4, <2>1, <2>2
  <2>4. f[0] = << >>
    BY <1>5 DEF Recurses
  <2>5. \A n \in 0..N : n = 0 \/ (n # 0 /\ n \in 1..N)
    <3>1. N \in Nat
      BY <1>1
    <3> QED
      BY <3>1
  <2>6. \A n \in 0..N : f[n] = IF n = 0 THEN << >>
                               ELSE IF s[n].top = t THEN Append(f[n - 1], s[n].key)
                               ELSE f[n - 1]
    BY <2>3, <2>4, <2>5
  <2> QED
    BY <2>1, <2>6
<1>7. PICK keys : keys = table(keys) /\ KeysOf(s, t) = keys[N]
  BY <1>6 DEF KeysOf, N
<1>8. /\ keys[0] = << >>
      /\ \A n \in 1..N : keys[n] = IF s[n].top = t THEN Append(keys[n - 1], s[n].key)
                                   ELSE keys[n - 1]
  <2>1. 0 \in 0..N /\ \A n \in 1..N : n \in 0..N /\ n # 0
    BY <1>1
  <2> QED
    BY <1>7, <2>1
<1>9. DOMAIN keys = 0..N
  BY <1>7
<1> HIDE DEF table
<1> DEFINE S == {n \in Nat : n <= N => keys[n] \in V}
<1>10. 0 \in S
  BY <1>2, <1>8
<1>11. ASSUME NEW n \in Nat, n \in S PROVE n + 1 \in S
  <2>1. SUFFICES ASSUME n + 1 <= N PROVE keys[n + 1] \in V
    OBVIOUS
  <2>2. n + 1 \in 1..N /\ (n + 1) - 1 = n /\ keys[n] \in V
    BY <1>1, <1>11, <2>1
  <2>3. keys[n + 1] = IF s[n + 1].top = t THEN Append(keys[n], s[n + 1].key) ELSE keys[n]
    BY <1>8, <2>2
  <2> QED
    BY <1>3, <2>2, <2>3
<1> HIDE DEF S
<1>12. Nat \subseteq S
  BY <1>10, <1>11, Induction
<1>13. \A n \in 0..N : keys[n] \in V
  BY <1>1, <1>12 DEF S
<1>14. keys \in [0..N -> V]
  <2>1. keys = [n \in 0..N |-> keys[n]]
    BY <1>7 DEF table
  <2> QED
    BY <1>13, <2>1
<1> QED
  BY <1>7, <1>8, <1>14 DEF KeysTo, N, V

LEMMA KeysAgree ==
    ASSUME NEW s \in Seq(Sig), NEW g \in Sig, NEW t, NEW f, NEW h,
           KeysTo(s, t, f), KeysTo(Append(s, g), t, h)
    PROVE  f[Len(s)] = h[Len(s)]
<1> DEFINE S == {n \in Nat : n <= Len(s) => f[n] = h[n]}
<1>1. /\ Len(s) \in Nat /\ Len(Append(s, g)) = Len(s) + 1
      /\ \A n \in 1..Len(s) : Append(s, g)[n] = s[n]
  BY AppendProperties, LenProperties
<1>2. 0 \in S
  BY DEF KeysTo
<1>3. ASSUME NEW n \in Nat, n \in S PROVE n + 1 \in S
  <2>1. SUFFICES ASSUME n + 1 <= Len(s) PROVE f[n + 1] = h[n + 1]
    OBVIOUS
  <2>2. /\ n + 1 \in 1..Len(s) /\ n + 1 \in 1..Len(Append(s, g)) /\ (n + 1) - 1 = n
        /\ f[n] = h[n] /\ Append(s, g)[n + 1] = s[n + 1]
    BY <1>1, <1>3, <2>1
  <2>3. f[n + 1] = IF s[n + 1].top = t THEN Append(f[n], s[n + 1].key) ELSE f[n]
    BY <2>2 DEF KeysTo
  <2>4. h[n + 1] = IF s[n + 1].top = t THEN Append(h[n], s[n + 1].key) ELSE h[n]
    BY <2>2 DEF KeysTo
  <2> QED
    BY <2>2, <2>3, <2>4
<1> HIDE DEF S
<1>4. Nat \subseteq S
  BY <1>2, <1>3, Induction
<1> QED
  BY <1>1, <1>4 DEF S

\* The keys of a topic, one signature later.
LEMMA KeysAppend ==
    ASSUME NEW s \in Seq(Sig), NEW g \in Sig, NEW t
    PROVE  /\ KeysOf(s, t) \in Seq(SigKeys)
           /\ KeysOf(Append(s, g), t) = IF g.top = t THEN Append(KeysOf(s, t), g.key)
                                        ELSE KeysOf(s, t)
<1>1. /\ Append(s, g) \in Seq(Sig) /\ Len(s) \in Nat /\ Len(Append(s, g)) = Len(s) + 1
      /\ Append(s, g)[Len(s) + 1] = g
  BY AppendProperties, LenProperties
<1>2. PICK f : KeysTo(s, t, f) /\ KeysOf(s, t) = f[Len(s)]
  BY KeysAre
<1>3. PICK h : KeysTo(Append(s, g), t, h) /\ KeysOf(Append(s, g), t) = h[Len(s) + 1]
  <2> DEFINE z == Append(s, g)
  <2>1. z \in Seq(Sig) /\ Len(z) = Len(s) + 1
    BY <1>1
  <2> HIDE DEF z
  <2>2. \E h : KeysTo(z, t, h) /\ KeysOf(z, t) = h[Len(s) + 1]
    BY <2>1, KeysAre
  <2> QED
    BY <2>2 DEF z
<1>4. f[Len(s)] = h[Len(s)]
  BY <1>2, <1>3, KeysAgree
<1>5. h[Len(s) + 1] = IF g.top = t THEN Append(h[Len(s)], g.key) ELSE h[Len(s)]
  <2>1. Len(s) + 1 \in 1..Len(Append(s, g)) /\ (Len(s) + 1) - 1 = Len(s)
    BY <1>1
  <2> QED
    BY <1>1, <1>3, <2>1 DEF KeysTo
<1>6. f[Len(s)] \in Seq(SigKeys)
  BY <1>1, <1>2 DEF KeysTo
<1> QED
  BY <1>2, <1>3, <1>4, <1>5, <1>6

LEMMA KeysEmpty == ASSUME NEW t PROVE KeysOf(<< >>, t) = << >>
<1>1. << >> \in Seq(Sig) /\ Len(<< >>) = 0
  BY EmptySeq
<1>2. PICK f : KeysTo(<< >>, t, f) /\ KeysOf(<< >>, t) = f[0]
  BY <1>1, KeysAre
<1> QED
  BY <1>2 DEF KeysTo

-----------------------------------------------------------------------------
\* Every array has its watches, and wm points to a watch of its topic at the place
\* it also has in the last array.
Shape ==
    /\ sigs \in Seq(Sig) /\ mem \in Seq(Seq(Watch)) /\ Len(mem) >= 1
    /\ \A t \in DOMAIN wm :
          /\ wm[t].arr \in 1..Len(mem) /\ wm[t].cell \in 1..Len(mem[wm[t].arr])
          /\ wm[t].cell \in 1..Len(res) /\ res[wm[t].cell].top = t
    /\ \A c \in 1..Len(res) : res[c].top \in DOMAIN wm /\ wm[res[c].top].cell = c

\* Topics that came have a watch, which begins with what came of them and has all
\* of it while its pointer is into the last array.
Filled ==
    /\ \A n \in 1..Len(sigs) :
          /\ sigs[n].top \in DOMAIN wm
          /\ \E k \in 1..Len(KeysOf(sigs, sigs[n].top)) :
                KeysOf(sigs, sigs[n].top)[k] = sigs[n].key
    /\ \A t \in DOMAIN wm : \E n \in 1..Len(sigs) : sigs[n].top = t
    /\ \A t : t \notin DOMAIN wm => KeysOf(sigs, t) = << >>
    /\ \A c \in 1..Len(res) :
          /\ IsStart(res[c].keys, KeysOf(sigs, res[c].top))
          /\ wm[res[c].top].arr = Len(mem) => res[c].keys = KeysOf(sigs, res[c].top)

\* While the topics come grouped no key is lost, and the pointer of the last one's
\* topic is into the last array.
Complete ==
    Grouped => /\ \A c \in 1..Len(res) : res[c].keys = KeysOf(sigs, res[c].top)
               /\ sigs # << >> => wm[sigs[Len(sigs)].top].arr = Len(mem)

SigsInv == Shape /\ Filled /\ Complete

LEMMA SigsInitInv == SigsInit => SigsInv
<1> SUFFICES ASSUME SigsInit PROVE SigsInv
  OBVIOUS
<1> DEFINE W == Seq(Watch)
<1>1. << >> \in W /\ << >> \in Seq(Sig)
  BY EmptySeq
<1> HIDE DEF W
<1>2. << << >> >> \in Seq(W) /\ Len(<< << >> >>) = 1 /\ << << >> >>[1] = << >>
  BY <1>1
<1>3. sigs = << >> /\ mem = << << >> >> /\ DOMAIN wm = {} /\ Len(<< >>) = 0
  BY DEF SigsInit
<1>4. Len(mem) = 1 /\ res = << >> /\ Len(res) = 0 /\ Len(sigs) = 0
  BY <1>2, <1>3 DEF res
<1>5. Shape
  BY <1>1, <1>2, <1>3, <1>4 DEF Shape, W
<1>6. Filled
  BY <1>3, <1>4, KeysEmpty DEF Filled
<1>7. Complete
  BY <1>3, <1>4 DEF Complete
<1> QED
  BY <1>5, <1>6, <1>7 DEF SigsInv

\* What is appended to the keys of one cell.
LEMMA KnownEffect ==
    ASSUME Shape, NEW sig \in Sig, KnownTopic(sig)
    PROVE  /\ sig.top \in DOMAIN wm /\ wm' = wm /\ Len(mem') = Len(mem) /\ Len(mem) \in Nat
           /\ mem' \in Seq(Seq(Watch))
           /\ \A k \in 1..Len(mem) :
                 /\ Len(mem'[k]) = Len(mem[k])
                 /\ \A c \in 1..Len(mem[k]) :
                       /\ mem'[k][c].top = mem[k][c].top
                       /\ mem'[k][c].keys =
                             IF k = wm[sig.top].arr /\ c = wm[sig.top].cell
                             THEN Append(mem[k][c].keys, sig.key) ELSE mem[k][c].keys
<1> DEFINE p == wm[sig.top]
           w(x) == [x EXCEPT !.keys = Append(@, sig.key)]
           a == [mem[p.arr] EXCEPT ![p.cell] = w(mem[p.arr][p.cell])]
<1>1. /\ sig.top \in DOMAIN wm /\ wm' = wm
      /\ mem' = [mem EXCEPT ![p.arr] = a]
  BY DEF KnownTopic
<1>2. /\ p.arr \in 1..Len(mem) /\ p.cell \in 1..Len(mem[p.arr])
      /\ mem \in Seq(Seq(Watch)) /\ Len(mem) \in Nat /\ DOMAIN mem = 1..Len(mem)
  BY <1>1, LenProperties DEF Shape
<1> HIDE DEF p
<1>3. \A k \in 1..Len(mem) : /\ mem[k] \in Seq(Watch) /\ Len(mem[k]) \in Nat
                             /\ DOMAIN mem[k] = 1..Len(mem[k])
                             /\ \A c \in 1..Len(mem[k]) : mem[k][c] \in Watch
  <2> TAKE k \in 1..Len(mem)
  <2>1. mem[k] \in Seq(Watch)
    BY <1>2, ElementOfSeq
  <2> QED
    BY <2>1, LenProperties, ElementOfSeq
<1>4. ASSUME NEW x \in Watch
      PROVE  w(x) \in Watch /\ w(x).top = x.top /\ w(x).keys = Append(x.keys, sig.key)
  <2>1. x.keys \in Seq(SigKeys) /\ sig.key \in SigKeys
    BY DEF Watch, Sig
  <2>2. Append(x.keys, sig.key) \in Seq(SigKeys)
    BY <2>1, AppendProperties
  <2> QED
    BY <2>2 DEF Watch
<1> HIDE DEF w
<1>5. /\ a \in [1..Len(mem[p.arr]) -> Watch]
      /\ \A c \in 1..Len(mem[p.arr]) :
            a[c] = IF c = p.cell THEN w(mem[p.arr][p.cell]) ELSE mem[p.arr][c]
  BY <1>2, <1>3, <1>4
<1> HIDE DEF a
<1>6. a \in Seq(Watch) /\ Len(a) = Len(mem[p.arr])
  BY <1>2, <1>3, <1>5, FunctionIsList
<1>7. /\ mem' \in [1..Len(mem) -> Seq(Watch)]
      /\ \A k \in 1..Len(mem) : mem'[k] = IF k = p.arr THEN a ELSE mem[k]
  BY <1>1, <1>2, <1>3, <1>6
<1>8. mem' \in Seq(Seq(Watch)) /\ Len(mem') = Len(mem)
  BY <1>2, <1>7, FunctionIsList
<1>9. ASSUME NEW k \in 1..Len(mem)
      PROVE  /\ Len(mem'[k]) = Len(mem[k])
             /\ \A c \in 1..Len(mem[k]) :
                   /\ mem'[k][c].top = mem[k][c].top
                   /\ mem'[k][c].keys = IF k = p.arr /\ c = p.cell
                                        THEN Append(mem[k][c].keys, sig.key) ELSE mem[k][c].keys
  <2>1. CASE k = p.arr
    <3>1. mem'[k] = a
      BY <1>7, <2>1
    <3>2. ASSUME NEW c \in 1..Len(mem[k])
          PROVE  /\ a[c].top = mem[k][c].top
                 /\ a[c].keys = IF c = p.cell THEN Append(mem[k][c].keys, sig.key)
                                ELSE mem[k][c].keys
      <4>1. a[c] = (IF c = p.cell THEN w(mem[k][c]) ELSE mem[k][c]) /\ mem[k][c] \in Watch
        BY <1>3, <1>5, <2>1
      <4> QED
        BY <1>4, <4>1
    <3> QED
      BY <1>6, <2>1, <3>1, <3>2
  <2>2. CASE k # p.arr
    BY <1>7, <2>2
  <2> QED
    BY <2>1, <2>2
<1> QED
  BY <1>1, <1>2, <1>8, <1>9 DEF p

\* A watch follows those of the last array, in it or in a copy.
LEMMA NewEffect ==
    ASSUME Shape, NEW sig \in Sig, NewTopic(sig)
    PROVE  /\ sig.top \notin DOMAIN wm /\ mem' \in Seq(Seq(Watch))
           /\ Len(mem) \in Nat /\ Len(mem') \in {Len(mem), Len(mem) + 1}
           /\ \A k \in 1..Len(mem) : k < Len(mem') => mem'[k] = mem[k]
           /\ res \in Seq(Watch) /\ res' = Append(res, [top |-> sig.top, keys |-> <<sig.key>>])
           /\ DOMAIN wm' = DOMAIN wm \cup {sig.top}
           /\ wm'[sig.top] = [arr |-> Len(mem'), cell |-> Len(res) + 1]
           /\ \A t \in DOMAIN wm : wm'[t] = wm[t]
<1> DEFINE watch == [top |-> sig.top, keys |-> <<sig.key>>]
           W == Seq(Watch)
           r == Append(res, watch)
<1>1. watch \in Watch
  BY DEF Watch, Sig
<1>2. /\ mem \in Seq(W) /\ Len(mem) \in Nat /\ DOMAIN mem = 1..Len(mem) /\ Len(mem) >= 1
      /\ \A k \in 1..Len(mem) : mem[k] \in W
  <2>1. mem \in Seq(W) /\ Len(mem) >= 1
    BY DEF Shape
  <2> HIDE DEF W
  <2> QED
    BY <2>1, LenProperties, ElementOfSeq
<1>3. res \in W /\ r \in W
  <2>1. Len(mem) \in 1..Len(mem)
    BY <1>2
  <2>2. res \in W
    BY <1>2, <2>1 DEF res
  <2> QED
    BY <1>1, <2>2, AppendProperties
<1>4. /\ sig.top \notin DOMAIN wm
      /\ wm' = [t \in DOMAIN wm \cup {sig.top} |->
                   IF t = sig.top THEN [arr |-> Len(mem'), cell |-> Len(res) + 1] ELSE wm[t]]
      /\ mem' = IF Len(res) = cap THEN Append(mem, r) ELSE [mem EXCEPT ![Len(mem)] = r]
  BY DEF NewTopic, res
<1> HIDE DEF W, r, watch
<1>5. /\ mem' \in Seq(W) /\ Len(mem') \in {Len(mem), Len(mem) + 1} /\ mem'[Len(mem')] = r
      /\ \A k \in 1..Len(mem) : k < Len(mem') => mem'[k] = mem[k]
  <2>1. CASE Len(res) = cap
    <3>1. mem' = Append(mem, r)
      BY <1>4, <2>1
    <3> QED
      BY <1>2, <1>3, <3>1, AppendProperties
  <2>2. CASE Len(res) # cap
    <3> DEFINE n == Len(mem)
    <3>1. mem' = [mem EXCEPT ![n] = r]
      BY <1>4, <2>2
    <3>2. n \in 1..n
      BY <1>2
    <3>9. mem' \in [1..n -> W]
      BY <1>2, <1>3, <3>1
    <3>3. mem' \in Seq(W) /\ Len(mem') = Len(mem)
      BY <1>2, <3>9, FunctionIsList
    <3>4. mem'[n] = r /\ \A k \in 1..n : k # n => mem'[k] = mem[k]
      <4>1. DOMAIN mem = 1..n
        BY <1>2
      <4> HIDE DEF n
      <4>2. n \in DOMAIN mem
        BY <3>2, <4>1
      <4>3. mem'[n] = r
        BY <3>1, <4>2
      <4>4. \A k \in DOMAIN mem : k # n => mem'[k] = mem[k]
        BY <3>1
      <4> QED
        BY <4>1, <4>3, <4>4
    <3>5. \A k \in 1..Len(mem) : k < Len(mem) => k # Len(mem)
      <4>1. n \in Nat
        BY <1>2
      <4> HIDE DEF n
      <4>2. \A k \in 1..n : k < n => k # n
        BY <4>1
      <4> QED
        BY <4>2 DEF n
    <3> QED
      BY <3>3, <3>4, <3>5
  <2> QED
    BY <2>1, <2>2
<1>6. res' = r
  BY <1>5 DEF res
<1> QED
  BY <1>2, <1>3, <1>4, <1>5, <1>6 DEF W, r, watch

\* A start stays one when what it begins is longer.
LEMMA StartAppend ==
    ASSUME NEW s \in Seq(SigKeys), NEW t \in Seq(SigKeys), NEW k \in SigKeys, IsStart(s, t)
    PROVE  IsStart(s, Append(t, k))
<1>1. Len(s) \in Nat /\ Len(t) \in Nat
  BY LenProperties
<1>2. Len(Append(t, k)) = Len(t) + 1 /\ \A n \in 1..Len(t) : Append(t, k)[n] = t[n]
  BY AppendProperties
<1> QED
  BY <1>1, <1>2 DEF IsStart

LEMMA GroupedBefore ==
    ASSUME sigs \in Seq(Sig), NEW sig \in Sig, sigs' = Append(sigs, sig), Grouped'
    PROVE  /\ Grouped
           /\ \A n \in 1..Len(sigs) : sigs[n].top = sig.top => sigs[Len(sigs)].top = sig.top
<1>1. /\ Len(sigs) \in Nat /\ Len(sigs') = Len(sigs) + 1 /\ sigs' \in Seq(Sig)
      /\ \A n \in 1..Len(sigs) : sigs'[n] = sigs[n]
      /\ sigs'[Len(sigs) + 1] = sig
  BY AppendProperties, LenProperties
<1>2. DOMAIN sigs = 1..Len(sigs) /\ DOMAIN sigs' = 1..(Len(sigs) + 1)
  BY <1>1, LenProperties
<1>3. \A a, b, c \in 1..(Len(sigs) + 1) :
         a < b /\ b < c /\ sigs'[a].top = sigs'[c].top => sigs'[b].top = sigs'[a].top
  BY <1>2 DEF Grouped
<1>4. Grouped
  <2>1. ASSUME NEW a \in 1..Len(sigs), NEW b \in 1..Len(sigs), NEW c \in 1..Len(sigs),
               a < b, b < c, sigs[a].top = sigs[c].top
        PROVE  sigs[b].top = sigs[a].top
    <3>1. a \in 1..(Len(sigs) + 1) /\ b \in 1..(Len(sigs) + 1) /\ c \in 1..(Len(sigs) + 1)
      BY <1>1
    <3>2. sigs'[a].top = sigs'[c].top
      BY <1>1, <2>1
    <3>3. sigs'[b].top = sigs'[a].top
      BY <1>3, <2>1, <3>1, <3>2
    <3> QED
      BY <1>1, <3>3
  <2> QED
    BY <1>2, <2>1 DEF Grouped
<1>5. ASSUME NEW n \in 1..Len(sigs), sigs[n].top = sig.top
      PROVE  sigs[Len(sigs)].top = sig.top
  <2>1. CASE n = Len(sigs)
    BY <1>5, <2>1
  <2>2. CASE n < Len(sigs)
    <3> DEFINE b == Len(sigs)
               c == Len(sigs) + 1
    <3>1. /\ n \in 1..(Len(sigs) + 1) /\ b \in 1..(Len(sigs) + 1) /\ c \in 1..(Len(sigs) + 1)
          /\ n < b /\ b < c /\ b \in 1..Len(sigs)
      BY <1>1, <2>2
    <3>2. sigs'[n].top = sigs'[c].top
      BY <1>1, <1>5
    <3> HIDE DEF b, c
    <3>3. sigs'[b].top = sigs'[n].top
      BY <1>3, <3>1, <3>2
    <3>4. sigs'[b] = sigs[b] /\ sigs'[n] = sigs[n]
      BY <1>1, <3>1
    <3> QED
      BY <1>5, <3>3, <3>4 DEF b
  <2> QED
    BY <1>1, <2>1, <2>2
<1> QED
  BY <1>4, <1>5

\* Whatever comes is listed among the keys of its topic, and stays listed.
LEMMA ListedAppend ==
    ASSUME sigs \in Seq(Sig), NEW sig \in Sig, sigs' = Append(sigs, sig),
           \A n \in 1..Len(sigs) : \E k \in 1..Len(KeysOf(sigs, sigs[n].top)) :
               KeysOf(sigs, sigs[n].top)[k] = sigs[n].key
    PROVE  \A n \in 1..Len(sigs') : \E k \in 1..Len(KeysOf(sigs', sigs'[n].top)) :
               KeysOf(sigs', sigs'[n].top)[k] = sigs'[n].key
<1> SUFFICES ASSUME NEW n \in 1..Len(sigs')
             PROVE  \E k \in 1..Len(KeysOf(sigs', sigs'[n].top)) :
                        KeysOf(sigs', sigs'[n].top)[k] = sigs'[n].key
  OBVIOUS
<1> DEFINE t == sigs'[n].top
           old == KeysOf(sigs, t)
           new == KeysOf(sigs', t)
<1>1. /\ Len(sigs) \in Nat /\ Len(sigs') = Len(sigs) + 1
      /\ \A m \in 1..Len(sigs) : sigs'[m] = sigs[m]
      /\ sigs'[Len(sigs) + 1] = sig /\ sig.key \in SigKeys
  BY AppendProperties, LenProperties DEF Sig
<1>2. old \in Seq(SigKeys) /\ new = IF sig.top = t THEN Append(old, sig.key) ELSE old
  BY KeysAppend
<1>3. Len(old) \in Nat
  BY <1>2, LenProperties
<1> HIDE DEF old, new, t
<1>4. \A k \in 1..Len(old) : k \in 1..Len(new) /\ new[k] = old[k]
  BY <1>1, <1>2, <1>3, AppendProperties
<1>5. CASE n \in 1..Len(sigs)
  <2>1. sigs'[n] = sigs[n] /\ t = sigs[n].top
    BY <1>1, <1>5 DEF t
  <2>2. PICK k \in 1..Len(old) : old[k] = sigs[n].key
    BY <1>5, <2>1 DEF old
  <2>3. k \in 1..Len(new) /\ new[k] = sigs'[n].key
    BY <1>4, <2>1, <2>2
  <2> QED
    BY <2>3 DEF new, t
<1>6. CASE n = Len(sigs) + 1
  <2>1. sigs'[n] = sig /\ t = sig.top
    BY <1>1, <1>6 DEF t
  <2>2. new = Append(old, sig.key)
    BY <1>2, <2>1
  <2>3. Len(old) + 1 \in 1..Len(new) /\ new[Len(old) + 1] = sigs'[n].key
    BY <1>1, <1>2, <1>3, <2>1, <2>2, AppendProperties
  <2> QED
    BY <2>3 DEF new, t
<1> QED
  BY <1>1, <1>5, <1>6

\* A topic that came before: its watch in the last array gets the key if the pointer
\* is into it, which it is while topics come grouped.
LEMMA KnownInv ==
    ASSUME SigsInv, NEW sig \in Sig, sigs' = Append(sigs, sig), KnownTopic(sig)
    PROVE  SigsInv'
<1> DEFINE p == wm[sig.top]
<1>1. /\ sig.top \in DOMAIN wm /\ wm' = wm /\ Len(mem') = Len(mem) /\ Len(mem) \in Nat
      /\ mem' \in Seq(Seq(Watch))
      /\ \A k \in 1..Len(mem) :
            /\ Len(mem'[k]) = Len(mem[k])
            /\ \A c \in 1..Len(mem[k]) :
                  /\ mem'[k][c].top = mem[k][c].top
                  /\ mem'[k][c].keys = IF k = p.arr /\ c = p.cell
                                       THEN Append(mem[k][c].keys, sig.key)
                                       ELSE mem[k][c].keys
  BY KnownEffect DEF SigsInv
<1> HIDE DEF p
<1>2. /\ sigs \in Seq(Sig) /\ mem \in Seq(Seq(Watch)) /\ Len(mem) >= 1 /\ Len(mem) \in 1..Len(mem)
      /\ p.arr \in 1..Len(mem) /\ p.cell \in 1..Len(res) /\ res[p.cell].top = sig.top
      /\ Len(sigs) \in Nat /\ sig.key \in SigKeys /\ sigs' \in Seq(Sig)
      /\ Len(sigs') = Len(sigs) + 1
      /\ \A n \in 1..Len(sigs) : sigs'[n] = sigs[n]
      /\ sigs'[Len(sigs) + 1] = sig
  BY <1>1, AppendProperties, LenProperties DEF SigsInv, Shape, Sig, p
<1>3. /\ Len(res') = Len(res)
      /\ \A c \in 1..Len(res) :
            /\ res'[c].top = res[c].top
            /\ res'[c].keys = IF Len(mem) = p.arr /\ c = p.cell
                              THEN Append(res[c].keys, sig.key) ELSE res[c].keys
  <2>1. res = mem[Len(mem)] /\ res' = mem'[Len(mem)]
    BY <1>1 DEF res
  <2>2. /\ Len(mem'[Len(mem)]) = Len(mem[Len(mem)])
        /\ \A c \in 1..Len(mem[Len(mem)]) :
              /\ mem'[Len(mem)][c].top = mem[Len(mem)][c].top
              /\ mem'[Len(mem)][c].keys = IF Len(mem) = p.arr /\ c = p.cell
                                          THEN Append(mem[Len(mem)][c].keys, sig.key)
                                          ELSE mem[Len(mem)][c].keys
    BY <1>1, <1>2
  <2> QED
    BY <2>1, <2>2
<1>4. \A c \in 1..Len(res) : /\ res[c].top \in DOMAIN wm /\ wm[res[c].top].cell = c
                             /\ (c = p.cell <=> res[c].top = sig.top)
  BY <1>2 DEF SigsInv, Shape, p
<1>5. Shape'
  <2>1. ASSUME NEW t \in DOMAIN wm
        PROVE  /\ wm[t].arr \in 1..Len(mem') /\ wm[t].cell \in 1..Len(mem'[wm[t].arr])
               /\ wm[t].cell \in 1..Len(res') /\ res'[wm[t].cell].top = t
    <3>1. /\ wm[t].arr \in 1..Len(mem) /\ wm[t].cell \in 1..Len(mem[wm[t].arr])
          /\ wm[t].cell \in 1..Len(res) /\ res[wm[t].cell].top = t
      BY DEF SigsInv, Shape
    <3> QED
      BY <1>1, <1>3, <3>1
  <2>2. \A c \in 1..Len(res') : res'[c].top \in DOMAIN wm /\ wm[res'[c].top].cell = c
    BY <1>3, <1>4
  <2> QED
    BY <1>1, <1>2, <2>1, <2>2 DEF Shape
<1>6. \A t : /\ KeysOf(sigs, t) \in Seq(SigKeys)
             /\ KeysOf(sigs', t) = IF sig.top = t THEN Append(KeysOf(sigs, t), sig.key)
                                   ELSE KeysOf(sigs, t)
  BY <1>2, KeysAppend
<1>7. ASSUME NEW c \in 1..Len(res)
      PROVE  res[c].keys \in Seq(SigKeys)
  <2>1. res \in Seq(Watch)
    BY <1>2, ElementOfSeq DEF res
  <2>2. res[c] \in Watch
    BY <2>1, ElementOfSeq
  <2> QED
    BY <2>2 DEF Watch
<1>8. Filled'
  <2>1. ASSUME NEW n \in 1..Len(sigs') PROVE sigs'[n].top \in DOMAIN wm
    <3>1. CASE n \in 1..Len(sigs)
      BY <1>2, <3>1 DEF SigsInv, Filled
    <3>2. CASE n = Len(sigs) + 1
      BY <1>1, <1>2, <3>2
    <3> QED
      BY <1>2, <3>1, <3>2
  <2>2. \A n \in 1..Len(sigs') : \E k \in 1..Len(KeysOf(sigs', sigs'[n].top)) :
            KeysOf(sigs', sigs'[n].top)[k] = sigs'[n].key
    BY <1>2, ListedAppend DEF SigsInv, Filled
  <2>3. ASSUME NEW t, t \notin DOMAIN wm PROVE KeysOf(sigs', t) = << >>
    <3>1. sig.top # t /\ KeysOf(sigs, t) = << >>
      BY <1>1, <2>3 DEF SigsInv, Filled
    <3> QED
      BY <1>6, <3>1
  <2>4. ASSUME NEW t \in DOMAIN wm PROVE \E n \in 1..Len(sigs') : sigs'[n].top = t
    <3>1. PICK n \in 1..Len(sigs) : sigs[n].top = t
      BY DEF SigsInv, Filled
    <3> QED
      BY <1>2, <3>1
  <2>5. ASSUME NEW c \in 1..Len(res)
        PROVE  /\ IsStart(res'[c].keys, KeysOf(sigs', res[c].top))
               /\ wm[res[c].top].arr = Len(mem) => res'[c].keys = KeysOf(sigs', res[c].top)
    <3> DEFINE got == KeysOf(sigs, res[c].top)
    <3>1. /\ IsStart(res[c].keys, got) /\ got \in Seq(SigKeys)
          /\ wm[res[c].top].arr = Len(mem) => res[c].keys = got
      BY <1>6 DEF SigsInv, Filled
    <3>2. CASE c = p.cell /\ Len(mem) = p.arr
      <4>1. res[c].top = sig.top /\ res[c].keys = got
        BY <1>4, <3>1, <3>2 DEF p
      <4>2. res'[c].keys = Append(got, sig.key) /\ KeysOf(sigs', res[c].top) = Append(got, sig.key)
        BY <1>3, <1>6, <3>2, <4>1
      <4> QED
        <5>1. Append(got, sig.key) \in Seq(SigKeys)
          BY <1>2, <3>1, AppendProperties
        <5>2. Len(Append(got, sig.key)) \in Nat
          BY <5>1, LenProperties
        <5> HIDE DEF got
        <5>3. IsStart(Append(got, sig.key), Append(got, sig.key))
          BY <5>2 DEF IsStart
        <5> QED
          BY <4>2, <5>3
    <3>3. CASE c = p.cell /\ Len(mem) # p.arr
      <4>1. res[c].top = sig.top /\ wm[res[c].top].arr # Len(mem)
        BY <1>4, <3>3 DEF p
      <4>2. res'[c].keys = res[c].keys /\ KeysOf(sigs', res[c].top) = Append(got, sig.key)
        BY <1>3, <1>6, <3>3, <4>1
      <4>3. IsStart(res[c].keys, Append(got, sig.key))
        <5> HIDE DEF got
        <5> QED
          BY <1>2, <1>7, <3>1, StartAppend
      <4> QED
        BY <4>1, <4>2, <4>3
    <3>4. CASE c # p.cell
      <4>1. res[c].top # sig.top
        BY <1>4, <3>4
      <4>2. res'[c].keys = res[c].keys /\ KeysOf(sigs', res[c].top) = got
        BY <1>3, <1>6, <3>4, <4>1
      <4> QED
        BY <3>1, <4>2
    <3> QED
      BY <3>2, <3>3, <3>4
  <2>6. /\ DOMAIN wm' = DOMAIN wm /\ Len(mem') = Len(mem) /\ Len(res') = Len(res)
        /\ \A c \in 1..Len(res) : res'[c].top = res[c].top /\ wm'[res'[c].top] = wm[res[c].top]
    BY <1>1, <1>3
  <2>7. ASSUME NEW c \in 1..Len(res')
        PROVE  /\ IsStart(res'[c].keys, KeysOf(sigs', res'[c].top))
               /\ wm'[res'[c].top].arr = Len(mem') => res'[c].keys = KeysOf(sigs', res'[c].top)
    BY <2>5, <2>6
  <2> QED
    BY <2>1, <2>2, <2>3, <2>4, <2>6, <2>7 DEF Filled
<1>9. Complete'
  <2> SUFFICES ASSUME Grouped'
               PROVE  /\ \A c \in 1..Len(res') : res'[c].keys = KeysOf(sigs', res'[c].top)
                      /\ wm'[sigs'[Len(sigs')].top].arr = Len(mem')
    BY DEF Complete
  <2>1. /\ Grouped
        /\ \A n \in 1..Len(sigs) : sigs[n].top = sig.top => sigs[Len(sigs)].top = sig.top
    BY <1>2, GroupedBefore
  <2>2. PICK n \in 1..Len(sigs) : sigs[n].top = sig.top
    BY <1>1 DEF SigsInv, Filled
  <2>3. p.arr = Len(mem) /\ \A c \in 1..Len(res) : res[c].keys = KeysOf(sigs, res[c].top)
    <3>1. sigs[Len(sigs)].top = sig.top /\ sigs # << >>
      BY <1>2, <2>1, <2>2, EmptySeq
    <3> QED
      BY <2>1, <3>1 DEF SigsInv, Complete, p
  <2>4. ASSUME NEW c \in 1..Len(res) PROVE res'[c].keys = KeysOf(sigs', res[c].top)
    <3>1. CASE c = p.cell
      <4>1. res[c].top = sig.top /\ res[c].keys = KeysOf(sigs, sig.top)
        BY <1>4, <2>3, <3>1
      <4>2. KeysOf(sigs', sig.top) = Append(KeysOf(sigs, sig.top), sig.key)
        BY <1>6
      <4>3. res'[c].keys = Append(res[c].keys, sig.key) /\ res'[c].top = sig.top
        BY <1>3, <1>4, <2>3, <3>1, <4>1
      <4> QED
        BY <4>1, <4>2, <4>3
    <3>2. CASE c # p.cell
      BY <1>3, <1>4, <1>6, <2>3, <3>2
    <3> QED
      BY <3>1, <3>2
  <2>5. sigs'[Len(sigs')] = sig
    BY <1>2
  <2> QED
    BY <1>1, <1>3, <2>3, <2>4, <2>5 DEF p
<1> QED
  BY <1>5, <1>8, <1>9 DEF SigsInv

\* A new topic: its watch is the last of the last array, and so is its pointer; in a
\* copy the others keep what they have, in the order it came.
LEMMA NewInv ==
    ASSUME SigsInv, NEW sig \in Sig, sigs' = Append(sigs, sig), NewTopic(sig)
    PROVE  SigsInv'
<1> DEFINE n == Len(res) + 1
           watch == [top |-> sig.top, keys |-> <<sig.key>>]
<1>1. /\ sig.top \notin DOMAIN wm /\ mem' \in Seq(Seq(Watch))
      /\ Len(mem) \in Nat /\ Len(mem') \in {Len(mem), Len(mem) + 1}
      /\ \A k \in 1..Len(mem) : k < Len(mem') => mem'[k] = mem[k]
      /\ res \in Seq(Watch) /\ res' = Append(res, watch)
      /\ DOMAIN wm' = DOMAIN wm \cup {sig.top}
      /\ wm'[sig.top] = [arr |-> Len(mem'), cell |-> n]
      /\ \A t \in DOMAIN wm : wm'[t] = wm[t]
  BY NewEffect DEF SigsInv
<1>2. /\ sigs \in Seq(Sig) /\ Len(mem) >= 1
      /\ Len(sigs) \in Nat /\ sig.key \in SigKeys /\ sigs' \in Seq(Sig)
      /\ Len(sigs') = Len(sigs) + 1
      /\ \A m \in 1..Len(sigs) : sigs'[m] = sigs[m]
      /\ sigs'[Len(sigs) + 1] = sig
  BY AppendProperties, LenProperties DEF SigsInv, Shape, Sig
<1>3. /\ watch.top = sig.top /\ watch.keys = <<sig.key>> /\ watch \in Watch
      /\ wm'[sig.top].arr = Len(mem') /\ wm'[sig.top].cell = n
  BY <1>1, <1>2 DEF Watch, Sig
<1> HIDE DEF watch
<1>4. /\ Len(res) \in Nat /\ Len(res') = n /\ res'[n] = watch
      /\ \A c \in 1..Len(res) : res'[c] = res[c] /\ res[c].keys \in Seq(SigKeys)
  <2>1. /\ Len(res) \in Nat /\ Len(res') = n /\ res'[n] = watch
        /\ \A c \in 1..Len(res) : res'[c] = res[c]
    <3>1. Len(res) \in Nat
      BY <1>1, LenProperties
    <3>2. /\ Len(Append(res, watch)) = Len(res) + 1
          /\ Append(res, watch)[Len(res) + 1] = watch
          /\ \A c \in 1..Len(res) : Append(res, watch)[c] = res[c]
      <4>1. res \in Seq(Watch) /\ watch \in Watch
        BY <1>1, <1>3
      <4> QED
        BY <4>1, AppendProperties
    <3> QED
      BY <1>1, <3>1, <3>2
  <2>2. \A c \in 1..Len(res) : res[c] \in Watch
    BY <1>1, ElementOfSeq
  <2> QED
    BY <2>1, <2>2 DEF Watch
<1>5. \A c \in 1..Len(res') : c \in 1..Len(res) \/ c = n
  BY <1>4
<1>6. n \in 1..Len(res') /\ 1..Len(res) \subseteq 1..Len(res') /\ \A c \in 1..Len(res) : c # n
  BY <1>4
<1> HIDE DEF n
<1>7. \A c \in 1..Len(res) : /\ res[c].top \in DOMAIN wm /\ res[c].top # sig.top
                             /\ wm[res[c].top].cell = c
  BY <1>1 DEF SigsInv, Shape
<1>8. Shape'
  <2>1. Len(mem') \in 1..Len(mem') /\ mem'[Len(mem')] = res' /\ Len(mem') >= 1
    BY <1>1, <1>2 DEF res
  <2>2. ASSUME NEW t \in DOMAIN wm'
        PROVE  /\ wm'[t].arr \in 1..Len(mem') /\ wm'[t].cell \in 1..Len(mem'[wm'[t].arr])
               /\ wm'[t].cell \in 1..Len(res') /\ res'[wm'[t].cell].top = t
    <3>1. CASE t = sig.top
      BY <1>3, <1>4, <1>6, <2>1, <3>1
    <3>2. CASE t \in DOMAIN wm
      <4> DEFINE p == wm[t]
      <4>1. /\ p.arr \in 1..Len(mem) /\ p.cell \in 1..Len(mem[p.arr])
            /\ p.cell \in 1..Len(res) /\ res[p.cell].top = t
        BY <3>2 DEF SigsInv, Shape
      <4>2. wm'[t] = p
        BY <1>1, <3>2
      <4> HIDE DEF p
      <4>3. p.cell \in 1..Len(res') /\ res'[p.cell].top = t
        BY <1>4, <1>6, <4>1
      <4>4. CASE p.arr < Len(mem')
        <5>1. mem'[p.arr] = mem[p.arr] /\ p.arr \in 1..Len(mem')
          BY <1>1, <4>1, <4>4
        <5> QED
          BY <4>1, <4>2, <4>3, <5>1
      <4>5. CASE p.arr = Len(mem')
        BY <2>1, <4>2, <4>3, <4>5
      <4>6. p.arr < Len(mem') \/ p.arr = Len(mem')
        BY <1>1, <4>1
      <4> QED
        BY <4>4, <4>5, <4>6
    <3> QED
      BY <1>1, <3>1, <3>2
  <2>3. ASSUME NEW c \in 1..Len(res')
        PROVE  res'[c].top \in DOMAIN wm' /\ wm'[res'[c].top].cell = c
    <3>1. CASE c \in 1..Len(res)
      BY <1>1, <1>4, <1>7, <3>1
    <3>2. CASE c = n
      BY <1>1, <1>3, <1>4, <3>2
    <3> QED
      BY <1>5, <3>1, <3>2
  <2> QED
    BY <1>1, <1>2, <2>1, <2>2, <2>3 DEF Shape
<1>9. \A t : /\ KeysOf(sigs, t) \in Seq(SigKeys)
             /\ KeysOf(sigs', t) = IF sig.top = t THEN Append(KeysOf(sigs, t), sig.key)
                                   ELSE KeysOf(sigs, t)
  BY <1>2, KeysAppend
<1>10. KeysOf(sigs', sig.top) = <<sig.key>>
  <2>1. KeysOf(sigs, sig.top) = << >>
    BY <1>1 DEF SigsInv, Filled
  <2>2. KeysOf(sigs', sig.top) = Append(<< >>, sig.key)
    BY <1>9, <2>1
  <2>3. Append(<< >>, sig.key) = <<sig.key>>
    OBVIOUS
  <2> QED
    BY <2>2, <2>3
<1>11. \A c \in 1..Len(res) : KeysOf(sigs', res'[c].top) = KeysOf(sigs, res[c].top)
  BY <1>4, <1>7, <1>9
<1>12. Filled'
  <2>1. ASSUME NEW m \in 1..Len(sigs') PROVE sigs'[m].top \in DOMAIN wm'
    <3>1. CASE m \in 1..Len(sigs)
      BY <1>1, <1>2, <3>1 DEF SigsInv, Filled
    <3>2. CASE m = Len(sigs) + 1
      BY <1>1, <1>2, <3>2
    <3> QED
      BY <1>2, <3>1, <3>2
  <2>2. \A m \in 1..Len(sigs') : \E k \in 1..Len(KeysOf(sigs', sigs'[m].top)) :
            KeysOf(sigs', sigs'[m].top)[k] = sigs'[m].key
    BY <1>2, ListedAppend DEF SigsInv, Filled
  <2>3. ASSUME NEW t \in DOMAIN wm' PROVE \E m \in 1..Len(sigs') : sigs'[m].top = t
    <3>1. CASE t \in DOMAIN wm
      <4>1. PICK m \in 1..Len(sigs) : sigs[m].top = t
        BY <3>1 DEF SigsInv, Filled
      <4> QED
        BY <1>2, <4>1
    <3>2. CASE t = sig.top
      <4>1. Len(sigs) + 1 \in 1..Len(sigs')
        BY <1>2
      <4> QED
        BY <1>2, <3>2, <4>1
    <3> QED
      BY <1>1, <3>1, <3>2
  <2>4. ASSUME NEW t, t \notin DOMAIN wm' PROVE KeysOf(sigs', t) = << >>
    <3>1. sig.top # t /\ t \notin DOMAIN wm
      BY <1>1, <2>4
    <3>2. KeysOf(sigs, t) = << >>
      BY <3>1 DEF SigsInv, Filled
    <3> QED
      BY <1>9, <3>1, <3>2
  <2>5. ASSUME NEW c \in 1..Len(res')
        PROVE  /\ IsStart(res'[c].keys, KeysOf(sigs', res'[c].top))
               /\ wm'[res'[c].top].arr = Len(mem') => res'[c].keys = KeysOf(sigs', res'[c].top)
    <3>1. CASE c \in 1..Len(res)
      <4> DEFINE t == res[c].top
      <4>1. /\ IsStart(res[c].keys, KeysOf(sigs, t)) /\ t \in DOMAIN wm
            /\ wm[t].arr = Len(mem) => res[c].keys = KeysOf(sigs, t)
            /\ wm[t].arr \in 1..Len(mem)
        BY <1>7, <3>1 DEF SigsInv, Filled, Shape
      <4>2. res'[c] = res[c] /\ KeysOf(sigs', t) = KeysOf(sigs, t) /\ wm'[t] = wm[t]
        BY <1>1, <1>4, <1>11, <3>1, <4>1
      <4> HIDE DEF t
      <4>3. wm[t].arr = Len(mem') => wm[t].arr = Len(mem)
        BY <1>1, <4>1
      <4> QED
        BY <4>1, <4>2, <4>3 DEF t
    <3>2. CASE c = n
      <4>1. res'[c].keys = <<sig.key>> /\ KeysOf(sigs', res'[c].top) = <<sig.key>>
        BY <1>3, <1>4, <1>10, <3>2
      <4>2. IsStart(<<sig.key>>, <<sig.key>>)
        BY DEF IsStart
      <4> QED
        BY <4>1, <4>2
    <3> QED
      BY <1>5, <3>1, <3>2
  <2> QED
    BY <2>1, <2>2, <2>3, <2>4, <2>5 DEF Filled
<1>13. Complete'
  <2> SUFFICES ASSUME Grouped'
               PROVE  /\ \A c \in 1..Len(res') : res'[c].keys = KeysOf(sigs', res'[c].top)
                      /\ wm'[sigs'[Len(sigs')].top].arr = Len(mem')
    BY DEF Complete
  <2>1. Grouped
    BY <1>2, GroupedBefore
  <2>2. ASSUME NEW c \in 1..Len(res') PROVE res'[c].keys = KeysOf(sigs', res'[c].top)
    <3>1. CASE c \in 1..Len(res)
      <4>1. res[c].keys = KeysOf(sigs, res[c].top)
        BY <2>1, <3>1 DEF SigsInv, Complete
      <4> QED
        BY <1>4, <1>11, <3>1, <4>1
    <3>2. CASE c = n
      BY <1>3, <1>4, <1>10, <3>2
    <3> QED
      BY <1>5, <3>1, <3>2
  <2>3. sigs'[Len(sigs')] = sig
    BY <1>2
  <2> QED
    BY <1>3, <2>2, <2>3
<1> QED
  BY <1>8, <1>12, <1>13 DEF SigsInv

LEMMA SigsNextInv == SigsInv /\ [SigsNext]_sigsVars => SigsInv'
<1> SUFFICES ASSUME SigsInv, [SigsNext]_sigsVars PROVE SigsInv'
  OBVIOUS
<1>1. CASE SigsNext
  <2>1. PICK sig \in Sig : sigs' = Append(sigs, sig) /\ (KnownTopic(sig) \/ NewTopic(sig))
    BY <1>1 DEF SigsNext, Sig
  <2> QED
    BY <2>1, KnownInv, NewInv
<1>2. CASE UNCHANGED sigsVars
  <2>1. sigs' = sigs /\ mem' = mem /\ wm' = wm /\ res' = res
    BY <1>2 DEF sigsVars, res
  <2>2. Grouped' <=> Grouped
    BY <2>1 DEF Grouped
  <2>3. Shape'
    BY <2>1 DEF SigsInv, Shape
  <2>4. Filled'
    BY <2>1 DEF SigsInv, Filled
  <2>5. Complete'
    BY <2>1, <2>2 DEF SigsInv, Complete
  <2> QED
    BY <2>3, <2>4, <2>5 DEF SigsInv
<1> QED
  BY <1>1, <1>2

LEMMA SigsInvFaithful == SigsInv => WatchesFaithful
<1> SUFFICES ASSUME SigsInv PROVE WatchesFaithful
  OBVIOUS
<1>1. /\ res \in Seq(Watch) /\ DOMAIN res = 1..Len(res)
      /\ \A c \in 1..Len(res) : DOMAIN res[c].keys = 1..Len(res[c].keys)
  <2>1. mem \in Seq(Seq(Watch)) /\ Len(mem) \in 1..Len(mem)
    BY LenProperties DEF SigsInv, Shape
  <2>2. res \in Seq(Watch)
    BY <2>1, ElementOfSeq DEF res
  <2>3. \A c \in 1..Len(res) : res[c].keys \in Seq(SigKeys)
    <3>1. \A c \in 1..Len(res) : res[c] \in Watch
      BY <2>2, ElementOfSeq
    <3> QED
      BY <3>1 DEF Watch
  <2> QED
    BY <2>2, <2>3, LenProperties
<1>2. DOMAIN sigs = 1..Len(sigs)
  BY LenProperties DEF SigsInv, Shape
<1>3. ASSUME NEW c \in 1..Len(res)
      PROVE  LET got == KeysOf(sigs, res[c].top)
             IN  /\ \A j \in 1..Len(res) : res[j].top = res[c].top => j = c
                 /\ Len(res[c].keys) <= Len(got)
                 /\ \A k \in DOMAIN res[c].keys : res[c].keys[k] = got[k]
  <2>1. \A j \in 1..Len(res) : wm[res[j].top].cell = j
    BY DEF SigsInv, Shape
  <2>2. IsStart(res[c].keys, KeysOf(sigs, res[c].top))
    BY DEF SigsInv, Filled
  <2> QED
    BY <1>1, <2>1, <2>2 DEF IsStart
<1>4. ASSUME Grouped, NEW n \in 1..Len(sigs)
      PROVE  \E c \in 1..Len(res) :
                /\ res[c].top = sigs[n].top
                /\ \E k \in DOMAIN res[c].keys : res[c].keys[k] = sigs[n].key
  <2> DEFINE c == wm[sigs[n].top].cell
  <2>1. c \in 1..Len(res) /\ res[c].top = sigs[n].top
    BY DEF SigsInv, Shape, Filled
  <2>2. res[c].keys = KeysOf(sigs, sigs[n].top)
    BY <1>4, <2>1 DEF SigsInv, Complete
  <2>3. PICK k \in 1..Len(KeysOf(sigs, sigs[n].top)) : KeysOf(sigs, sigs[n].top)[k] = sigs[n].key
    BY DEF SigsInv, Filled
  <2>4. k \in DOMAIN res[c].keys /\ res[c].keys[k] = sigs[n].key
    <3>1. DOMAIN res[c].keys = 1..Len(res[c].keys)
      BY <1>1, <2>1
    <3> HIDE DEF c
    <3> QED
      BY <2>2, <2>3, <3>1
  <2> QED
    BY <2>1, <2>4
<1>5. \A c \in DOMAIN res :
          LET got == KeysOf(sigs, res[c].top)
          IN  /\ \A j \in DOMAIN res : res[j].top = res[c].top => j = c
              /\ Len(res[c].keys) <= Len(got)
              /\ \A k \in DOMAIN res[c].keys : res[c].keys[k] = got[k]
  BY <1>1, <1>3
<1>6. Grouped => \A n \in DOMAIN sigs : \E c \in DOMAIN res :
          /\ res[c].top = sigs[n].top
          /\ \E k \in DOMAIN res[c].keys : res[c].keys[k] = sigs[n].key
  BY <1>1, <1>2, <1>4
<1> QED
  BY <1>5, <1>6 DEF WatchesFaithful

\* However many signatures a monitor gathers and however the slice is moved, a topic
\* has one watch whose keys came to it in that order, and all of them if the topics
\* came grouped.
THEOREM WatchesAreFaithful == SigsSpec => []WatchesFaithful
<1>1. SigsSpec => []SigsInv
  BY SigsInitInv, SigsNextInv, PTL DEF SigsSpec
<1> QED
  BY <1>1, SigsInvFaithful, PTL

-----------------------------------------------------------------------------
(* Policies. *)

PolSpec == PolInit /\ [][PolNext]_rules

\* f is what Policy builds, rule by rule.
BuiltFrom(rs, f) ==
    /\ f = [n \in 0..Len(rs) |-> f[n]] /\ f[0] = << >>
    /\ \A n \in 1..Len(rs) : f[n] = Add(f[n - 1], rs[n])

LEMMA PolicyIs ==
    ASSUME NEW rs \in Seq(PolRules)
    PROVE  \E f : BuiltFrom(rs, f) /\ Policy(rs) = f[Len(rs)]
<1> DEFINE N == Len(rs)
           Upto(m, f) == /\ f = [n \in 0..m |-> f[n]] /\ f[0] = << >>
                         /\ \A n \in 1..m : f[n] = Add(f[n - 1], rs[n])
           table(f) == [n \in 0..N |-> IF n = 0 THEN << >> ELSE Add(f[n - 1], rs[n])]
           S == {m \in Nat : \E f : Upto(m, f)}
<1>1. N \in Nat
  BY LenProperties
<1> HIDE DEF N
<1>2. 0 \in S
  <2>1. Upto(0, [n \in 0..0 |-> << >>])
    OBVIOUS
  <2> HIDE DEF Upto
  <2> QED
    BY <2>1
<1>3. ASSUME NEW m \in Nat, m \in S PROVE m + 1 \in S
  <2>1. PICK f : Upto(m, f)
    BY <1>3
  <2> DEFINE last == Add(f[m], rs[m + 1])
             g == [n \in 0..(m + 1) |-> IF n <= m THEN f[n] ELSE last]
  <2> HIDE DEF last
  <2>2. \A n \in 0..m : n \in 0..(m + 1) /\ g[n] = f[n]
    OBVIOUS
  <2>3. m + 1 \in 0..(m + 1) /\ ~(m + 1 <= m) /\ (m + 1) - 1 = m /\ m \in 0..m
    OBVIOUS
  <2>4. g[m + 1] = last
    BY <2>3
  <2>5. g = [n \in 0..(m + 1) |-> g[n]]
    OBVIOUS
  <2> HIDE DEF g
  <2>6. ASSUME NEW n \in 1..(m + 1) PROVE g[n] = Add(g[n - 1], rs[n])
    <3>1. CASE n \in 1..m
      <4>1. n \in 0..m /\ n - 1 \in 0..m
        BY <3>1
      <4> QED
        BY <2>1, <2>2, <3>1, <4>1
    <3>2. CASE n = m + 1
      <4>1. g[n - 1] = f[m]
        BY <2>2, <2>3, <3>2
      <4> QED
        BY <2>4, <3>2, <4>1 DEF last
    <3> QED
      BY <3>1, <3>2
  <2>7. g[0] = << >>
    BY <2>1, <2>2
  <2>8. Upto(m + 1, g)
    BY <2>5, <2>6, <2>7
  <2> HIDE DEF Upto
  <2> QED
    BY <2>8
<1> HIDE DEF S
<1>4. Nat \subseteq S
  BY <1>2, <1>3, Induction
<1>5. PICK f : Upto(N, f)
  BY <1>1, <1>4 DEF S
<1>6. f = table(f)
  <2>1. \A n \in 0..N : n = 0 \/ (n # 0 /\ n \in 1..N)
    BY <1>1
  <2>2. \A n \in 0..N : f[n] = IF n = 0 THEN << >> ELSE Add(f[n - 1], rs[n])
    BY <1>5, <2>1
  <2> QED
    BY <1>5, <2>2
<1>7. PICK built : built = table(built) /\ Policy(rs) = built[N]
  BY <1>6 DEF Policy, N
<1>8. BuiltFrom(rs, built)
  <2>1. 0 \in 0..N /\ \A n \in 1..N : n \in 0..N /\ n # 0
    BY <1>1
  <2>2. built[0] = << >> /\ \A n \in 1..N : built[n] = Add(built[n - 1], rs[n])
    BY <1>7, <2>1
  <2>3. built = [n \in 0..N |-> built[n]]
    BY <1>7
  <2> QED
    BY <2>2, <2>3 DEF BuiltFrom, N
<1> QED
  BY <1>7, <1>8 DEF N

LEMMA PolicyEmpty == Policy(<< >>) = << >>
<1>1. << >> \in Seq(PolRules) /\ Len(<< >>) = 0
  BY EmptySeq
<1>2. \E f : BuiltFrom(<< >>, f) /\ Policy(<< >>) = f[Len(<< >>)]
  BY <1>1, PolicyIs
<1> QED
  BY <1>1, <1>2 DEF BuiltFrom

LEMMA BuiltAgree ==
    ASSUME NEW rs \in Seq(PolRules), NEW r \in PolRules, NEW f, NEW h,
           BuiltFrom(rs, f), BuiltFrom(Append(rs, r), h)
    PROVE  f[Len(rs)] = h[Len(rs)]
<1> DEFINE S == {n \in Nat : n <= Len(rs) => f[n] = h[n]}
<1>1. /\ Len(rs) \in Nat /\ Len(Append(rs, r)) = Len(rs) + 1
      /\ \A n \in 1..Len(rs) : Append(rs, r)[n] = rs[n]
  BY AppendProperties, LenProperties
<1>2. 0 \in S
  BY DEF BuiltFrom
<1>3. ASSUME NEW n \in Nat, n \in S PROVE n + 1 \in S
  <2>1. SUFFICES ASSUME n + 1 <= Len(rs) PROVE f[n + 1] = h[n + 1]
    OBVIOUS
  <2>2. /\ n + 1 \in 1..Len(rs) /\ n + 1 \in 1..Len(Append(rs, r)) /\ (n + 1) - 1 = n
        /\ f[n] = h[n] /\ Append(rs, r)[n + 1] = rs[n + 1]
    BY <1>1, <1>3, <2>1
  <2>3. f[n + 1] = Add(f[n], rs[n + 1])
    BY <2>2 DEF BuiltFrom
  <2>4. h[n + 1] = Add(h[n], rs[n + 1])
    BY <2>2 DEF BuiltFrom
  <2> QED
    BY <2>2, <2>3, <2>4
<1> HIDE DEF S
<1>4. Nat \subseteq S
  BY <1>2, <1>3, Induction
<1> QED
  BY <1>1, <1>4 DEF S

LEMMA PolicyAppend ==
    ASSUME NEW rs \in Seq(PolRules), NEW r \in PolRules
    PROVE  Policy(Append(rs, r)) = Add(Policy(rs), r)
<1> DEFINE z == Append(rs, r)
           N == Len(rs)
<1>1. z \in Seq(PolRules) /\ N \in Nat /\ Len(z) = N + 1 /\ z[N + 1] = r
  BY AppendProperties, LenProperties
<1>2. PICK f : BuiltFrom(rs, f) /\ Policy(rs) = f[N]
  BY PolicyIs
<1> HIDE DEF z
<1>3. PICK h : BuiltFrom(z, h) /\ Policy(z) = h[N + 1]
  <2>1. \E h : BuiltFrom(z, h) /\ Policy(z) = h[Len(z)]
    BY <1>1, PolicyIs
  <2> QED
    BY <1>1, <2>1
<1>4. f[N] = h[N]
  BY <1>2, <1>3, BuiltAgree DEF z
<1> HIDE DEF N
<1>5. N + 1 \in 1..Len(z) /\ (N + 1) - 1 = N
  BY <1>1
<1>6. h[N + 1] = Add(h[N], r)
  BY <1>1, <1>3, <1>5 DEF BuiltFrom
<1> QED
  BY <1>2, <1>3, <1>4, <1>6 DEF z

IsPolicy(p) ==
    p = [n \in DOMAIN p |-> [roles |-> p[n].roles, permit |-> p[n].permit, deny |-> p[n].deny]]

\* What a role has, or will have when it is made.
Groups(p, n)  == IF n \in DOMAIN p THEN p[n].roles ELSE IF n = "*" THEN {} ELSE {"*"}
Permits(p, n) == IF n \in DOMAIN p THEN p[n].permit ELSE << >>
Denies(p, n)  == IF n \in DOMAIN p THEN p[n].deny ELSE << >>

LEMMA SamePolicy ==
    ASSUME NEW p, NEW q, IsPolicy(p), IsPolicy(q), DOMAIN p = DOMAIN q,
           \A n : Groups(p, n) = Groups(q, n),
           \A n : Permits(p, n) = Permits(q, n), \A n : Denies(p, n) = Denies(q, n)
    PROVE  p = q
<1>1. ASSUME NEW n \in DOMAIN p
      PROVE  p[n].roles = q[n].roles /\ p[n].permit = q[n].permit /\ p[n].deny = q[n].deny
  <2>1. Groups(p, n) = Groups(q, n) /\ Permits(p, n) = Permits(q, n) /\ Denies(p, n) = Denies(q, n)
    OBVIOUS
  <2> QED
    BY <2>1 DEF Groups, Permits, Denies
<1> QED
  BY <1>1 DEF IsPolicy

\* A role that is made changes nothing of what roles have, or will have.
LEMMA RoleFacts ==
    ASSUME NEW p, NEW name, IsPolicy(p)
    PROVE  /\ IsPolicy(Role(p, name)) /\ DOMAIN Role(p, name) = DOMAIN p \cup {name, "*"}
           /\ \A n : Groups(Role(p, name), n) = Groups(p, n)
           /\ \A n : Permits(Role(p, name), n) = Permits(p, n)
           /\ \A n : Denies(Role(p, name), n) = Denies(p, n)
<1> DEFINE new(n) == [roles |-> IF n = "*" THEN {} ELSE {"*"}, permit |-> << >>, deny |-> << >>]
           more   == {name, "*"} \ DOMAIN p
           q      == Role(p, name)
<1>1. q = [n \in DOMAIN p \cup more |-> IF n \in more THEN new(n) ELSE p[n]]
  BY DEF Role
<1>2. DOMAIN p \cup more = DOMAIN p \cup {name, "*"} /\ \A n \in more : n \notin DOMAIN p
  OBVIOUS
<1> HIDE DEF q, more
<1>3. DOMAIN q = DOMAIN p \cup {name, "*"}
  BY <1>1, <1>2
<1>4. ASSUME NEW n
      PROVE  /\ n \in more => q[n] = new(n)
             /\ n \in DOMAIN p => q[n] = p[n]
  BY <1>1, <1>2
<1>5. \A n \in DOMAIN q : n \in more \/ n \in DOMAIN p
  BY <1>2, <1>3
<1>6. IsPolicy(q)
  <2>1. ASSUME NEW n \in DOMAIN q
        PROVE  q[n] = [roles |-> q[n].roles, permit |-> q[n].permit, deny |-> q[n].deny]
    <3>1. CASE n \in more
      <4>1. q[n] = new(n)
        BY <1>4, <3>1
      <4> HIDE DEF q
      <4>2. q[n].roles = new(n).roles /\ q[n].permit = << >> /\ q[n].deny = << >>
        BY <4>1
      <4>3. new(n) = [roles |-> new(n).roles, permit |-> << >>, deny |-> << >>]
        OBVIOUS
      <4> QED
        BY <4>1, <4>2, <4>3
    <3>2. CASE n \in DOMAIN p
      BY <1>4, <3>2 DEF IsPolicy
    <3> QED
      BY <1>5, <3>1, <3>2
  <2>2. q = [n \in DOMAIN q |-> q[n]]
    BY <1>1
  <2> QED
    BY <2>1, <2>2 DEF IsPolicy
<1>7. ASSUME NEW n
      PROVE  /\ Groups(q, n) = Groups(p, n) /\ Permits(q, n) = Permits(p, n)
             /\ Denies(q, n) = Denies(p, n)
  <2>1. CASE n \in DOMAIN p
    BY <1>3, <1>4, <2>1 DEF Groups, Permits, Denies
  <2>2. CASE n \in more
    <3>1. q[n] = new(n) /\ n \in DOMAIN q /\ n \notin DOMAIN p
      BY <1>1, <1>2, <1>4, <2>2
    <3> QED
      BY <3>1 DEF Groups, Permits, Denies
  <2>3. CASE n \notin DOMAIN q
    <3>1. n \notin DOMAIN p
      BY <1>3, <2>3
    <3> QED
      BY <2>3, <3>1 DEF Groups, Permits, Denies
  <2> QED
    BY <1>5, <2>1, <2>2, <2>3
<1> QED
  BY <1>3, <1>6, <1>7 DEF q

\* What a rule adds.
LEMMA AssocFacts ==
    ASSUME NEW p, NEW r, IsPolicy(p), Assoc(r)
    PROVE  /\ IsPolicy(Add(p, r)) /\ DOMAIN Add(p, r) = DOMAIN p \cup {r.role, "*"} \cup {r.top}
           /\ \A n : Groups(Add(p, r), n) = Groups(p, n) \cup {r.top : x \in {r.role} \cap {n}}
           /\ \A n : Permits(Add(p, r), n) = Permits(p, n)
           /\ \A n : Denies(Add(p, r), n) = Denies(p, n)
<1> DEFINE o == Role(p, r.role)
           q == Role(o, r.top)
           z == Add(p, r)
<1>1. z = [q EXCEPT ![r.role].roles = @ \cup {r.top}]
  <2>1. r.perm = "@" /\ r.perm # "+" /\ r.perm # "-"
    BY DEF Assoc
  <2>2. Add(p, r) = AddGroup(p, r.role, r.top)
    <3> HIDE DEF o, q, z
    <3> QED
      BY <2>1 DEF Add, Assoc
  <2> QED
    BY <2>2 DEF AddGroup
<1>2. /\ IsPolicy(o) /\ DOMAIN o = DOMAIN p \cup {r.role, "*"}
      /\ \A n : Groups(o, n) = Groups(p, n)
      /\ \A n : Permits(o, n) = Permits(p, n)
      /\ \A n : Denies(o, n) = Denies(p, n)
  BY RoleFacts
<1> HIDE DEF o
<1>3. /\ IsPolicy(q) /\ DOMAIN q = DOMAIN o \cup {r.top, "*"}
      /\ \A n : Groups(q, n) = Groups(o, n)
      /\ \A n : Permits(q, n) = Permits(o, n)
      /\ \A n : Denies(q, n) = Denies(o, n)
  BY <1>2, RoleFacts
<1> HIDE DEF q, z
<1>4. DOMAIN z = DOMAIN q /\ r.role \in DOMAIN q /\ z = [n \in DOMAIN q |-> z[n]]
  BY <1>1, <1>2, <1>3
<1>5. \A n \in DOMAIN q : n # r.role => z[n] = q[n]
  BY <1>1
<1>6. z[r.role] = [q[r.role] EXCEPT !.roles = @ \cup {r.top}]
  BY <1>1, <1>4
<1>7. \A n \in DOMAIN q : q[n] = [roles |-> q[n].roles, permit |-> q[n].permit, deny |-> q[n].deny]
  BY <1>3 DEF IsPolicy
<1>8. z[r.role] = [roles |-> q[r.role].roles \cup {r.top}, permit |-> q[r.role].permit,
                   deny |-> q[r.role].deny]
  BY <1>4, <1>6, <1>7
<1>9. IsPolicy(z)
  <2>1. \A n \in DOMAIN q : z[n] = [roles |-> z[n].roles, permit |-> z[n].permit, deny |-> z[n].deny]
    BY <1>5, <1>7, <1>8
  <2> QED
    BY <1>4, <2>1 DEF IsPolicy
<1>10. ASSUME NEW n
       PROVE  /\ Groups(z, n) = Groups(q, n) \cup {r.top : x \in {r.role} \cap {n}}
              /\ Permits(z, n) = Permits(q, n) /\ Denies(z, n) = Denies(q, n)
  <2>1. CASE n = r.role
    <3>1. {r.top : x \in {r.role} \cap {n}} = {r.top}
      BY <2>1
    <3> QED
      BY <1>4, <1>8, <2>1, <3>1 DEF Groups, Permits, Denies
  <2>2. CASE n # r.role
    <3>1. {r.top : x \in {r.role} \cap {n}} = {}
      BY <2>2
    <3> QED
      BY <1>4, <1>5, <2>2, <3>1 DEF Groups, Permits, Denies
  <2> QED
    BY <2>1, <2>2
<1>11. DOMAIN z = DOMAIN p \cup {r.role, "*"} \cup {r.top}
  BY <1>2, <1>3, <1>4
<1> QED
  BY <1>2, <1>3, <1>9, <1>10, <1>11 DEF z

\* What the entries of one kind become with rule r of that kind.
Joined(acts, r, n) == IF n = r.role THEN AddAct(acts, r.top, r.op) ELSE acts

LEMMA EntryFacts ==
    ASSUME NEW p, NEW r, IsPolicy(p), r.perm \in {"+", "-"}
    PROVE  /\ IsPolicy(Add(p, r)) /\ DOMAIN Add(p, r) = DOMAIN p \cup {r.role, "*"}
           /\ \A n : Groups(Add(p, r), n) = Groups(p, n)
           /\ \A n : Permits(Add(p, r), n) = IF r.perm = "+" THEN Joined(Permits(p, n), r, n)
                                             ELSE Permits(p, n)
           /\ \A n : Denies(Add(p, r), n) = IF r.perm = "-" THEN Joined(Denies(p, n), r, n)
                                            ELSE Denies(p, n)
<1> DEFINE q == Role(p, r.role)
           z == Add(p, r)
           permit == IF r.perm = "+" THEN AddAct(q[r.role].permit, r.top, r.op) ELSE q[r.role].permit
           deny == IF r.perm = "-" THEN AddAct(q[r.role].deny, r.top, r.op) ELSE q[r.role].deny
<1>0. r.perm # "@" /\ (r.perm = "+" \/ r.perm = "-") /\ ~(r.perm = "+" /\ r.perm = "-")
  OBVIOUS
<1>1. z = IF r.perm = "+" THEN [q EXCEPT ![r.role].permit = AddAct(@, r.top, r.op)]
          ELSE [q EXCEPT ![r.role].deny = AddAct(@, r.top, r.op)]
  BY <1>0 DEF Add, Assoc
<1>2. /\ IsPolicy(q) /\ DOMAIN q = DOMAIN p \cup {r.role, "*"}
      /\ \A n : Groups(q, n) = Groups(p, n)
      /\ \A n : Permits(q, n) = Permits(p, n)
      /\ \A n : Denies(q, n) = Denies(p, n)
  BY RoleFacts
<1> HIDE DEF q, z
<1>3. r.role \in DOMAIN q
  BY <1>2
<1>4. DOMAIN z = DOMAIN q /\ z = [n \in DOMAIN q |-> z[n]]
  BY <1>1
<1>5. \A n \in DOMAIN q : n # r.role => z[n] = q[n]
  BY <1>1
<1>6. \A n \in DOMAIN q : q[n] = [roles |-> q[n].roles, permit |-> q[n].permit, deny |-> q[n].deny]
  BY <1>2 DEF IsPolicy
<1>7. z[r.role] = [roles |-> q[r.role].roles, permit |-> permit, deny |-> deny]
  <2>1. CASE r.perm = "+"
    <3>1. z[r.role] = [q[r.role] EXCEPT !.permit = AddAct(@, r.top, r.op)]
      BY <1>1, <1>3, <2>1
    <3> QED
      BY <1>0, <1>3, <1>6, <2>1, <3>1
  <2>2. CASE r.perm = "-"
    <3>1. z[r.role] = [q[r.role] EXCEPT !.deny = AddAct(@, r.top, r.op)]
      BY <1>0, <1>1, <1>3, <2>2
    <3> QED
      BY <1>0, <1>3, <1>6, <2>2, <3>1
  <2> QED
    BY <1>0, <2>1, <2>2
<1> HIDE DEF permit, deny
<1>8. IsPolicy(z)
  <2>1. \A n \in DOMAIN q : z[n] = [roles |-> z[n].roles, permit |-> z[n].permit, deny |-> z[n].deny]
    BY <1>5, <1>6, <1>7
  <2> QED
    BY <1>4, <2>1 DEF IsPolicy
<1>9. ASSUME NEW n
      PROVE  /\ Groups(z, n) = Groups(q, n)
             /\ Permits(z, n) = IF r.perm = "+" THEN Joined(Permits(q, n), r, n) ELSE Permits(q, n)
             /\ Denies(z, n) = IF r.perm = "-" THEN Joined(Denies(q, n), r, n) ELSE Denies(q, n)
  <2>1. CASE n = r.role
    <3>1. /\ Groups(z, n) = z[n].roles /\ Permits(z, n) = z[n].permit /\ Denies(z, n) = z[n].deny
          /\ Groups(q, n) = q[n].roles /\ Permits(q, n) = q[n].permit /\ Denies(q, n) = q[n].deny
      BY <1>3, <1>4, <2>1 DEF Groups, Permits, Denies
    <3>2. z[n].roles = q[n].roles /\ z[n].permit = permit /\ z[n].deny = deny
      BY <1>7, <2>1
    <3> QED
      BY <2>1, <3>1, <3>2 DEF Joined, permit, deny
  <2>2. CASE n # r.role
    BY <1>4, <1>5, <2>2 DEF Groups, Permits, Denies, Joined
  <2> QED
    BY <2>1, <2>2
<1> QED
  BY <1>2, <1>4, <1>8, <1>9 DEF z

Others == PolRules \ Assocs

\* The roles that the rules of a set make, and the groups they put role n in.
Mentioned(S) ==
    {r.role : r \in S} \cup {r.top : r \in S \cap Assocs} \cup {x \in {"*"} : S # {}}
InGroups(S, n) ==
    (IF n = "*" THEN {} ELSE {"*"}) \cup {r.top : r \in {x \in S \cap Assocs : x.role = n}}

\* What the policy p of the rules rs is: its roles and groups depend on which
\* rules there are, its entries on what is no association.
ViewOf(rs, p, o) ==
    /\ IsPolicy(p) /\ DOMAIN p = Mentioned(ToSet(rs))
    /\ \A n : Groups(p, n) = InGroups(ToSet(rs), n)
    /\ \A n : Permits(p, n) = Permits(o, n)
    /\ \A n : Denies(p, n) = Denies(o, n)

LEMMA ViewEmpty == ViewOf(<< >>, << >>, << >>)
<1> DEFINE e == << >>
<1>1. DOMAIN e = {} /\ e = [n \in {} |-> n]
  OBVIOUS
<1>2. ToSet(e) = {}
  BY ToSetEmpty
<1> HIDE DEF e
<1>3. IsPolicy(e)
  BY <1>1 DEF IsPolicy
<1>4. DOMAIN e = Mentioned({})
  BY <1>1 DEF Mentioned
<1>5. \A n : Groups(e, n) = InGroups({}, n)
  BY <1>1 DEF Groups, InGroups
<1>6. ViewOf(e, e, e)
  BY <1>2, <1>3, <1>4, <1>5 DEF ViewOf
<1> QED
  BY <1>6 DEF e

LEMMA ViewStep ==
    ASSUME NEW rs \in Seq(PolRules), NEW r \in PolRules, NEW p, NEW o, IsPolicy(o),
           ViewOf(rs, p, o)
    PROVE  ViewOf(Append(rs, r), Add(p, r), IF r \in Others THEN Add(o, r) ELSE o)
<1> DEFINE S == ToSet(rs)
           T == ToSet(Append(rs, r))
           z == Add(p, r)
           v == IF r \in Others THEN Add(o, r) ELSE o
<1>1. T = S \cup {r}
  BY ToSetAppend
<1>2. /\ IsPolicy(p) /\ DOMAIN p = Mentioned(S)
      /\ \A n : Groups(p, n) = InGroups(S, n)
      /\ \A n : Permits(p, n) = Permits(o, n)
      /\ \A n : Denies(p, n) = Denies(o, n)
  BY DEF ViewOf
<1>3. r.perm \in {"@", "+", "-"}
  BY RulesAssumption
<1>4. r.role \in Mentioned(S \cup {r}) /\ "*" \in Mentioned(S \cup {r})
  BY DEF Mentioned
<1>5. CASE r \in Assocs
  <2>1. Assoc(r) /\ r \notin Others
    BY <1>5 DEF Assocs, Others
  <2>2. /\ IsPolicy(z) /\ DOMAIN z = DOMAIN p \cup {r.role, "*"} \cup {r.top}
        /\ \A n : Groups(z, n) = Groups(p, n) \cup {r.top : x \in {r.role} \cap {n}}
        /\ \A n : Permits(z, n) = Permits(p, n)
        /\ \A n : Denies(z, n) = Denies(p, n)
    BY <1>2, <2>1, AssocFacts
  <2>3. v = o
    BY <2>1
  <2> HIDE DEF S, T, z, v
  <2>4. Mentioned(T) = Mentioned(S) \cup {r.role, "*"} \cup {r.top}
    BY <1>1, <1>5 DEF Mentioned
  <2>5. ASSUME NEW n
        PROVE  InGroups(T, n) = InGroups(S, n) \cup {r.top : x \in {r.role} \cap {n}}
    <3>1. CASE n = r.role
      <4>1. {r.top : x \in {r.role} \cap {n}} = {r.top}
        BY <3>1
      <4>2. {x \in T \cap Assocs : x.role = n} = {x \in S \cap Assocs : x.role = n} \cup {r}
        BY <1>1, <1>5, <3>1
      <4> QED
        BY <4>1, <4>2 DEF InGroups
    <3>2. CASE n # r.role
      <4>1. {r.top : x \in {r.role} \cap {n}} = {}
        BY <3>2
      <4>2. {x \in T \cap Assocs : x.role = n} = {x \in S \cap Assocs : x.role = n}
        BY <1>1, <3>2
      <4> QED
        BY <4>1, <4>2 DEF InGroups
    <3> QED
      BY <3>1, <3>2
  <2>6. ViewOf(Append(rs, r), z, v)
    BY <1>2, <2>2, <2>3, <2>4, <2>5 DEF ViewOf, T
  <2> QED
    BY <2>6 DEF z, v
<1>6. CASE r \notin Assocs
  <2>1. r.perm \in {"+", "-"} /\ r \in Others
    BY <1>3, <1>6 DEF Assocs, Others, Assoc
  <2>2. /\ IsPolicy(z) /\ DOMAIN z = DOMAIN p \cup {r.role, "*"}
        /\ \A n : Groups(z, n) = Groups(p, n)
        /\ \A n : Permits(z, n) = IF r.perm = "+" THEN Joined(Permits(p, n), r, n)
                                  ELSE Permits(p, n)
        /\ \A n : Denies(z, n) = IF r.perm = "-" THEN Joined(Denies(p, n), r, n)
                                 ELSE Denies(p, n)
    BY <1>2, <2>1, EntryFacts
  <2>3. v = Add(o, r)
    BY <2>1
  <2>4. /\ \A n : Permits(v, n) = IF r.perm = "+" THEN Joined(Permits(o, n), r, n)
                                  ELSE Permits(o, n)
        /\ \A n : Denies(v, n) = IF r.perm = "-" THEN Joined(Denies(o, n), r, n)
                                 ELSE Denies(o, n)
    <3> HIDE DEF v
    <3> QED
      BY <2>1, <2>3, EntryFacts
  <2> HIDE DEF S, T, z, v
  <2>5. Mentioned(T) = Mentioned(S) \cup {r.role, "*"}
    BY <1>1, <1>6 DEF Mentioned
  <2>6. ASSUME NEW n PROVE InGroups(T, n) = InGroups(S, n)
    <3>1. {x \in T \cap Assocs : x.role = n} = {x \in S \cap Assocs : x.role = n}
      BY <1>1, <1>6
    <3> QED
      BY <3>1 DEF InGroups
  <2>7. \A n : Permits(z, n) = Permits(v, n)
    BY <1>2, <2>2, <2>4
  <2>8. \A n : Denies(z, n) = Denies(v, n)
    BY <1>2, <2>2, <2>4
  <2>9. ViewOf(Append(rs, r), z, v)
    BY <1>2, <2>2, <2>5, <2>6, <2>7, <2>8 DEF ViewOf, T
  <2> QED
    BY <2>9 DEF z, v
<1> QED
  BY <1>5, <1>6

LEMMA PolicyView ==
    \A rs \in Seq(PolRules) :
        /\ IsPolicy(Policy(Only(rs, Others)))
        /\ ViewOf(rs, Policy(rs), Policy(Only(rs, Others)))
<1> DEFINE Viewed(rs) == /\ IsPolicy(Policy(Only(rs, Others)))
                       /\ ViewOf(rs, Policy(rs), Policy(Only(rs, Others)))
           Z == {rs \in Seq(PolRules) : Viewed(rs)}
<1>1. << >> \in Z
  <2>1. Policy(<< >>) = << >> /\ Only(<< >>, Others) = << >> /\ << >> \in Seq(PolRules)
    BY PolicyEmpty, OnlyEmpty, EmptySeq
  <2>2. IsPolicy(<< >>)
    BY ViewEmpty DEF ViewOf
  <2> QED
    BY <2>1, <2>2, ViewEmpty
<1>2. ASSUME NEW rs \in Seq(PolRules), Viewed(rs), NEW r \in PolRules
      PROVE  Append(rs, r) \in Z
  <2> DEFINE z == Append(rs, r)
             o == Only(rs, Others)
             p == Policy(rs)
             q == Policy(o)
             v == IF r \in Others THEN Add(q, r) ELSE q
  <2>1. z \in Seq(PolRules) /\ o \in Seq(PolRules)
    BY AppendProperties, OnlyType
  <2>2. Policy(z) = Add(p, r)
    BY PolicyAppend
  <2>3. Only(z, Others) = IF r \in Others THEN Append(o, r) ELSE o
    BY OnlyAppend
  <2>4. IsPolicy(q) /\ ViewOf(rs, p, q)
    BY <1>2
  <2> HIDE DEF o, p
  <2>5. Policy(Append(o, r)) = Add(q, r)
    BY <2>1, PolicyAppend
  <2>6. Policy(Only(z, Others)) = v
    BY <2>3, <2>5
  <2> HIDE DEF q
  <2>7. ViewOf(Append(rs, r), Add(p, r), v)
    BY <2>4, ViewStep
  <2>8. IsPolicy(v)
    <3>1. CASE r \notin Others
      BY <2>4, <3>1
    <3>2. CASE r \in Others
      <4>1. r.perm \in {"+", "-"} /\ v = Add(q, r)
        BY <3>2, RulesAssumption DEF Others, Assocs, Assoc
      <4> HIDE DEF v
      <4> QED
        BY <2>4, <4>1, EntryFacts
    <3> QED
      BY <3>1, <3>2
  <2> HIDE DEF v, z
  <2>9. Viewed(z)
    BY <2>2, <2>6, <2>7, <2>8 DEF z
  <2> HIDE DEF Viewed
  <2> QED
    BY <2>1, <2>9 DEF z
<1>3. \A rs \in Seq(PolRules) : rs \in Z => \A r \in PolRules : Append(rs, r) \in Z
  BY <1>2
<1> HIDE DEF Viewed
<1>5. \A rs \in Z : Viewed(rs)
  OBVIOUS
<1> HIDE DEF Z
<1>4. Seq(PolRules) \subseteq Z
  BY <1>1, <1>3, SeqInduction
<1> QED
  BY <1>4, <1>5 DEF Viewed

\* The rules that are no association decide, in their order, with which rules
\* there are: where the associations stand does not matter.
LEMMA SameRules ==
    ASSUME NEW s \in Seq(PolRules), NEW t \in Seq(PolRules), ToSet(s) = ToSet(t),
           Only(s, Others) = Only(t, Others)
    PROVE  Policy(s) = Policy(t)
<1> DEFINE p == Policy(s)
           q == Policy(t)
           o == Policy(Only(s, Others))
<1>1. ViewOf(s, p, o)
  BY PolicyView
<1>2. ViewOf(t, q, o)
  BY PolicyView
<1> HIDE DEF p, q, o
<1>3. p = q
  <2>1. IsPolicy(p) /\ IsPolicy(q) /\ DOMAIN p = DOMAIN q
    BY <1>1, <1>2 DEF ViewOf
  <2>2. \A n : Groups(p, n) = Groups(q, n)
    BY <1>1, <1>2 DEF ViewOf
  <2>3. (\A n : Permits(p, n) = Permits(q, n)) /\ (\A n : Denies(p, n) = Denies(q, n))
    BY <1>1, <1>2 DEF ViewOf
  <2> QED
    BY <2>1, <2>2, <2>3, SamePolicy
<1> QED
  BY <1>3 DEF p, q

LEMMA OnlyNone ==
    \A rs \in Seq(PolRules) : Only(rs, {}) = << >>
<1> DEFINE Z == {rs \in Seq(PolRules) : Only(rs, {}) = << >>}
<1>1. << >> \in Z
  BY OnlyEmpty, EmptySeq
<1>2. ASSUME NEW rs \in Seq(PolRules), rs \in Z, NEW r \in PolRules
      PROVE  Append(rs, r) \in Z
  <2>1. Append(rs, r) \in Seq(PolRules)
    BY AppendProperties
  <2>2. Only(Append(rs, r), {}) = Only(rs, {})
    BY OnlyAppend
  <2> QED
    BY <1>2, <2>1, <2>2
<1>3. \A rs \in Seq(PolRules) : rs \in Z => \A r \in PolRules : Append(rs, r) \in Z
  BY <1>2
<1>4. \A rs \in Z : Only(rs, {}) = << >>
  OBVIOUS
<1> HIDE DEF Z
<1>5. Seq(PolRules) \subseteq Z
  BY <1>1, <1>3, SeqInduction
<1> QED
  BY <1>4, <1>5

LEMMA Regrouped ==
    ASSUME NEW rs \in Seq(PolRules)
    PROVE  /\ Policy(Only(rs, Assocs) \o Only(rs, Others)) = Policy(rs)
           /\ Policy(Only(rs, Others) \o Only(rs, Assocs)) = Policy(rs)
<1> DEFINE a == Only(rs, Assocs)
           b == Only(rs, Others)
           e == << >>
<1>1. a \in Seq(PolRules) /\ b \in Seq(PolRules)
  BY OnlyType
<1>2. /\ ToSet(a) = ToSet(rs) \cap Assocs /\ ToSet(b) = ToSet(rs) \cap Others
  BY OnlySet
<1>3. Assocs \cap Others = {} /\ Others \cap Others = Others
  BY DEF Others
<1>4. Only(a, Others) = e /\ Only(b, Others) = b
  BY <1>3, OnlyOnly, OnlyNone
<1>5. ToSet(rs) \subseteq Assocs \cup Others
  <2>1. ToSet(rs) \subseteq PolRules
    <3>1. ToSet(rs) = {rs[k] : k \in 1..Len(rs)}
      BY ToSetDef
    <3> QED
      BY <3>1, ElementOfSeq
  <2> QED
    BY <2>1 DEF Others
<1>6. e \o b = b /\ b \o e = b
  BY <1>1, ConcatEmptySeq
<1> HIDE DEF a, b, e
<1>7. a \o b \in Seq(PolRules) /\ b \o a \in Seq(PolRules)
  BY <1>1, ConcatProperties
<1>8. ToSet(a \o b) = ToSet(rs) /\ ToSet(b \o a) = ToSet(rs)
  <2>1. ToSet(a \o b) = ToSet(a) \cup ToSet(b) /\ ToSet(b \o a) = ToSet(b) \cup ToSet(a)
    BY <1>1, ConcatSet
  <2> QED
    BY <1>2, <1>5, <2>1
<1>9. Only(a \o b, Others) = Only(rs, Others) /\ Only(b \o a, Others) = Only(rs, Others)
  <2>1. Only(a \o b, Others) = Only(a, Others) \o Only(b, Others)
    BY <1>1, OnlyConcat
  <2>2. Only(b \o a, Others) = Only(b, Others) \o Only(a, Others)
    BY <1>1, OnlyConcat
  <2> QED
    BY <1>4, <1>6, <2>1, <2>2 DEF b
<1>10. Policy(a \o b) = Policy(rs)
  BY <1>7, <1>8, <1>9, SameRules
<1>11. Policy(b \o a) = Policy(rs)
  BY <1>7, <1>8, <1>9, SameRules
<1> QED
  BY <1>10, <1>11 DEF a, b

\* Role associations may be declared before or after other rules (pol/rules.go
\* Add, rules_test.go:36): whatever the rules are and however many, the policy of
\* the associations and then the rest, and of the rest and then the associations,
\* is the policy of the rules as they came.
THEOREM AssociationsAreAnywhere == PolSpec => []AssociationsAnywhere
<1> DEFINE Ty == rules \in Seq(PolRules)
<1>1. PolInit => Ty
  BY EmptySeq DEF PolInit
<1>2. Ty /\ [PolNext]_rules => Ty'
  BY AppendProperties DEF PolNext
<1>3. Ty => AssociationsAnywhere
  <2> SUFFICES ASSUME rules \in Seq(PolRules) PROVE AssociationsAnywhere
    OBVIOUS
  <2> DEFINE a == Only(rules, Assocs)
             b == Only(rules, Others)
  <2>1. Policy(a \o b) = Policy(rules) /\ Policy(b \o a) = Policy(rules)
    BY Regrouped
  <2> HIDE DEF a, b
  <2>2. /\ Decisions(Policy(a \o b)) = Decisions(Policy(rules))
        /\ Decisions(Policy(b \o a)) = Decisions(Policy(rules))
    BY <2>1
  <2> QED
    BY <2>2 DEF AssociationsAnywhere, a, b, Others
<1> HIDE DEF Ty
<1> QED
  BY <1>1, <1>2, <1>3, PTL DEF PolSpec
=============================================================================
