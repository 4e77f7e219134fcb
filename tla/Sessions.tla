------------------------------ MODULE Sessions ------------------------------
(***************************************************************************)
(* Sessions of a browser (ses): requests carry a token in a cookie or in a *)
(* header, the manager opens the session the token leads to or makes a new *)
(* one, and a handler saves or clears it.  Requests of one browser overlap *)
(* and each response sets the cookie last written to it.                   *)
(*                                                                         *)
(* A token is the session it leads to and the codec that encoded it; a     *)
(* codec decodes its own tokens and may fail to encode.  The store is the  *)
(* application's: it gives new sessions unused ids, may fail to save or    *)
(* delete one, and may forget one.                                         *)
(***************************************************************************)
EXTENDS Integers, FiniteSets, SequencesExt

CONSTANTS Sids,      \* session ids
          Codecs,    \* codecs, of the past and to come
          Reqs,      \* requests under way at the same time
          Readers,   \* the configurations: the token readers, in order
          MaxRotations  \* bound on the codecs introduced and dropped

ASSUME SessionsAssumption == Readers \in Seq({"header", "cookie"})

VARIABLES codecs,   \* the codecs of the configurations, in order
          stored,   \* the sessions the store has
          given,     \* the ids the store gave
          jar,      \* the browser's cookie
          reqs,     \* the requests: the tokens they carry, the session they were given,
                    \* and the cookie their response sets, the last one written
          lost,     \* sessions that were not saved, were cleared or forgotten
          rotated   \* codecs introduced and dropped so far
sesVars == <<codecs, stored, given, jar, reqs, lost, rotated>>

NoTok == [none |-> 0]
Token == [sid : Sids, codec : Codecs]
Free  == [done |-> TRUE]

SesInit ==
    /\ codecs \in {<<c>> : c \in Codecs}
    /\ stored = {} /\ given = {} /\ jar = NoTok
    /\ reqs = [r \in Reqs |-> Free]
    /\ lost = {} /\ rotated = 0

-----------------------------------------------------------------------------
\* Mutant of DecodeToken: only the first codec is tried.
DecodeFirst(tok) == IF tok # NoTok /\ tok.codec = codecs[1] THEN {tok.sid} ELSE {}

\* readAndDecode: the session a token leads to, if any codec decodes it.
DecodeToken(tok) == IF tok # NoTok /\ tok.codec \in ToSet(codecs) THEN {tok.sid} ELSE {}

\* Read looks at the readers in order and follows the first token that decodes,
\* also when the store does not know its session; how is its reader, or "none".
Read(toks) ==
    LET opens == {i \in DOMAIN Readers : DecodeToken(toks[Readers[i]]) # {}}
        how   == IF opens = {} THEN "none" ELSE Readers[CHOOSE i \in opens : \A j \in opens : i <= j]
    IN  IF how = "none" THEN [how |-> how, sids |-> {}]
        ELSE [how |-> how, sids |-> DecodeToken(toks[how]) \cap stored]

\* Provider.ServeHTTP and ReadOrCreate.  A cookie whose session is gone is cleared;
\* where nothing was read a session is made that is to have a cookie.
Serve(r) ==
    \E header \in {NoTok} \cup {t \in Token : t.sid \in given} :
        LET toks == [header |-> header, cookie |-> jar]
            found == Read(toks)
            resp == IF found.how = "cookie" /\ found.sids = {} THEN <<NoTok>> ELSE << >>
        IN  /\ reqs[r] = Free
            /\ \/ /\ found.sids # {}
                  /\ \E sid \in found.sids :
                        reqs' = [reqs EXCEPT ![r] =
                            [toks |-> toks, sid |-> sid, new |-> FALSE, resp |-> resp]]
                  /\ given' = given
               \/ /\ found.sids = {}
                  /\ \E sid \in Sids \ given :
                        /\ reqs' = [reqs EXCEPT ![r] =
                               [toks |-> toks, sid |-> sid, new |-> TRUE, resp |-> resp]]
                        /\ given' = given \cup {sid}
            /\ UNCHANGED <<codecs, stored, jar, lost, rotated>>

\* EncodeAndWrite: every codec encodes, and the token of the last one is written,
\* or none if that fails.
Encoded(sid) == {NoTok, [sid |-> sid, codec |-> Last(codecs)]}

\* Store.Save stores the session or fails.
StoreSave(sid) ==
    \/ stored' = stored \cup {sid} /\ lost' = lost \ {sid}
    \/ stored' = stored /\ lost' = IF sid \in stored THEN lost ELSE lost \cup {sid}

\* Save writes the cookie of a new session first, and does not store the session
\* when that fails; a new session stays new.
Save(r) ==
    /\ reqs[r] # Free
    /\ IF ~reqs[r].new THEN StoreSave(reqs[r].sid) /\ reqs' = reqs
       ELSE \E tok \in Encoded(reqs[r].sid) :
               IF tok = NoTok \/ "cookie" \notin ToSet(Readers)
               THEN UNCHANGED <<reqs, stored, lost>>
               ELSE /\ reqs' = [reqs EXCEPT ![r].resp = <<tok>>]
                    /\ StoreSave(reqs[r].sid)
    /\ UNCHANGED <<codecs, given, jar, rotated>>

\* Clear deletes the session of the request's cookie, whatever session was opened.
Clear(r) ==
    /\ reqs[r] # Free /\ "cookie" \in ToSet(Readers)
    /\ reqs' = [reqs EXCEPT ![r].resp = <<NoTok>>]
    /\ LET sids == DecodeToken(reqs[r].toks.cookie)
       IN  \/ stored' = stored \ sids /\ lost' = lost \cup sids
           \/ stored' = stored /\ lost' = lost
    /\ UNCHANGED <<codecs, given, jar, rotated>>

\* The response reaches the browser, or does not.
Respond(r) ==
    /\ reqs[r] # Free
    /\ reqs' = [reqs EXCEPT ![r] = Free]
    /\ jar' \in {jar} \cup ToSet(reqs[r].resp)
    /\ UNCHANGED <<codecs, stored, given, lost, rotated>>

-----------------------------------------------------------------------------
\* The store forgets a session.
Forget ==
    /\ \E sid \in stored : stored' = stored \ {sid} /\ lost' = lost \cup {sid}
    /\ UNCHANGED <<codecs, given, jar, reqs, rotated>>

\* The program is started anew with a codec more, or without the oldest.
Rotate ==
    /\ rotated < MaxRotations /\ rotated' = rotated + 1
    /\ \A r \in Reqs : reqs[r] = Free
    /\ \/ \E c \in Codecs \ ToSet(codecs) : codecs' = <<c>> \o codecs
       \/ Len(codecs) > 1 /\ codecs' = Front(codecs)
    /\ UNCHANGED <<stored, given, jar, reqs, lost>>

SesNext ==
    \/ \E r \in Reqs : Serve(r) \/ Save(r) \/ Clear(r) \/ Respond(r)
    \/ Forget \/ Rotate

-----------------------------------------------------------------------------
\* The cookie a browser holds opens the session it was set for, however requests
\* overlap and codecs are introduced, unless its codec was dropped or the session
\* itself was: the store failed to save it, forgot it, or it was cleared.
CookieOpens ==
    jar # NoTok =>
        \/ jar.codec \notin ToSet(codecs)
        \/ jar.sid \in lost
        \/ Read([header |-> NoTok, cookie |-> jar]).sids = {jar.sid}
=============================================================================
