---------------------------- MODULE SessionProofs ----------------------------
(***************************************************************************)
(* The safety of session logs for any number of processes, names, seconds  *)
(* and sessions: a log that is not shared is the timeline of its session,  *)
(* to the last line, and a log of the past stays as it is.                 *)
(***************************************************************************)
EXTENDS Session, SequenceTheorems, TLAPS

USE BoundsAssumption

-----------------------------------------------------------------------------
(* The inductive invariant                                                 *)

Sessions ==
  [id : 0..MaxSessions, key : {<<>>} \cup Keys,
   entries : Seq({"started", "stopped"}), fp : BOOLEAN, at : Nat]

Types ==
  /\ TypeOK
  /\ session \in [Procs -> Sessions]
  /\ logs \in [DOMAIN logs -> Seq(Lines)]

\* A session is what its process's place in record start says.
Phase(p) ==
  LET s == session[p]
  IN /\ s.id <= begun
     /\ s.fp => s.id # 0
     /\ s.id = 0 => s.entries = <<>>
     /\ s.id # 0 => /\ pc[p] # "gone"
                    /\ s.key \in Keys
     /\ pc[p] \in {"open", "log"} =>
          s.id # 0 /\ s.entries = <<>> /\ s.at = 0
     /\ pc[p] = "open" => ~s.fp
     /\ pc[p] = "prompt" /\ s.id # 0 => s.entries = <<"started">>
     /\ pc[p] = "prompt" /\ s.fp => s.at = 1

\* No two processes record the same session.
OneRecorder ==
  \A p, q \in Procs :
    p # q /\ session[p].id # 0 => session[p].id # session[q].id

\* The log as a session leaves it that has the file for itself.
OwnLog(p) ==
  IF pc[p] = "prompt" THEN << <<session[p].id, "started">> >> ELSE <<>>

\* The session of p is among those that opened its file; when there is no
\* other, the file is its log.
Mine(p) ==
  LET s == session[p]
  IN s.fp => /\ s.key \in DOMAIN logs
             /\ Len(sharers[s.key]) >= 1
             /\ Len(sharers[s.key]) = 1 =>
                  sharers[s.key][1] = s.id /\ logs[s.key] = OwnLog(p)

\* No log has more than two lines; what is in the second place, a session
\* has stopped with.
TwoPlaces(lines) ==
  /\ Len(lines) <= 2
  /\ Len(lines) = 2 =>
       \E i \in 1..MaxSessions : lines[2] = <<i, "stopped">>

SessionInv ==
  /\ Types
  /\ \A p \in Procs : Phase(p) /\ Mine(p)
  /\ OneRecorder
  /\ \A k \in DOMAIN logs : TwoPlaces(logs[k])

LEMMA InitInv == Init => SessionInv
<1> SUFFICES ASSUME Init PROVE SessionInv
  OBVIOUS
<1> USE DEF Init
<1>1. \A S : <<>> \in Seq(S)
  OBVIOUS
<1>2. NoSession \in Sessions
  BY <1>1 DEF NoSession, Sessions
<1>3. clock \in 1..MaxClock
  OBVIOUS
<1>4. Types
  <2>1. \A p \in Procs : session[p] \in Sessions
    BY <1>2
  <2>2. sharers \in [Keys -> Seq(1..MaxSessions)] /\ DOMAIN logs = {}
    BY <1>1
  <2>3. TypeOK
    BY <1>3, <2>1, <2>2 DEF TypeOK, Sessions
  <2>4. QED  BY <2>1, <2>2, <2>3 DEF Types
<1>5. QED
  BY <1>4 DEF SessionInv, Phase, Mine, OneRecorder, NoSession

-----------------------------------------------------------------------------
(* Writing a line                                                          *)

\* What a session writes stays within the two places.
LEMMA Put ==
  ASSUME NEW lines \in Seq(Lines), TwoPlaces(lines),
         NEW i \in 1..2, NEW n \in 1..MaxSessions,
         NEW what \in {"started", "stopped"}, i = 2 => what = "stopped"
  PROVE  /\ PutLine(lines, i, <<n, what>>) \in Seq(Lines)
         /\ TwoPlaces(PutLine(lines, i, <<n, what>>))
<1> DEFINE len == IF i > Len(lines) THEN i ELSE Len(lines)
           l == <<n, what>>
           new == PutLine(lines, i, l)
<1>1. len \in Nat /\ Len(lines) \in Nat
  OBVIOUS
<1>2. l \in Lines /\ Hole \in Lines
  BY DEF Lines
<1>3. \A j \in 1..Len(lines) : lines[j] \in Lines
  BY ElementOfSeq
<1>4. new \in [1..len -> Lines]
  BY <1>1, <1>2, <1>3 DEF PutLine
<1>5. new \in Seq(Lines) /\ Len(new) = len
  BY <1>1, <1>4
<1>6. len <= 2
  BY DEF TwoPlaces
<1>7. ASSUME len = 2
      PROVE  \E k \in 1..MaxSessions : new[2] = <<k, "stopped">>
  <2> HIDE DEF l
  <2>1. 2 \in 1..len
    BY <1>1, <1>7
  <2>2. new[2] = IF 2 = i THEN l ELSE IF 2 <= Len(lines) THEN lines[2] ELSE Hole
    BY <2>1 DEF PutLine
  <2>3. CASE i = 2
    BY <2>2, <2>3 DEF l
  <2>4. CASE i = 1
    BY <1>1, <1>7, <2>2, <2>4 DEF TwoPlaces
  <2>5. QED  BY <2>3, <2>4
<1>8. QED  BY <1>5, <1>6, <1>7 DEF TwoPlaces

\* The session of p writes its next line.
LEMMA WriteLine ==
  ASSUME SessionInv, NEW p \in Procs, session[p].fp,
         NEW what \in {"started", "stopped"},
         session[p].at = IF what = "started" THEN 0 ELSE 1,
         logs' = Logged(session[p], what).logs
  PROVE  /\ logs' \in [DOMAIN logs -> Seq(Lines)]
         /\ DOMAIN logs' = DOMAIN logs
         /\ \A k \in DOMAIN logs' : TwoPlaces(logs'[k])
         /\ session[p].key \in DOMAIN logs
         /\ logs'[session[p].key] =
              PutLine(logs[session[p].key], session[p].at + 1,
                      <<session[p].id, what>>)
         /\ \A k \in DOMAIN logs :
              k # session[p].key => logs'[k] = logs[k]
<1> DEFINE s == session[p]
           line == PutLine(logs[s.key], s.at + 1, <<s.id, what>>)
<1>1. s.key \in DOMAIN logs /\ s.id \in 1..MaxSessions
  BY DEF SessionInv, Types, Sessions, Mine, Phase
<1>2. logs[s.key] \in Seq(Lines) /\ TwoPlaces(logs[s.key])
  BY <1>1 DEF SessionInv, Types
<1>3. s.at + 1 \in 1..2 /\ (s.at + 1 = 2 => what = "stopped")
  OBVIOUS
<1>4. line \in Seq(Lines) /\ TwoPlaces(line)
  BY <1>1, <1>2, <1>3, Put
<1>5. logs' = [logs EXCEPT ![s.key] = line]
  BY DEF Logged
<1>6. logs \in [DOMAIN logs -> Seq(Lines)]
  BY DEF SessionInv, Types
<1> HIDE DEF line
<1>7. /\ logs' \in [DOMAIN logs -> Seq(Lines)]
      /\ DOMAIN logs' = DOMAIN logs
      /\ logs'[s.key] = line
      /\ \A k \in DOMAIN logs : k # s.key => logs'[k] = logs[k]
  BY <1>1, <1>4, <1>5, <1>6
<1>8. \A k \in DOMAIN logs' : TwoPlaces(logs'[k])
  BY <1>1, <1>4, <1>7 DEF SessionInv
<1>9. QED  BY <1>1, <1>7, <1>8 DEF line

\* The session of another process that has its file for itself is not
\* touched by what p writes.
LEMMA OthersMine ==
  ASSUME SessionInv, NEW p \in Procs,
         \A q \in Procs : q # p => session'[q] = session[q] /\ pc'[q] = pc[q],
         sharers' = sharers, DOMAIN logs' = DOMAIN logs,
         \A k \in DOMAIN logs :
           logs'[k] = logs[k] \/ (session[p].fp /\ k = session[p].key)
  PROVE  \A q \in Procs : q # p => Mine(q)'
<1> SUFFICES ASSUME NEW q \in Procs, q # p, session[q].fp
             PROVE  /\ session[q].key \in DOMAIN logs
                    /\ Len(sharers[session[q].key]) >= 1
                    /\ Len(sharers[session[q].key]) = 1 =>
                         /\ sharers[session[q].key][1] = session[q].id
                         /\ logs'[session[q].key] = OwnLog(q)
  BY DEF Mine, OwnLog
<1>1. Mine(q) /\ Mine(p) /\ Phase(p)
  BY DEF SessionInv
<1>2. session[p].fp => session[p].id # session[q].id
  BY <1>1 DEF SessionInv, OneRecorder, Phase
<1>3. ASSUME Len(sharers[session[q].key]) = 1
      PROVE  logs'[session[q].key] = logs[session[q].key]
  BY <1>1, <1>2, <1>3 DEF Mine
<1>4. QED  BY <1>1, <1>3 DEF Mine

-----------------------------------------------------------------------------
(* record start, record stop and the rest                                  *)

\* current_session is set up.
LEMMA SetUp ==
  ASSUME NEW s \in Sessions, NEW i \in 0..MaxSessions, NEW k \in Keys
  PROVE  [s EXCEPT !.id = i, !.key = k] \in Sessions
BY DEF Sessions

LEMMA NoSessionType == NoSession \in Sessions
<1>1. <<>> \in Seq({"started", "stopped"})
  OBVIOUS
<1>2. QED  BY <1>1 DEF NoSession, Sessions

\* What record start and record stop leave of the logs.
LEMMA EndedLog ==
  ASSUME SessionInv, NEW p \in Procs, pc[p] = "prompt", logs' = Ended(p)
  PROVE  /\ logs' \in [DOMAIN logs -> Seq(Lines)]
         /\ DOMAIN logs' = DOMAIN logs
         /\ \A k \in DOMAIN logs' : TwoPlaces(logs'[k])
         /\ \A k \in DOMAIN logs :
              logs'[k] = logs[k] \/ (session[p].fp /\ k = session[p].key)
<1>1. CASE session[p].fp
  <2>1. session[p].at = 1 /\ Active(p)
    BY <1>1 DEF SessionInv, Phase, Active
  <2>2. logs' = Logged(session[p], "stopped").logs
    BY <2>1 DEF Ended
  <2>3. QED  BY <1>1, <2>1, <2>2, WriteLine
<1>2. CASE ~session[p].fp
  <2>1. logs' = logs
    BY <1>2 DEF Ended, Logged
  <2>2. QED  BY <2>1 DEF SessionInv, Types
<1>3. QED  BY <1>1, <1>2

LEMMA RecordStartInv ==
  ASSUME SessionInv, NEW p \in Procs, NEW n \in Names \cup BadNames,
         RecordStart(p, n)
  PROVE  SessionInv'
<1> USE DEF RecordStart
<1> DEFINE new == [NoSession EXCEPT !.id = begun + 1, !.key = KeyOf(n)]
<1>1. /\ logs' \in [DOMAIN logs -> Seq(Lines)]
      /\ DOMAIN logs' = DOMAIN logs
      /\ \A k \in DOMAIN logs' : TwoPlaces(logs'[k])
      /\ \A k \in DOMAIN logs :
           logs'[k] = logs[k] \/ (session[p].fp /\ k = session[p].key)
  BY EndedLog
<1>2. /\ begun \in Nat /\ clock \in 1..MaxClock
      /\ begun' = begun + 1 /\ begun + 1 \in 1..MaxSessions
      /\ clock' = clock
  BY DEF SessionInv, Types, TypeOK
<1>3. /\ new.id = begun + 1 /\ new.key = KeyOf(n)
      /\ new.entries = <<>> /\ new.fp = FALSE /\ new.at = 0
      /\ new.key \in Keys /\ new \in Sessions
  <2>1. /\ new.id = begun + 1 /\ new.key = KeyOf(n)
        /\ new.entries = <<>> /\ new.fp = FALSE /\ new.at = 0
    BY DEF NoSession
  <2>2. KeyOf(n) \in Keys
    BY <1>2 DEF KeyOf, Keys, Times
  <2>3. new \in Sessions
    <3>1. begun + 1 \in 0..MaxSessions
      BY <1>2
    <3> HIDE DEF RecordStart
    <3>2. QED  BY <2>2, <3>1, NoSessionType, SetUp
  <2> HIDE DEF new
  <2>4. QED  BY <2>1, <2>2, <2>3
<1> HIDE DEF new
<1>4. /\ session'[p] = new /\ pc'[p] = "open"
      /\ \A q \in Procs :
           q # p => session'[q] = session[q] /\ pc'[q] = pc[q]
  BY DEF SessionInv, Types, TypeOK, new
<1>5. session' \in [Procs -> Sessions]
  BY <1>3 DEF SessionInv, Types, new
<1>6. Types'
  BY <1>1, <1>2, <1>5 DEF SessionInv, Types, TypeOK, Sessions
<1>7. \A q \in Procs : Phase(q)'
  <2> HIDE DEF RecordStart
  <2>1. Phase(p)'
    BY <1>2, <1>3, <1>4 DEF Phase
  <2>2. \A q \in Procs : q # p => session[q].id \in Nat
    BY DEF SessionInv, Types, Sessions
  <2>3. \A q \in Procs : q # p => Phase(q)'
    BY <1>2, <1>4, <2>2 DEF SessionInv, Phase
  <2>4. QED  BY <2>1, <2>3
<1>8. \A q \in Procs : Mine(q)'
  BY <1>1, <1>3, <1>4, OthersMine DEF Mine
<1>9. OneRecorder'
  <2>1. \A q \in Procs : session[q].id # begun + 1
    BY <1>2 DEF SessionInv, Types, Sessions, Phase
  <2>2. QED  BY <1>2, <1>3, <1>4, <2>1 DEF SessionInv, OneRecorder
<1>10. QED  BY <1>1, <1>6, <1>7, <1>8, <1>9 DEF SessionInv

LEMMA OpenLogInv ==
  ASSUME SessionInv, NEW p \in Procs, OpenLog(p)
  PROVE  SessionInv'
<1> DEFINE k == session[p].key
<1>1. /\ pc[p] = "open" /\ pc'[p] = "log" /\ pc' = [pc EXCEPT ![p] = "log"]
      /\ UNCHANGED <<clock, begun>>
      /\ \A q \in Procs : q # p => pc'[q] = pc[q]
  BY DEF OpenLog, SessionInv, Types, TypeOK
<1>2. /\ Phase(p) /\ k \in Keys /\ session[p].id \in 1..MaxSessions
      /\ ~session[p].fp
  BY <1>1 DEF SessionInv, Phase, Types, Sessions
<1>3. CASE UNCHANGED <<session, logs, sharers>>
  <2>1. Types' /\ OneRecorder'
    BY <1>1, <1>3 DEF SessionInv, Types, TypeOK, Sessions, OneRecorder
  <2>2. \A q \in Procs : Phase(q)'
    BY <1>1, <1>2, <1>3 DEF SessionInv, Phase
  <2>3. \A q \in Procs : Mine(q)'
    BY <1>1, <1>2, <1>3 DEF SessionInv, Mine, OwnLog
  <2>4. QED  BY <1>3, <2>1, <2>2, <2>3 DEF SessionInv
<1>4. CASE /\ k[1] \notin BadNames
           /\ session' = [session EXCEPT ![p].fp = TRUE]
           /\ logs' = [x \in DOMAIN logs \cup {k} |->
                         IF x = k THEN <<>> ELSE logs[x]]
           /\ sharers' = [sharers EXCEPT ![k] = Append(@, session[p].id)]
  <2>1. <<>> \in Seq(Lines) /\ TwoPlaces(<<>>)
    BY DEF TwoPlaces
  <2>2. /\ DOMAIN logs' = DOMAIN logs \cup {k} /\ logs'[k] = <<>>
        /\ \A x \in DOMAIN logs : x # k => logs'[x] = logs[x]
        /\ logs' \in [DOMAIN logs' -> Seq(Lines)]
    BY <1>4, <2>1 DEF SessionInv, Types
  <2>3. k \in Names \X Times
    BY <1>2, <1>4 DEF Keys
  <2>4. /\ session' \in [Procs -> Sessions]
        /\ session'[p] = [session[p] EXCEPT !.fp = TRUE]
        /\ \A q \in Procs : q # p => session'[q] = session[q]
    BY <1>4 DEF SessionInv, Types, Sessions
  <2>5. /\ sharers[k] \in Seq(1..MaxSessions)
        /\ sharers'[k] = Append(sharers[k], session[p].id)
        /\ \A x \in Keys : x # k => sharers'[x] = sharers[x]
        /\ sharers' \in [Keys -> Seq(1..MaxSessions)]
    BY <1>2, <1>4 DEF SessionInv, Types, TypeOK
  <2>6. Types'
    BY <1>1, <2>2, <2>3, <2>4, <2>5 DEF SessionInv, Types, TypeOK, Sessions
  <2>7. /\ session'[p].id = session[p].id /\ session'[p].key = k
        /\ session'[p].entries = session[p].entries /\ session'[p].fp
        /\ session'[p].at = session[p].at
    BY <2>4 DEF SessionInv, Types, Sessions
  <2>8. \A q \in Procs : Phase(q)'
    <3>1. Phase(p)'
      BY <1>1, <1>2, <2>7 DEF Phase
    <3>2. \A q \in Procs : q # p => Phase(q)'
      BY <1>1, <2>4 DEF SessionInv, Phase
    <3>3. QED  BY <3>1, <3>2
  <2>9. OneRecorder'
    <3>1. \A q \in Procs : session'[q].id = session[q].id
      BY <2>4, <2>7
    <3>2. QED  BY <3>1 DEF SessionInv, OneRecorder
  <2>10. Mine(p)'
    <3>1. /\ Len(sharers'[k]) = Len(sharers[k]) + 1 /\ Len(sharers[k]) \in Nat
          /\ sharers'[k][Len(sharers[k]) + 1] = session[p].id
      BY <1>2, <2>5
    <3>2. QED  BY <1>1, <2>2, <2>7, <3>1 DEF Mine, OwnLog
  <2>11. ASSUME NEW q \in Procs, q # p, session[q].fp
         PROVE  Mine(q)'
    <3>1. Mine(q) /\ session[q].key \in Keys
      BY <2>11 DEF SessionInv, Phase
    <3>2. CASE session[q].key = k
      <4>1. Len(sharers'[k]) = Len(sharers[k]) + 1 /\ Len(sharers[k]) >= 1
        BY <1>2, <2>5, <2>11, <3>1, <3>2 DEF Mine
      <4>2. Len(sharers'[k]) >= 1 /\ Len(sharers'[k]) # 1
        BY <2>5, <4>1
      <4>3. QED  BY <2>2, <2>4, <2>11, <3>2, <4>2 DEF Mine
    <3>3. CASE session[q].key # k
      <4>1. /\ session'[q] = session[q] /\ pc'[q] = pc[q]
            /\ sharers'[session[q].key] = sharers[session[q].key]
        BY <1>1, <2>4, <2>5, <2>11, <3>1, <3>3
      <4>2. /\ session[q].key \in DOMAIN logs
            /\ session[q].key \in DOMAIN logs'
            /\ logs'[session[q].key] = logs[session[q].key]
        BY <2>2, <2>11, <3>1, <3>3 DEF Mine
      <4>3. QED  BY <3>1, <4>1, <4>2 DEF Mine, OwnLog
    <3>4. QED  BY <3>2, <3>3
  <2>12. \A q \in Procs : Mine(q)'
    BY <2>4, <2>10, <2>11 DEF Mine
  <2>13. \A x \in DOMAIN logs' : TwoPlaces(logs'[x])
    BY <2>1, <2>2 DEF SessionInv
  <2>14. QED  BY <2>6, <2>8, <2>9, <2>12, <2>13 DEF SessionInv
<1>5. QED  BY <1>3, <1>4 DEF OpenLog

LEMMA LogStartedInv ==
  ASSUME SessionInv, NEW p \in Procs, LogStarted(p)
  PROVE  SessionInv'
<1> DEFINE s == session[p]
<1>1. /\ pc[p] = "log" /\ pc' = [pc EXCEPT ![p] = "prompt"]
      /\ UNCHANGED <<clock, begun, sharers>>
      /\ session' = [session EXCEPT ![p] = Logged(s, "started").s]
      /\ logs' = Logged(s, "started").logs
  BY DEF LogStarted
<1>2. /\ Phase(p) /\ Mine(p) /\ s \in Sessions /\ s.id # 0 /\ s.entries = <<>>
      /\ s.at = 0
  BY <1>1 DEF SessionInv, Types, Phase
<1>3. /\ session'[p] = Logged(s, "started").s /\ pc'[p] = "prompt"
      /\ \A q \in Procs :
           q # p => session'[q] = session[q] /\ pc'[q] = pc[q]
  BY <1>1 DEF SessionInv, Types, TypeOK
<1>4. /\ session'[p].id = s.id /\ session'[p].key = s.key
      /\ session'[p].entries = <<"started">> /\ session'[p].fp = s.fp
      /\ session'[p].at = IF s.fp THEN 1 ELSE 0
      /\ session'[p] \in Sessions
  <2> DEFINE n == IF s.fp THEN 1 ELSE 0
  <2>1. session'[p] = [s EXCEPT !.entries = <<"started">> \o s.entries,
                                !.at = IF s.fp THEN s.at + 1 ELSE s.at]
    BY <1>3 DEF Logged
  <2>2. <<"started">> \o s.entries = <<"started">>
    BY <1>2
  <2>3. <<"started">> \in Seq({"started", "stopped"})
    OBVIOUS
  <2>4. (IF s.fp THEN s.at + 1 ELSE s.at) = n /\ n \in Nat
    BY <1>2
  <2> HIDE DEF n
  <2>5. session'[p] = [s EXCEPT !.entries = <<"started">>, !.at = n]
    BY <2>1, <2>2, <2>4
  <2>6. /\ session'[p].id = s.id /\ session'[p].key = s.key
        /\ session'[p].entries = <<"started">> /\ session'[p].fp = s.fp
        /\ session'[p].at = n /\ session'[p] \in Sessions
    BY <1>2, <2>3, <2>4, <2>5 DEF Sessions
  <2>7. QED  BY <2>6 DEF n
<1>5. /\ logs' \in [DOMAIN logs -> Seq(Lines)]
      /\ DOMAIN logs' = DOMAIN logs
      /\ \A k \in DOMAIN logs' : TwoPlaces(logs'[k])
      /\ \A k \in DOMAIN logs : logs'[k] = logs[k] \/ (s.fp /\ k = s.key)
  <2>1. CASE s.fp
    BY <1>1, <1>2, <2>1, WriteLine
  <2>2. CASE ~s.fp
    BY <1>1, <2>2 DEF Logged, SessionInv, Types
  <2>3. QED  BY <2>1, <2>2
<1>6. Types'
  <2>1. session' \in [Procs -> Sessions]
    BY <1>1, <1>3, <1>4 DEF SessionInv, Types
  <2>2. QED  BY <1>1, <1>5, <2>1 DEF SessionInv, Types, TypeOK, Sessions
<1>7. \A q \in Procs : Phase(q)'
  <2>1. Phase(p)'
    BY <1>1, <1>2, <1>3, <1>4 DEF Phase
  <2>2. \A q \in Procs : q # p => Phase(q)'
    BY <1>1, <1>3 DEF SessionInv, Phase
  <2>3. QED  BY <2>1, <2>2
<1>8. OneRecorder'
  <2>1. \A q \in Procs : session'[q].id = session[q].id
    BY <1>3, <1>4
  <2>2. QED  BY <2>1 DEF SessionInv, OneRecorder
<1>9. Mine(p)'
  <2> SUFFICES ASSUME s.fp
               PROVE  /\ s.key \in DOMAIN logs' /\ Len(sharers[s.key]) >= 1
                      /\ Len(sharers[s.key]) = 1 =>
                           /\ sharers[s.key][1] = s.id
                           /\ logs'[s.key] = << <<s.id, "started">> >>
    BY <1>1, <1>3, <1>4 DEF Mine, OwnLog
  <2>1. /\ s.key \in DOMAIN logs /\ Len(sharers[s.key]) >= 1
        /\ Len(sharers[s.key]) = 1 =>
             sharers[s.key][1] = s.id /\ logs[s.key] = <<>>
    BY <1>1, <1>2 DEF Mine, OwnLog
  <2>2. logs'[s.key] = PutLine(logs[s.key], 1, <<s.id, "started">>)
    <3>1. s.at = 0 /\ s.at + 1 = 1
      BY <1>2
    <3>2. QED  BY <1>1, <3>1, WriteLine
  <2>3. PutLine(<<>>, 1, <<s.id, "started">>) = << <<s.id, "started">> >>
    BY DEF PutLine
  <2>4. QED  BY <1>5, <2>1, <2>2, <2>3
<1>10. \A q \in Procs : Mine(q)'
  BY <1>1, <1>3, <1>5, <1>9, OthersMine
<1>11. QED  BY <1>5, <1>6, <1>7, <1>8, <1>10 DEF SessionInv

\* A process that has no session any more.
LEMMA NoSessionLeft ==
  ASSUME SessionInv, NEW p \in Procs, NEW place \in {"gone", "prompt"},
         session' = [session EXCEPT ![p] = NoSession],
         pc' = [pc EXCEPT ![p] = place], UNCHANGED <<clock, begun, sharers>>,
         logs' \in [DOMAIN logs -> Seq(Lines)], DOMAIN logs' = DOMAIN logs,
         \A k \in DOMAIN logs' : TwoPlaces(logs'[k]),
         \A k \in DOMAIN logs :
           logs'[k] = logs[k] \/ (session[p].fp /\ k = session[p].key)
  PROVE  SessionInv'
<1>1. /\ session'[p] = NoSession /\ pc'[p] = place
      /\ \A q \in Procs :
           q # p => session'[q] = session[q] /\ pc'[q] = pc[q]
  BY DEF SessionInv, Types, TypeOK
<1>2. Types'
  BY <1>1, NoSessionType DEF SessionInv, Types, TypeOK, Sessions
<1>3. \A q \in Procs : Phase(q)'
  <2>1. Phase(p)'
    BY <1>1 DEF SessionInv, Types, TypeOK, Phase, NoSession
  <2>2. \A q \in Procs : q # p => Phase(q)'
    BY <1>1 DEF SessionInv, Phase
  <2>3. QED  BY <2>1, <2>2
<1>4. \A q \in Procs : Mine(q)'
  BY <1>1, OthersMine DEF Mine, NoSession
<1>5. OneRecorder'
  BY <1>1 DEF SessionInv, OneRecorder, NoSession
<1>6. QED  BY <1>2, <1>3, <1>4, <1>5 DEF SessionInv

LEMMA LaunchInv ==
  ASSUME SessionInv, NEW p \in Procs, Launch(p)
  PROVE  SessionInv'
BY NoSessionLeft DEF Launch, SessionInv, Types

LEMMA RecordStopInv ==
  ASSUME SessionInv, NEW p \in Procs, RecordStop(p)
  PROVE  SessionInv'
<1>1. pc' = [pc EXCEPT ![p] = "prompt"]
  BY DEF RecordStop, SessionInv, Types, TypeOK
<1>2. QED  BY <1>1, EndedLog, NoSessionLeft DEF RecordStop

LEMMA LeaveInv ==
  ASSUME SessionInv, NEW p \in Procs, Leave(p)
  PROVE  SessionInv'
BY NoSessionLeft DEF Leave, SessionInv, Types

LEMMA TickInv ==
  ASSUME SessionInv, Tick
  PROVE  SessionInv'
<1>1. clock' \in 1..MaxClock
  BY DEF Tick, SessionInv, Types, TypeOK
<1>2. Types'
  BY <1>1 DEF Tick, SessionInv, Types, TypeOK
<1>3. \A p \in Procs : Phase(p)'
  BY DEF Tick, SessionInv, Phase
<1>4. /\ \A p \in Procs : Mine(p)'
      /\ OneRecorder' /\ \A k \in DOMAIN logs' : TwoPlaces(logs'[k])
  BY DEF Tick, SessionInv, Mine, OneRecorder, OwnLog
<1>5. QED  BY <1>2, <1>3, <1>4 DEF SessionInv

LEMMA NextInv == SessionInv /\ [Next]_vars => SessionInv'
<1> SUFFICES ASSUME SessionInv, [Next]_vars
             PROVE  SessionInv'
  OBVIOUS
<1>1. CASE UNCHANGED vars
  BY <1>1 DEF vars, SessionInv, Types, TypeOK, Phase, Mine, OneRecorder,
              OwnLog
<1>2. CASE Next
  BY <1>2, LaunchInv, RecordStartInv, OpenLogInv, LogStartedInv,
     RecordStopInv, LeaveInv, TickInv DEF Next
<1>3. QED  BY <1>1, <1>2

-----------------------------------------------------------------------------
(* The theorems                                                            *)

\* No two processes record one session; a session's list and its offset in
\* the file are what its place in record start says, and no log outgrows its
\* two lines (session.c:34-125).
THEOREM SessionInvariance == Spec => []SessionInv
BY InitInv, NextInv, PTL DEF Spec

\* The variables keep their types (session.c:9-90).
THEOREM SessionTypes == Spec => []TypeOK
<1>1. SessionInv => TypeOK
  BY DEF SessionInv, Types
<1>2. QED  BY <1>1, SessionInvariance, PTL

\* The log of a session that has its file for itself is the list of its
\* entries, oldest first (session.c:92-125).
THEOREM LogsFollowTimelines == Spec => []LogIsTimeline
<1>1. ASSUME SessionInv, NEW p \in Procs, Active(p), session[p].fp,
             sharers[session[p].key] = <<session[p].id>>
      PROVE  logs[session[p].key] =
               [i \in 1..Len(session[p].entries) |->
                  <<session[p].id, Reverse(session[p].entries)[i]>>]
  <2>1. Len(sharers[session[p].key]) = 1
    BY <1>1
  <2>2. /\ logs[session[p].key] = OwnLog(p)
        /\ pc[p] \in {"prompt", "open", "log"}
    BY <1>1, <2>1 DEF SessionInv, Mine, Phase, Types, TypeOK
  <2>3. CASE pc[p] = "prompt"
    <3>1. session[p].entries = <<"started">>
      BY <1>1, <2>3 DEF SessionInv, Phase, Active
    <3>2. [i \in 1..Len(<<"started">>) |->
             <<session[p].id, Reverse(<<"started">>)[i]>>]
            = << <<session[p].id, "started">> >>
      BY DEF Reverse
    <3>3. QED  BY <2>2, <2>3, <3>1, <3>2 DEF OwnLog
  <2>4. CASE pc[p] # "prompt"
    <3>1. session[p].entries = <<>>
      BY <1>1, <2>2, <2>4 DEF SessionInv, Phase
    <3>2. QED  BY <2>2, <2>4, <3>1 DEF OwnLog
  <2>5. QED  BY <2>3, <2>4
<1>2. SessionInv => LogIsTimeline
  BY <1>1 DEF LogIsTimeline
<1>3. QED  BY <1>2, SessionInvariance, PTL

\* A log with a hole has not got the first line of the session that has
\* truncated it last: nobody is further than one line ahead
\* (session.c:61-64).
THEOREM HolesAreStarts == Spec => []HolesAreFilled
<1>1. ASSUME SessionInv, NEW k \in DOMAIN logs,
             NEW h \in DOMAIN logs[k], logs[k][h] = Hole,
             NEW i \in DOMAIN logs[k]
      PROVE  logs[k][i] # <<Last(sharers[k]), "started">>
  <2>1. logs[k] \in Seq(Lines) /\ TwoPlaces(logs[k])
    BY <1>1 DEF SessionInv, Types
  <2>2. Len(logs[k]) \in 0..2 /\ DOMAIN logs[k] = 1..Len(logs[k])
    <3>1. Len(logs[k]) \in Nat /\ DOMAIN logs[k] = 1..Len(logs[k])
      BY <2>1, LenProperties
    <3>2. QED  BY <2>1, <3>1 DEF TwoPlaces
  <2>3. CASE i = 1
    <3>1. h = 1
      BY <1>1, <2>1, <2>2 DEF TwoPlaces, Hole
    <3>2. QED  BY <1>1, <2>3, <3>1 DEF Hole
  <2>4. CASE i = 2
    BY <2>1, <2>2, <2>4 DEF TwoPlaces
  <2>5. QED  BY <2>2, <2>3, <2>4
<1>2. SessionInv => HolesAreFilled
  BY <1>1 DEF HolesAreFilled
<1>3. QED  BY <1>2, SessionInvariance, PTL

\* A session that ends by record stop or record start leaves both of its
\* lines in a log that it had for itself (session.c:36-38, 72-90).
THEOREM StopsAreLogged == Spec => StoppedIsLogged
<1>1. ASSUME SessionInv, [Next]_vars, NEW p \in Procs,
             pc[p] = "prompt", Active(p), session[p].fp,
             pc'[p] # "gone", session'[p].id # session[p].id,
             sharers[session[p].key] = <<session[p].id>>
      PROVE  logs'[session[p].key] =
               << <<session[p].id, "started">>, <<session[p].id, "stopped">> >>
  <2> DEFINE s == session[p]
             old == << <<s.id, "started">> >>
  <2>1. s.at = 1 /\ s.key \in DOMAIN logs /\ logs[s.key] = old
    BY <1>1 DEF SessionInv, Phase, Mine, OwnLog
  <2>2. logs' = Ended(p)
    BY <1>1 DEF Next, vars, Launch, RecordStart, OpenLog, LogStarted,
                RecordStop, Leave, Tick, SessionInv, Types, TypeOK
  <2>3. logs' = Logged(s, "stopped").logs
    BY <1>1, <2>2 DEF Ended
  <2>4. logs'[s.key] = PutLine(logs[s.key], s.at + 1, <<s.id, "stopped">>)
    BY <1>1, <2>1, <2>3, WriteLine
  <2>5. PutLine(old, 2, <<s.id, "stopped">>) =
          << <<s.id, "started">>, <<s.id, "stopped">> >>
    BY DEF PutLine
  <2>6. QED  BY <2>1, <2>4, <2>5
<1>2. SessionInv /\ [Next]_vars =>
        [\A p \in Procs :
           LET s == session[p]
           IN (/\ pc[p] = "prompt" /\ Active(p) /\ s.fp
               /\ pc'[p] # "gone" /\ session'[p].id # s.id
               /\ sharers[s.key] = <<s.id>>)
              => logs'[s.key] = << <<s.id, "started">>,
                                   <<s.id, "stopped">> >>]_vars
  BY <1>1
<1>3. QED  BY <1>2, SessionInvariance, PTL DEF Spec, StoppedIsLogged

\* When its local time is over for good and so are its sessions, a log is not
\* opened again and keeps every line, whatever the local clock shows in the
\* seconds to come (session.c:52-61).
THEOREM PastLogsStay == Spec => PastLogsAreSafe
<1>1. ASSUME SessionInv, [Next]_vars, NEW k \in Keys, Past(k)
      PROVE  Past(k)' /\ logs'[k] = logs[k]
  <2>1. /\ k \in DOMAIN logs /\ \A c \in clock..MaxClock : LocalTime[c] # k[2]
        /\ \A p \in Procs : session[p].key # k
    BY <1>1 DEF Past
  <2>2. clock \in 1..MaxClock
    BY <1>1 DEF SessionInv, Types, TypeOK
  <2>3. NoSession.key # k
    <3>1. k = <<k[1], k[2]>>
      BY <1>1 DEF Keys
    <3>2. QED  BY <3>1 DEF NoSession
  <2>4. SUFFICES /\ k \in DOMAIN logs' /\ logs'[k] = logs[k]
                 /\ clock' \in {clock, clock + 1}
                 /\ \A p \in Procs : session'[p].key # k
    <3>1. \A c \in clock'..MaxClock : c \in clock..MaxClock
      BY <2>2, <2>4
    <3>2. QED  BY <2>1, <2>4, <3>1 DEF Past
  <2>5. ASSUME NEW p \in Procs, Launch(p) \/ Leave(p)
        PROVE  /\ logs' = logs /\ clock' = clock
               /\ \A q \in Procs : session'[q].key # k
    <3>1. /\ logs' = logs /\ clock' = clock
          /\ session' = [session EXCEPT ![p] = NoSession]
      BY <2>5 DEF Launch, Leave
    <3>2. QED  BY <1>1, <2>1, <2>3, <3>1 DEF SessionInv, Types
  <2>6. ASSUME NEW p \in Procs, RecordStop(p)
        PROVE  /\ k \in DOMAIN logs' /\ logs'[k] = logs[k] /\ clock' = clock
               /\ \A q \in Procs : session'[q].key # k
    <3>1. /\ clock' = clock /\ pc[p] = "prompt" /\ logs' = Ended(p)
          /\ session' = [session EXCEPT ![p] = NoSession]
      BY <2>6 DEF RecordStop
    <3>2. k \in DOMAIN logs' /\ logs'[k] = logs[k]
      BY <1>1, <2>1, <3>1, EndedLog
    <3>3. QED  BY <1>1, <2>1, <2>3, <3>1, <3>2 DEF SessionInv, Types
  <2>7. ASSUME NEW p \in Procs, NEW n \in Names \cup BadNames,
               RecordStart(p, n)
        PROVE  /\ k \in DOMAIN logs' /\ logs'[k] = logs[k] /\ clock' = clock
               /\ \A q \in Procs : session'[q].key # k
    <3> DEFINE new == [NoSession EXCEPT !.id = begun + 1, !.key = KeyOf(n)]
    <3>1. /\ clock' = clock /\ pc[p] = "prompt" /\ logs' = Ended(p)
          /\ session' = [session EXCEPT ![p] = new]
      BY <2>7 DEF RecordStart
    <3>2. k \in DOMAIN logs' /\ logs'[k] = logs[k]
      BY <1>1, <2>1, <3>1, EndedLog
    <3>3. new.key # k
      <4>1. new.key[2] = LocalTime[clock]
        BY DEF NoSession, KeyOf
      <4>2. clock \in clock..MaxClock
        BY <2>2
      <4>3. QED  BY <2>1, <4>1, <4>2
    <3> HIDE DEF new
    <3>4. QED  BY <1>1, <2>1, <3>1, <3>2, <3>3 DEF SessionInv, Types
  <2>8. ASSUME NEW p \in Procs, OpenLog(p)
        PROVE  /\ k \in DOMAIN logs' /\ logs'[k] = logs[k] /\ clock' = clock
               /\ \A q \in Procs : session'[q].key # k
    <3>1. clock' = clock
      BY <2>8 DEF OpenLog
    <3>2. CASE UNCHANGED <<session, logs>>
      BY <2>1, <3>1, <3>2
    <3>3. CASE /\ session' = [session EXCEPT ![p].fp = TRUE]
               /\ logs' = [x \in DOMAIN logs \cup {session[p].key} |->
                             IF x = session[p].key THEN <<>> ELSE logs[x]]
      <4>1. k \in DOMAIN logs' /\ logs'[k] = logs[k]
        BY <2>1, <3>3
      <4>2. [session[p] EXCEPT !.fp = TRUE].key = session[p].key
        BY <1>1 DEF SessionInv, Types, Sessions
      <4>3. session \in [Procs -> Sessions]
        BY <1>1 DEF SessionInv, Types
      <4>4. \A q \in Procs : session'[q].key = session[q].key
        BY <3>3, <4>2, <4>3
      <4>5. QED  BY <2>1, <3>1, <4>1, <4>4
    <3>4. QED  BY <2>8, <3>2, <3>3 DEF OpenLog
  <2>9. ASSUME NEW p \in Procs, LogStarted(p)
        PROVE  /\ k \in DOMAIN logs' /\ logs'[k] = logs[k] /\ clock' = clock
               /\ \A q \in Procs : session'[q].key # k
    <3>1. /\ clock' = clock
          /\ session' = [session EXCEPT ![p] = Logged(session[p], "started").s]
          /\ logs' = Logged(session[p], "started").logs
      BY <2>9 DEF LogStarted
    <3>2. k \in DOMAIN logs' /\ logs'[k] = logs[k]
      BY <1>1, <2>1, <3>1 DEF Logged, SessionInv, Types
    <3>3. Logged(session[p], "started").s.key = session[p].key
      <4>1. session[p] \in Sessions
        BY <1>1 DEF SessionInv, Types
      <4>2. QED  BY <4>1 DEF Logged, Sessions
    <3>4. QED  BY <1>1, <2>1, <3>1, <3>2, <3>3 DEF SessionInv, Types
  <2>10. CASE Tick
    BY <2>1, <2>2, <2>10 DEF Tick
  <2>11. CASE UNCHANGED vars
    BY <2>1, <2>2, <2>11 DEF vars
  <2>12. QED
    BY <1>1, <2>1, <2>2, <2>5, <2>6, <2>7, <2>8, <2>9, <2>10, <2>11 DEF Next
<1>2. SessionInv /\ [Next]_vars =>
        [\A k \in Keys : Past(k) => Past(k)' /\ logs'[k] = logs[k]]_vars
  BY <1>1
<1>3. QED  BY <1>2, SessionInvariance, PTL DEF Spec, PastLogsAreSafe
=============================================================================
