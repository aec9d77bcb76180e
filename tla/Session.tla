------------------------------- MODULE Session -------------------------------
(***************************************************************************)
(* Session recording: record start, record stop and timeline               *)
(* (src/session/session.c), for several gupt processes that work in one    *)
(* directory and share its .gupt/sessions.                                 *)
(*                                                                         *)
(* A log file is named after the session and the local time at which it    *)
(* began, to the second, and is opened with "w": whoever begins a session  *)
(* of that name when the local clock shows that time truncates the file,   *)
(* and each writer goes on at its own offset.  A local time comes twice    *)
(* when the clock is set back.                                             *)
(*                                                                         *)
(* The entries that the shell makes, "Session started" and "Session        *)
(* stopped", are equally long, so that a file is a sequence of lines in    *)
(* numbered places.  A line is <<session, what>>; a session is known by    *)
(* its number.  Hole is a line that was never written.  What is written to *)
(* a log that is open gets there: a full disk is not modelled.             *)
(*                                                                         *)
(* Not modelled: ks_session_log_command and the other ks_session_log_      *)
(* functions, ks_session_save and ks_session_cleanup, which nothing calls. *)
(***************************************************************************)
EXTENDS Naturals, Sequences, SequencesExt

CONSTANTS
  Procs,        \* gupt processes
  Names,        \* session names that can be part of a file name
  BadNames,     \* names for which fopen fails, as one with a slash
  MaxClock,     \* bound on the seconds that pass
  LocalTime,    \* what localtime shows for time(NULL) in each second
  MaxSessions   \* bound on the sessions begun

ASSUME BoundsAssumption == MaxClock \in Nat \ {0} /\ MaxSessions \in Nat
ASSUME LocalTimeAssumption == DOMAIN LocalTime = 1..MaxClock

VARIABLES
  pc,        \* what each process is doing
  session,   \* current_session of each process
  clock,     \* the second that it is
  logs,      \* the log files, from <<name, local time>> to their lines
  begun,     \* sessions begun so far
  sharers    \* history: the sessions that have opened each log file

vars == <<pc, session, clock, logs, begun, sharers>>

Times == {LocalTime[c] : c \in 1..MaxClock}
Keys == (Names \cup BadNames) \X Times
Hole == <<0, "hole">>
Lines == {Hole} \cup ((1..MaxSessions) \X {"started", "stopped"})

\* current_session after memset.
NoSession == [id |-> 0, key |-> <<>>, entries |-> <<>>, fp |-> FALSE, at |-> 0]

TypeOK ==
  /\ pc \in [Procs -> {"gone", "prompt", "open", "log"}]
  /\ \A p \in Procs :
       /\ session[p].id \in 0..MaxSessions
       /\ session[p].key \in {<<>>} \cup Keys
       /\ session[p].entries \in Seq({"started", "stopped"})
       /\ session[p].fp \in BOOLEAN
       /\ session[p].at \in Nat
  /\ clock \in 1..MaxClock
  /\ DOMAIN logs \subseteq Names \X Times
  /\ \A k \in DOMAIN logs : logs[k] \in Seq(Lines)
  /\ begun \in 0..MaxSessions
  /\ sharers \in [Keys -> Seq(1..MaxSessions)]

Init ==
  /\ pc = [p \in Procs |-> "gone"]
  /\ session = [p \in Procs |-> NoSession]
  /\ clock = 1
  /\ logs = <<>>
  /\ begun = 0
  /\ sharers = [k \in Keys |-> <<>>]

\* start_time > 0.
Active(p) == session[p].id # 0

-----------------------------------------------------------------------------
(* The log file of a session                                               *)

\* A line written at place i of a file, which grows as far as it must.
PutLine(lines, i, l) ==
  [j \in 1..(IF i > Len(lines) THEN i ELSE Len(lines)) |->
     IF j = i THEN l ELSE IF j <= Len(lines) THEN lines[j] ELSE Hole]

\* Variants of Logged: a file that could not be opened is written to; the
\* entry is made and not written, or written one line too far.
LoggedUnchecked(s, what) ==
  [s |-> [s EXCEPT !.entries = <<what>> \o @, !.at = @ + 1],
   logs |-> [k \in DOMAIN logs \cup {s.key} |->
               IF k # s.key THEN logs[k]
               ELSE PutLine(IF k \in DOMAIN logs THEN logs[k] ELSE <<>>,
                            s.at + 1, <<s.id, what>>)]]
LoggedUnwritten(s, what) ==
  [s |-> [s EXCEPT !.entries = <<what>> \o @], logs |-> logs]
LoggedAhead(s, what) ==
  [s |-> [s EXCEPT !.entries = <<what>> \o @, !.at = @ + 1],
   logs |-> IF s.fp THEN [logs EXCEPT ![s.key] =
                            PutLine(@, s.at + 2, <<s.id, what>>)] ELSE logs]

\* add_entry: the entry goes to the front of the list and, when there is a
\* log file, to the file; fflush leaves nothing behind in the buffer.
Logged(s, what) ==
  [s |-> [s EXCEPT !.entries = <<what>> \o @,
                   !.at = IF s.fp THEN @ + 1 ELSE @],
   logs |-> IF s.fp
              THEN [logs EXCEPT ![s.key] = PutLine(@, s.at + 1, <<s.id, what>>)]
              ELSE logs]

-----------------------------------------------------------------------------
(* The commands                                                            *)

Launch(p) ==
  /\ pc[p] = "gone"
  /\ pc' = [pc EXCEPT ![p] = "prompt"]
  /\ session' = [session EXCEPT ![p] = NoSession]
  /\ UNCHANGED <<clock, logs, begun, sharers>>

\* Variant of Ended: the old session is dropped, not stopped.
EndedQuietly(p) == logs

\* What ks_session_stop does to the log file of an active session.
Ended(p) == IF Active(p) THEN Logged(session[p], "stopped").logs ELSE logs

\* Variant of KeyOf: all sessions of a name share a file.
KeyWithoutTime(n) == <<n, LocalTime[1]>>

\* The name and the local time in the name of the log file.
KeyOf(n) == <<n, LocalTime[clock]>>

\* ks_session_start: a session that is recorded is stopped first; then the
\* new one is set up and named after the time.
RecordStart(p, n) ==
  /\ pc[p] = "prompt" /\ begun < MaxSessions
  /\ logs' = Ended(p)
  /\ begun' = begun + 1
  /\ session' = [session EXCEPT ![p] =
                   [NoSession EXCEPT !.id = begun + 1, !.key = KeyOf(n)]]
  /\ pc' = [pc EXCEPT ![p] = "open"]
  /\ UNCHANGED <<clock, sharers>>

\* fopen(filename, "w") creates or truncates the file, or fails, which is
\* not noticed.
OpenLog(p) ==
  /\ pc[p] = "open"
  /\ LET k == session[p].key
     IN IF k[1] \in BadNames
          THEN UNCHANGED <<session, logs, sharers>>
          ELSE /\ session' = [session EXCEPT ![p].fp = TRUE]
               /\ logs' = [x \in DOMAIN logs \cup {k} |->
                             IF x = k THEN <<>> ELSE logs[x]]
               /\ sharers' = [sharers EXCEPT ![k] = Append(@, session[p].id)]
  /\ pc' = [pc EXCEPT ![p] = "log"]
  /\ UNCHANGED <<clock, begun>>

LogStarted(p) ==
  /\ pc[p] = "log"
  /\ LET r == Logged(session[p], "started")
     IN session' = [session EXCEPT ![p] = r.s] /\ logs' = r.logs
  /\ pc' = [pc EXCEPT ![p] = "prompt"]
  /\ UNCHANGED <<clock, begun, sharers>>

\* ks_session_stop; without a session it is refused.  The entries are
\* forgotten, and not freed.
RecordStop(p) ==
  /\ pc[p] = "prompt" /\ Active(p)
  /\ logs' = Ended(p)
  /\ session' = [session EXCEPT ![p] = NoSession]
  /\ UNCHANGED <<pc, clock, begun, sharers>>

\* exit, end of input, or a crash: ks_shell_cleanup does not stop a session.
Leave(p) ==
  /\ pc[p] # "gone"
  /\ pc' = [pc EXCEPT ![p] = "gone"]
  /\ session' = [session EXCEPT ![p] = NoSession]
  /\ UNCHANGED <<clock, logs, begun, sharers>>

Tick ==
  /\ clock < MaxClock
  /\ clock' = clock + 1
  /\ UNCHANGED <<pc, session, logs, begun, sharers>>

Next ==
  \/ \E p \in Procs :
       \/ Launch(p) \/ OpenLog(p) \/ LogStarted(p) \/ RecordStop(p) \/ Leave(p)
       \/ \E n \in Names \cup BadNames : RecordStart(p, n)
  \/ Tick

Spec == Init /\ [][Next]_vars

-----------------------------------------------------------------------------
(* Properties                                                              *)

\* While nobody else has opened its file, the log of a session in progress
\* is its entries, oldest first: the list and the file do not drift apart
\* (session.c:92-125).
LogIsTimeline ==
  \A p \in Procs :
    (Active(p) /\ session[p].fp /\ sharers[session[p].key] = <<session[p].id>>) =>
      logs[session[p].key] =
        [i \in 1..Len(session[p].entries) |->
           <<session[p].id, Reverse(session[p].entries)[i]>>]

\* A session that ends by record stop or by the next record start leaves
\* "Session stopped" as the last of its lines, if its log was its own
\* (session.c:36-38, 72-90).
StoppedIsLogged ==
  [][\A p \in Procs :
       LET s == session[p]
       IN (/\ pc[p] = "prompt" /\ Active(p) /\ s.fp
           /\ pc'[p] # "gone" /\ session'[p].id # s.id
           /\ sharers[s.key] = <<s.id>>)
          => logs'[s.key] = << <<s.id, "started">>, <<s.id, "stopped">> >>]_vars

\* A log whose time does not come again and whose sessions are over.
Past(k) ==
  /\ k \in DOMAIN logs
  /\ \A c \in clock..MaxClock : LocalTime[c] # k[2]
  /\ \A p \in Procs : session[p].key # k

\* Only a session that begins under the same name when the local clock shows
\* the same time, in the same second or after the clock was set back to it
\* (as at the end of daylight saving time), can destroy a log
\* (session.c:52-61): once that time is over for good and so are the log's
\* sessions, no process takes the file up again and no line of it changes.
PastLogsAreSafe ==
  [][\A k \in Keys : Past(k) => Past(k)' /\ logs'[k] = logs[k]]_vars

\* A log has a line that was never written only where the session that
\* truncated it last is, or died, between fopen and its first line
\* (session.c:61-64): whoever truncates fills the first place, and nobody's
\* offset is more than one line ahead.
HolesAreFilled ==
  \A k \in DOMAIN logs :
    (\E i \in DOMAIN logs[k] : logs[k][i] = Hole) =>
      \A i \in DOMAIN logs[k] : logs[k][i] # <<Last(sharers[k]), "started">>
=============================================================================
