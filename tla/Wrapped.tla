-------------------------------- MODULE Wrapped --------------------------------
(***************************************************************************)
(* Wrapped (routes/wrapped.js): the statistics over playback events, the    *)
(* lock that opens them once in thirty days or on December 15, and the      *)
(* reports that administrators write.                                      *)
(*                                                                         *)
(* Events come in any order, as phones send theirs later (routes/offline.js *)
(* keeps the time of the phone).  "end" and "skip" close like "pause".      *)
(* Titles, labels, ranks, categories, the time zone and the persona are     *)
(* left out; days of a segment are those of its play.                       *)
(***************************************************************************)
EXTENDS Ordering, Sequences, SequencesExt

CONSTANTS
    Listener,       \* addresses that events carry
    NoAddress,      \* an event without one
    Track,
    TrackLength,    \* duration by track, 0 when unknown
    Instant,        \* times of events (a bound)
    DayLength,
    Spot,           \* positions (a bound)
    MaxEvents,
    Visit,          \* GET /current of one address
    Period,         \* days between two openings
    December,       \* days on which only the annual Wrapped opens
    OpeningDay,     \* the one on which it does
    MaxToday,
    Edit,           \* PUT /:id of one report
    PeriodDay,      \* first and last days of reports (a bound)
    NoReport

ASSUME WrappedAssumption ==
    /\ NoAddress \notin Listener /\ OpeningDay \in December /\ Period \in Nat \ {0}
    /\ DayLength \in Nat \ {0} /\ TrackLength \in [Track -> Nat]
    /\ Instant \in SUBSET Nat /\ IsFiniteSet(Instant) /\ Spot \in SUBSET Nat
    /\ PeriodDay \in SUBSET Nat /\ MaxEvents \in Nat /\ MaxToday \in Nat \ {0}

VARIABLES
    log,        \* playback_events, in the order of their ids
    today,
    nextOpen,   \* wrapped_access_locks.next_open_at of the address, 0 without a row
    visit,      \* the requests between the question for December and the lock
    opened,     \* history: the days on which the lock was acquired
    report,     \* the row of wrapped_reports
    edit        \* PUT requests between the read and the transaction

wrappedVars == <<log, today, nextOpen, visit, opened, report, edit>>

-----------------------------------------------------------------------------
Heard == [device : Listener \union {NoAddress}, track : Track, action : {"play", "pause"},
          at : Instant, position : Spot]

Report == [start : PeriodDay, end : PeriodDay]
Keep == -1  \* a field that the body does not have

WrappedTypeOK ==
    /\ log \in Seq(Heard) /\ Len(log) <= MaxEvents
    /\ today \in 1..MaxToday /\ nextOpen \in 0..(MaxToday + Period)
    /\ visit \in [Visit -> BOOLEAN] /\ opened \in Seq(1..MaxToday)
    /\ report \in Report \union {NoReport}
    /\ edit \in [Edit -> [given : [start : PeriodDay \union {Keep}, end : PeriodDay \union {Keep}],
                          start : PeriodDay, end : PeriodDay] \union {NoReport}]

WrappedInit ==
    /\ log = <<>>
    /\ today = 1 /\ nextOpen = 0 /\ visit = [v \in Visit |-> FALSE] /\ opened = <<>>
    /\ report = NoReport /\ edit = [e \in Edit |-> NoReport]

-----------------------------------------------------------------------------
(* Statistics *)

DayOf(event) == event.at \div DayLength
Days == {t \div DayLength : t \in Instant}
Key == (Listener \union {NoAddress}) \X Track
KeyOf(event) == <<event.device, event.track>>

\* By time, and by id where times are equal.
Earlier(i, j) == log[i].at < log[j].at \/ (log[i].at = log[j].at /\ i < j)
SortedEvents ==
    LET id == Ordered(DOMAIN log, {p \in (DOMAIN log) \X (DOMAIN log) : Earlier(p[1], p[2])})
    IN [k \in DOMAIN id |-> log[id[k]]]

\* Not longer than the clock, than the position moved, or than the track goes on.
Listened(play, stop) ==
    LET moved == Max({stop.position - play.position, 0})
        left == TrackLength[play.track] - play.position
    IN Min({moved, stop.at - play.at,
            IF TrackLength[play.track] > 0 THEN Max({left, 0}) ELSE moved})

NothingTallied ==
    [open |-> [k \in Key |-> <<>>], tracks |-> [t \in Track |-> 0],
     devices |-> [d \in Listener |-> 0], days |-> [d \in Days |-> 0],
     plays |-> [d \in Days |-> 0], time |-> 0]

Opens(tally, event) ==
    [tally EXCEPT !.open[KeyOf(event)] = <<event>>, !.plays[DayOf(event)] = @ + 1]

\* Mutant: the play stays open, and the next pause counts it again.
ClosesAgain(tally, event) ==
    IF tally.open[KeyOf(event)] = <<>> THEN tally
    ELSE LET listened == Listened(Head(tally.open[KeyOf(event)]), event)
         IN [tally EXCEPT !.tracks[event.track] = @ + listened, !.time = @ + listened]

\* The open play of the same device and track is taken off and counted.
Closes(tally, event) ==
    IF tally.open[KeyOf(event)] = <<>> THEN tally
    ELSE LET play == Head(tally.open[KeyOf(event)])
             listened == Listened(play, event)
         IN [tally EXCEPT !.open[KeyOf(event)] = <<>>,
                          !.tracks[event.track] = @ + listened,
                          !.devices = [d \in Listener |-> IF d = event.device
                                                            THEN @[d] + listened ELSE @[d]],
                          !.days[DayOf(play)] = @ + listened,
                          !.time = @ + listened]

\* The loop over the events e, after each of them.
TalliesOf(e) ==
    LET after[n \in 0..Len(e)] ==
            IF n = 0 THEN NothingTallied
            ELSE IF e[n].action = "play" THEN Opens(after[n - 1], e[n]) ELSE Closes(after[n - 1], e[n])
    IN after

AggregateWrappedEvents == TalliesOf(SortedEvents)[Len(SortedEvents)]

\* The loop over the days with a play, after each of them.
RunsOf(day) ==
    LET after[n \in 0..Len(day)] ==
            IF n = 0 THEN [current |-> 0, longest |-> 0, previous |-> -2]
            ELSE LET current == IF after[n - 1].previous = day[n] - 1 THEN after[n - 1].current + 1 ELSE 1
                 IN [current |-> current, longest |-> Max({after[n - 1].longest, current}),
                     previous |-> day[n]]
    IN after

LongestDateStreak(days) ==
    LET day == Ordered(days, {p \in days \X days : p[1] < p[2]})
    IN RunsOf(day)[Len(day)].longest

-----------------------------------------------------------------------------
(* Actions *)

Record(event) ==
    /\ Len(log) < MaxEvents /\ log' = Append(log, event)
    /\ UNCHANGED <<today, nextOpen, visit, opened, report, edit>>

Midnight ==
    /\ today < MaxToday /\ today' = today + 1
    /\ UNCHANGED <<log, nextOpen, visit, opened, report, edit>>

\* getAnnualWrappedAvailability.
Annual(day) == IF day \notin December THEN "none"
               ELSE IF day = OpeningDay THEN "open" ELSE "closed"

\* GET /current in another month than December goes on to the lock.
CurrentAsks(v) ==
    /\ ~visit[v] /\ Annual(today) = "none" /\ visit' = [visit EXCEPT ![v] = TRUE]
    /\ UNCHANGED <<log, today, nextOpen, opened, report, edit>>

\* Whether the upsert returns its row.
Acquires == nextOpen = 0 \/ nextOpen <= today

\* acquireWrappedAccessLock, and the statistics or the refusal.
CurrentAcquires(v) ==
    /\ visit[v] /\ visit' = [visit EXCEPT ![v] = FALSE]
    /\ nextOpen' = IF Acquires THEN today + Period ELSE nextOpen
    /\ opened' = IF Acquires THEN Append(opened, today) ELSE opened
    /\ UNCHANGED <<log, today, report, edit>>

PostReport(start, end) ==
    /\ report = NoReport /\ start <= end
    /\ report' = [start |-> start, end |-> end]
    /\ UNCHANGED <<log, today, nextOpen, visit, opened, edit>>

\* PUT /:id up to its transaction: what the body does not have is read.
PutReads(e, given) ==
    LET start == IF given.start = Keep THEN report.start ELSE given.start
        end == IF given.end = Keep THEN report.end ELSE given.end
    IN /\ report # NoReport /\ edit[e] = NoReport /\ start <= end
       /\ edit' = [edit EXCEPT ![e] = [given |-> given, start |-> start, end |-> end]]
       /\ UNCHANGED <<log, today, nextOpen, visit, opened, report>>

\* The transaction, which the row's lock makes one step; of a row that is gone
\* it updates nothing.  Both days are written.
PutWrites(e) ==
    /\ edit[e] # NoReport /\ edit' = [edit EXCEPT ![e] = NoReport]
    /\ report' = IF report = NoReport THEN NoReport
                 ELSE [start |-> edit[e].start, end |-> edit[e].end]
    /\ UNCHANGED <<log, today, nextOpen, visit, opened>>

DeleteReport ==
    /\ report # NoReport /\ report' = NoReport
    /\ UNCHANGED <<log, today, nextOpen, visit, opened, edit>>

Recording == \E event \in Heard : Record(event)
Opening == Midnight \/ \E v \in Visit : CurrentAsks(v) \/ CurrentAcquires(v)
Reporting ==
    \/ \E start, end \in PeriodDay : PostReport(start, end)
    \/ \E e \in Edit : \/ \E s, f \in PeriodDay \union {Keep} : PutReads(e, [start |-> s, end |-> f])
                       \/ PutWrites(e)
    \/ DeleteReport

WrappedNext == Recording \/ Opening \/ Reporting

-----------------------------------------------------------------------------
(* Properties *)

Closed(e, i, j) ==
    /\ i < j /\ e[i].action = "play" /\ e[j].action = "pause" /\ KeyOf(e[i]) = KeyOf(e[j])
    /\ \A k \in i + 1 .. j - 1 : KeyOf(e[k]) # KeyOf(e[i])

Segments == {s \in (DOMAIN log) \X (DOMAIN log) : Closed(SortedEvents, s[1], s[2])}

\* The seconds of some segments, one by one.
Seconds(e, segments) == UNION {{s} \X (1..Listened(e[s[1]], e[s[2]])) : s \in segments}

\* wrapped.js:213: what is counted are the plays that the next event of the same
\* device and track closes, each once, and the tracks, the days and (but for
\* events without an address) the devices each share all of it.
CountsSegments ==
    LET e == SortedEvents
        tally == AggregateWrappedEvents
        total(segments) == Cardinality(Seconds(e, segments))
    IN /\ tally.time = total(Segments)
       /\ \A t \in Track : tally.tracks[t] = total({s \in Segments : e[s[1]].track = t})
       /\ \A d \in Days : tally.days[d] = total({s \in Segments : DayOf(e[s[1]]) = d})
       /\ \A d \in Listener : tally.devices[d] = total({s \in Segments : e[s[1]].device = d})

\* wrapped.js:114: the streak is the longest run of days with a play.
StreakIsLongest ==
    LET days == {d \in Days : \E i \in DOMAIN log : log[i].action = "play" /\ DayOf(log[i]) = d}
        runs == {n \in 1..Cardinality(days) : \E d \in days : d .. d + n - 1 \subseteq days}
    IN LongestDateStreak({d \in Days : AggregateWrappedEvents.plays[d] > 0}) = Max({0} \union runs)

\* wrapped.js:502: whoever asks at once, the lock opens once in a period.
OncePerPeriod == \A i \in 2 .. Len(opened) : opened[i] - opened[i - 1] >= Period

\* wrapped.js:747: no two edits of a report leave it ending before it starts.
PeriodsInOrder == report # NoReport => report.start <= report.end

\* The statistics, the lock and the reports, whoever calls when (wrapped.js:165).
WrappedInv ==
    WrappedTypeOK /\ CountsSegments /\ StreakIsLongest /\ OncePerPeriod /\ PeriodsInOrder
=============================================================================
