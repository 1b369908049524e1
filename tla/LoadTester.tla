------------------------------ MODULE LoadTester ------------------------------
(***************************************************************************)
(* The load tester: client threads that send requests until the duration    *)
(* is over, each into a vector of its own, and a main thread that joins     *)
(* them and reports.  Time advances in ticks, TicksPerSecond to a second.   *)
(***************************************************************************)
EXTENDS Integers, Sequences, FiniteSets

CONSTANTS Threads, Duration, Warmup, TicksPerSecond,
          MaxOverrun,      \* bound: ticks that are told apart after the duration
          MaxRecords       \* bound: requests of one thread

ASSUME ConfigAssumption ==
    /\ {Duration, TicksPerSecond, MaxRecords} \subseteq Nat \ {0}
    /\ {Warmup, MaxOverrun} \subseteq Nat
    /\ Warmup < Duration
    /\ IsFiniteSet(Threads) /\ Threads # {}

LastTick == Duration * TicksPerSecond + MaxOverrun
Statuses == {"2xx", "other", "none"}                    \* "none" is status 0
RequestRecord == [second : 0..(Duration - 1), latency : 0..LastTick, status : Statuses]

VARIABLES
    clock,         \* ticks since start
    pc,            \* where each client thread is
    second,        \* sec_bucket of its request
    t0,            \* when doRequest began
    out,           \* the records of each thread
    silent,        \* threads whose server sends nothing and keeps the connection
    report,        \* what main printed, <<>> before
    admitted       \* history: the second of every passed elapsed check, per thread

threadVars == <<pc, second, t0, out, silent, admitted>>
vars == <<clock, threadVars, report>>

Init ==
    /\ clock = 0
    /\ pc = [t \in Threads |-> "check"]
    /\ second = [t \in Threads |-> 0]
    /\ t0 = [t \in Threads |-> 0]
    /\ out = [t \in Threads |-> <<>>]
    /\ silent = {}
    /\ report = <<>>
    /\ admitted = [t \in Threads |-> <<>>]

Tick == clock < LastTick /\ clock' = clock + 1 /\ UNCHANGED <<threadVars, report>>

---------------------------------------------------------------------------
Elapsed == clock \div TicksPerSecond

(* The head of the loop: the second of a request is that of this check. *)
Check(t) ==
    /\ pc[t] = "check"
    /\ Elapsed < Duration
    /\ Len(out[t]) < MaxRecords
    /\ pc' = [pc EXCEPT ![t] = "begin"]
    /\ second' = [second EXCEPT ![t] = Elapsed]
    /\ admitted' = [admitted EXCEPT ![t] = Append(@, Elapsed)]
    /\ UNCHANGED <<clock, t0, out, silent, report>>

Finish(t) ==
    /\ pc[t] = "check"
    /\ Elapsed >= Duration
    /\ pc' = [pc EXCEPT ![t] = "done"]
    /\ UNCHANGED <<clock, second, t0, out, silent, report, admitted>>

(* doRequest takes the time, connects and sends. *)
Begin(t) ==
    /\ pc[t] = "begin"
    /\ pc' = [pc EXCEPT ![t] = "request"]
    /\ t0' = [t0 EXCEPT ![t] = clock]
    /\ UNCHANGED <<clock, second, out, silent, report, admitted>>

NextTurn(t) ==
    /\ pc' = [pc EXCEPT ![t] = "check"]
    /\ second' = [second EXCEPT ![t] = 0]
    /\ t0' = [t0 EXCEPT ![t] = 0]
    /\ UNCHANGED <<clock, silent, report, admitted>>

(* Seeded fault: the second is taken when the answer is there. *)
Record_AtCompletion(t, latency, status) ==
    /\ out' = [out EXCEPT ![t] = Append(@, [second |-> Elapsed, latency |-> latency, status |-> status])]
    /\ NextTurn(t)

(* Seeded fault: only answers are stored. *)
Record_AnswersOnly(t, latency, status) ==
    /\ out' = [out EXCEPT ![t] =
                  IF status = "none" THEN @
                  ELSE Append(@, [second |-> second[t], latency |-> latency, status |-> status])]
    /\ NextTurn(t)

(* doRequest returns and the loop stores what it returned. *)
Record(t, latency, status) ==
    /\ out' = [out EXCEPT ![t] = Append(@, [second |-> second[t], latency |-> latency, status |-> status])]
    /\ NextTurn(t)

(* Seeded fault: a request that fails is repeated on the spot. *)
SendFails_Repeats(t) ==
    /\ pc[t] = "request" /\ t \notin silent
    /\ pc' = [pc EXCEPT ![t] = "begin"]
    /\ UNCHANGED <<clock, second, t0, out, silent, report, admitted>>

(* socket, connect or send fails. *)
SendFails(t) == pc[t] = "request" /\ t \notin silent /\ Record(t, 0, "none")

(* recv returned 0 or an error.  Nothing received or no status line in it   *)
(* is status 0; a part that holds the status line counts as an answer.     *)
Receive(t) ==
    /\ pc[t] = "request" /\ t \notin silent
    /\ \E status \in Statuses : Record(t, clock - t0[t], status)

(* The server took the request and keeps the connection open in silence. *)
ServerStalls(t) ==
    /\ pc[t] = "request" /\ t \notin silent
    /\ silent' = silent \cup {t}
    /\ UNCHANGED <<clock, pc, second, t0, out, report, admitted>>

ThreadStep(t) == Check(t) \/ Finish(t) \/ Begin(t) \/ SendFails(t) \/ Receive(t)

---------------------------------------------------------------------------
(* The merged vector.  Its order does not matter, it is counted or sorted:  *)
(* it is the set of the places <<thread, index>> of the records.           *)
All == UNION {{t} \X DOMAIN out[t] : t \in Threads}
RecordAt(place) == out[place[1]][place[2]]

InWindow == Warmup..(Duration - 1)
Bucket(sec) == {place \in All : RecordAt(place).second = sec}
Measured == {place \in All : RecordAt(place).second \in InWindow}
Count(places, statuses) == Cardinality({x \in places : RecordAt(x).status \in statuses})

(* Seeded fault: the continue after a connection error is missing. *)
Answered_All(places) == places
Answered(places) == {x \in places : RecordAt(x).status # "none"}

Below(places, v) == Cardinality({x \in places : RecordAt(x).latency < v})
UpTo(places, v) == Cardinality({x \in places : RecordAt(x).latency <= v})

(* The element at index k - 1 of the sorted vector of latencies. *)
Sorted(places, k) ==
    CHOOSE v \in {RecordAt(x).latency : x \in places} :
        Below(places, v) < k /\ k <= UpTo(places, v)

(* The percentile at p thousandths, times 1000: exact, where the program    *)
(* computes in double.                                                     *)
Percentile(places, p) ==
    IF places = {} THEN 0
    ELSE LET idx == p * (Cardinality(places) - 1)
             lo == idx \div 1000
             hi == IF idx % 1000 = 0 THEN lo ELSE lo + 1
         IN 1000 * Sorted(places, lo + 1)
               + (Sorted(places, hi + 1) - Sorted(places, lo + 1)) * (idx % 1000)

(* The line of a second, and all that is printed. *)
Line(sec) ==
    [count |-> Cardinality(Bucket(sec)),
     success |-> Count(Bucket(sec), {"2xx"}),
     error |-> Count(Bucket(sec), {"other", "none"}),
     p95 |-> Percentile(Answered(Bucket(sec)), 950),
     p99 |-> Percentile(Answered(Bucket(sec)), 990)]

Printed ==
    [lines |-> [sec \in InWindow |-> Line(sec)],
     success |-> Count(Measured, {"2xx"}),
     failed |-> Count(Measured, {"other"}),
     connErrors |-> Count(Measured, {"none"}),
     percentiles |-> [p \in {500, 950, 990, 999} |-> Percentile(Answered(Measured), p)]]

Report ==
    /\ report = <<>>
    /\ \A t \in Threads : pc[t] = "done"
    /\ report' = Printed
    /\ UNCHANGED <<clock, threadVars>>

Next ==
    \/ Tick
    \/ \E t \in Threads : ThreadStep(t) \/ ServerStalls(t)
    \/ Report
    \/ (report # <<>> \/ silent # {}) /\ UNCHANGED vars    \* printed, or joining for ever

Spec == Init /\ [][Next]_vars
             /\ WF_vars(Tick) /\ WF_vars(Report) /\ \A t \in Threads : WF_vars(ThreadStep(t))

---------------------------------------------------------------------------
TypeOK ==
    /\ clock \in 0..LastTick
    /\ pc \in [Threads -> {"check", "begin", "request", "done"}]
    /\ second \in [Threads -> 0..(Duration - 1)]
    /\ t0 \in [Threads -> 0..LastTick]
    /\ out \in [Threads -> Seq(RequestRecord)]
    /\ \A t \in Threads : Len(out[t]) <= MaxRecords
    /\ silent \subseteq Threads
    /\ admitted \in [Threads -> Seq(0..(Duration - 1))]

(* The elapsed checks that were passed in these seconds. *)
Admitted(seconds) ==
    {check \in UNION {{t} \X DOMAIN admitted[t] : t \in Threads} :
        admitted[check[1]][check[2]] \in seconds}

(* The report counts every request that passed its elapsed check after the  *)
(* warm-up, once, in the second of that check and under one outcome, also   *)
(* when its answer came after the duration (tester.cpp:154-169, 240-290).  *)
EveryRequestIsCounted ==
    report # <<>> =>
        /\ \A sec \in InWindow :
              /\ report.lines[sec].count = Cardinality(Admitted({sec}))
              /\ report.lines[sec].success + report.lines[sec].error
                    = Cardinality(Admitted({sec}))
        /\ report.success + report.failed + report.connErrors
              = Cardinality(Admitted(InWindow))

(* v / 1000 is a value at p thousandths of the latencies at these places:   *)
(* enough of them are not above it, and enough not below.                  *)
IsPercentile(places, p, v) ==
    LET n == Cardinality(places)
        AtMost == Cardinality({x \in places : 1000 * RecordAt(x).latency <= v})
        AtLeast == Cardinality({x \in places : 1000 * RecordAt(x).latency >= v})
    IN n > 0 => 1000 * AtMost > p * (n - 1) /\ 1000 * AtLeast > (1000 - p) * (n - 1)

(* The printed percentiles are percentiles of the latencies of all requests *)
(* that got an answer, and do not fall as p rises (tester.cpp:178-186,      *)
(* 240-267, 296-299).                                                      *)
PercentilesAreRight ==
    report # <<>> =>
        LET answered == {x \in Measured : RecordAt(x).status \in {"2xx", "other"}}
            at == report.percentiles
        IN /\ \A p \in DOMAIN at : IsPercentile(answered, p, at[p])
           /\ \A p, q \in DOMAIN at : p <= q => at[p] <= at[q]
           /\ \A sec \in InWindow : report.lines[sec].p95 <= report.lines[sec].p99

(* Every client thread ends unless its server falls silent, and if none     *)
(* does the report is printed, however requests fail (tester.cpp:119-121,   *)
(* 154-170, 222).                                                          *)
TestEnds ==
    <>[](/\ \A t \in Threads : pc[t] = "done" \/ t \in silent
         /\ silent = {} => report # <<>>)
=============================================================================
