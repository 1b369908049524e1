--------------------------- MODULE LoadTesterProofs ---------------------------
(***************************************************************************)
(* Theorems about the load tester, for every number of threads, duration   *)
(* and warm-up: its report counts every measured request once, and the     *)
(* percentiles it prints are percentiles.                                  *)
(***************************************************************************)
EXTENDS LoadTester, FiniteSetTheorems, WellFoundedInduction, TLAPS

(* A set of natural numbers has a least element.  Stated for sets, it       *)
(* follows from the well-foundedness of < without an induction.            *)
LessThan == {pair \in Nat \X Nat : pair[1] < pair[2]}

LEMMA LeastElement ==
    ASSUME NEW T \in SUBSET Nat, T # {}
    PROVE  \E x \in T : \A y \in T : x <= y
<1>1. IsWellFoundedOn(LessThan, Nat)
  BY NatLessThanWellFounded DEF OpToRel, LessThan
<1>2. PICK x \in T : \A y \in T : <<y, x>> \notin LessThan
  BY <1>1, WFMin
<1>3. ASSUME NEW y \in T PROVE x <= y
  <2>1. ~(y < x)
    BY <1>2 DEF LessThan
  <2>2. QED
    BY <2>1
<1>4. QED
  BY <1>3

---------------------------------------------------------------------------
(* The inductive invariant.                                                 *)

InFlight(t) == pc[t] \in {"begin", "request"}

(* A request under way began before now. *)
TimeInv == \A t \in Threads : t0[t] <= clock

(* The records of a thread carry the seconds of its elapsed checks, in      *)
(* their order; only the request under way has no record yet.              *)
HistoryInv ==
    \A t \in Threads :
        /\ Len(admitted[t]) = Len(out[t]) + (IF InFlight(t) THEN 1 ELSE 0)
        /\ \A i \in DOMAIN out[t] : admitted[t][i] = out[t][i].second
        /\ InFlight(t) => admitted[t][Len(out[t]) + 1] = second[t]
        /\ InFlight(t) => Len(out[t]) < MaxRecords

(* The report is printed once every thread has ended, and stays true. *)
ReportInv ==
    report # <<>> =>
        /\ report = Printed
        /\ \A t \in Threads : pc[t] = "done"

TesterInv == TypeOK /\ TimeInv /\ HistoryInv /\ ReportInv

LEMMA Numbers ==
    /\ Duration \in Nat \ {0}
    /\ TicksPerSecond \in Nat \ {0}
    /\ MaxRecords \in Nat \ {0}
    /\ Warmup \in Nat /\ Warmup < Duration
    /\ LastTick \in Nat
BY ConfigAssumption DEF LastTick

LEMMA InitTesterInv == Init => TesterInv
<1> SUFFICES ASSUME Init PROVE TesterInv
  OBVIOUS
<1>1. 0 \in 0..(Duration - 1) /\ 0 \in 0..LastTick
  BY Numbers
<1>2. TypeOK
  BY <1>1, Numbers DEF Init, TypeOK
<1>3. QED
  BY <1>2 DEF Init, TesterInv, TimeInv, HistoryInv, ReportInv, InFlight

(* A step that leaves the records alone leaves the report true. *)
LEMMA SamePrinted == UNCHANGED out => Printed' = Printed
BY DEF Printed, Line, Percentile, Sorted, Below, UpTo, Count, Answered, Measured, Bucket, All,
       RecordAt

LEMMA TickInv == ASSUME TesterInv, Tick PROVE TesterInv'
<1>1. /\ clock < LastTick
      /\ clock' = clock + 1
      /\ UNCHANGED <<pc, second, t0, out, silent, admitted, report>>
  BY DEF Tick, threadVars
<1>2. clock \in Nat /\ clock' \in 0..LastTick
  BY <1>1, Numbers DEF TesterInv, TypeOK
<1>3. TypeOK'
  BY <1>1, <1>2 DEF TesterInv, TypeOK
<1>4. TimeInv'
  BY <1>1, <1>2, Numbers DEF TesterInv, TypeOK, TimeInv
<1>5. HistoryInv'
  BY <1>1 DEF TesterInv, HistoryInv, InFlight
<1>6. ReportInv'
  BY <1>1, SamePrinted DEF TesterInv, ReportInv
<1>7. QED
  BY <1>3, <1>4, <1>5, <1>6 DEF TesterInv

LEMMA CheckInv == ASSUME TesterInv, NEW t \in Threads, Check(t) PROVE TesterInv'
<1>1. /\ pc[t] = "check"
      /\ Elapsed < Duration
      /\ Len(out[t]) < MaxRecords
      /\ pc' = [pc EXCEPT ![t] = "begin"]
      /\ second' = [second EXCEPT ![t] = Elapsed]
      /\ admitted' = [admitted EXCEPT ![t] = Append(@, Elapsed)]
      /\ UNCHANGED <<clock, t0, out, silent, report>>
  BY DEF Check
<1>2. Elapsed \in 0..(Duration - 1)
  <2>1. clock \in Nat
    BY Numbers DEF TesterInv, TypeOK
  <2>2. Elapsed \in Nat
    BY <2>1, Numbers DEF Elapsed
  <2>3. QED
    BY <1>1, <2>2, Numbers
<1>3. /\ admitted[t] \in Seq(0..(Duration - 1))
      /\ out[t] \in Seq(RequestRecord)
      /\ Len(admitted[t]) = Len(out[t])
      /\ Len(out[t]) \in Nat
      /\ \A i \in DOMAIN out[t] : admitted[t][i] = out[t][i].second
  <2>1. admitted[t] \in Seq(0..(Duration - 1)) /\ out[t] \in Seq(RequestRecord)
    BY DEF TesterInv, TypeOK
  <2>2. Len(out[t]) \in Nat
    BY <2>1
  <2>3. ~InFlight(t)
    BY <1>1 DEF InFlight
  <2>4. /\ Len(admitted[t]) = Len(out[t]) + 0
        /\ \A i \in DOMAIN out[t] : admitted[t][i] = out[t][i].second
    BY <2>3 DEF TesterInv, HistoryInv
  <2>5. QED
    BY <2>1, <2>2, <2>4
<1>4. PICK e \in 0..(Duration - 1) : e = Elapsed
  BY <1>2
<1>5. /\ admitted'[t] = Append(admitted[t], e)
      /\ admitted'[t] \in Seq(0..(Duration - 1))
      /\ Len(admitted'[t]) = Len(out[t]) + 1
      /\ admitted'[t][Len(out[t]) + 1] = e
      /\ \A i \in DOMAIN out[t] : admitted'[t][i] = admitted[t][i]
  <2>1. admitted'[t] = Append(admitted[t], e)
    BY <1>1, <1>4 DEF TesterInv, TypeOK
  <2>2. QED
    BY <1>3, <2>1
<1>6. \A u \in Threads \ {t} : /\ admitted'[u] = admitted[u]
                                /\ pc'[u] = pc[u]
                                /\ second'[u] = second[u]
  BY <1>1 DEF TesterInv, TypeOK
<1>7. TypeOK'
  <2>1. admitted' \in [Threads -> Seq(0..(Duration - 1))]
    BY <1>1, <1>5, <1>6 DEF TesterInv, TypeOK
  <2>2. second' \in [Threads -> 0..(Duration - 1)]
    BY <1>1, <1>2 DEF TesterInv, TypeOK
  <2>3. QED
    BY <1>1, <2>1, <2>2 DEF TesterInv, TypeOK
<1>8. TimeInv'
  BY <1>1 DEF TesterInv, TimeInv
<1>9. HistoryInv'
  <2>1. ASSUME NEW u \in Threads
        PROVE  /\ Len(admitted'[u]) = Len(out'[u]) + (IF InFlight(u)' THEN 1 ELSE 0)
               /\ \A i \in DOMAIN out'[u] : admitted'[u][i] = out'[u][i].second
               /\ InFlight(u)' => admitted'[u][Len(out'[u]) + 1] = second'[u]
               /\ InFlight(u)' => Len(out'[u]) < MaxRecords
    <3>1. CASE u = t
      <4>1. pc'[t] = "begin" /\ second'[t] = e
        BY <1>1, <1>4 DEF TesterInv, TypeOK
      <4>2. QED
        BY <1>1, <1>3, <1>5, <3>1, <4>1 DEF InFlight
    <3>2. CASE u # t
      <4>1. /\ admitted'[u] = admitted[u] /\ out'[u] = out[u] /\ second'[u] = second[u]
            /\ InFlight(u)' = InFlight(u)
        BY <1>1, <1>6, <3>2 DEF InFlight
      <4>2. QED
        BY <4>1 DEF TesterInv, HistoryInv
    <3>3. QED
      BY <3>1, <3>2
  <2>2. QED
    BY <2>1 DEF HistoryInv
<1>10. ReportInv'
  BY <1>1 DEF TesterInv, ReportInv
<1>11. QED
  BY <1>7, <1>8, <1>9, <1>10 DEF TesterInv

(* A step of a thread that neither passes a check nor ends a request. *)
LEMMA QuietInv ==
    ASSUME TesterInv, UNCHANGED <<clock, second, out, admitted, report>>,
           \A t \in Threads : InFlight(t)' = InFlight(t),
           \A t \in Threads : pc[t] = "done" => pc'[t] = "done",
           TypeOK', TimeInv'
    PROVE  TesterInv'
<1>1. HistoryInv'
  BY DEF TesterInv, HistoryInv
<1>2. ReportInv'
  BY SamePrinted DEF TesterInv, ReportInv
<1>3. QED
  BY <1>1, <1>2 DEF TesterInv

LEMMA SmallStepInv ==
    ASSUME TesterInv, NEW t \in Threads, Finish(t) \/ Begin(t) \/ ServerStalls(t)
    PROVE  TesterInv'
<1>1. /\ UNCHANGED <<clock, second, out, admitted, report>>
      /\ TypeOK'
  BY DEF Finish, Begin, ServerStalls, TesterInv, TypeOK
<1>2. TimeInv'
  BY Numbers DEF Finish, Begin, ServerStalls, TesterInv, TypeOK, TimeInv
<1>3. /\ \A u \in Threads : InFlight(u)' = InFlight(u)
      /\ \A u \in Threads : pc[u] = "done" => pc'[u] = "done"
  BY DEF Finish, Begin, ServerStalls, TesterInv, TypeOK, InFlight
<1>4. QED
  BY <1>1, <1>2, <1>3, QuietInv

(* The request under way ends in a record. *)
LEMMA RecordInv ==
    ASSUME TesterInv, NEW t \in Threads, pc[t] = "request",
           NEW latency \in 0..LastTick, NEW status \in Statuses, Record(t, latency, status)
    PROVE  TesterInv'
<1> DEFINE new == [second |-> second[t], latency |-> latency, status |-> status]
<1>1. /\ out' = [out EXCEPT ![t] = Append(@, new)]
      /\ pc' = [pc EXCEPT ![t] = "check"]
      /\ second' = [second EXCEPT ![t] = 0]
      /\ t0' = [t0 EXCEPT ![t] = 0]
      /\ UNCHANGED <<clock, silent, report, admitted>>
  BY DEF Record, NextTurn
<1>2. new \in RequestRecord /\ new.second = second[t]
  BY DEF RequestRecord, TesterInv, TypeOK
<1> HIDE DEF new
<1>3. /\ out[t] \in Seq(RequestRecord)
      /\ Len(admitted[t]) = Len(out[t]) + 1
      /\ Len(out[t]) \in Nat
      /\ admitted[t][Len(out[t]) + 1] = second[t]
      /\ Len(out[t]) < MaxRecords
      /\ \A i \in DOMAIN out[t] : admitted[t][i] = out[t][i].second
  BY DEF TesterInv, TypeOK, HistoryInv, InFlight
<1>4. /\ out'[t] = Append(out[t], new)
      /\ out'[t] \in Seq(RequestRecord)
      /\ Len(out'[t]) = Len(out[t]) + 1
      /\ DOMAIN out'[t] = DOMAIN out[t] \cup {Len(out[t]) + 1}
      /\ out'[t][Len(out[t]) + 1] = new
      /\ \A i \in DOMAIN out[t] : out'[t][i] = out[t][i]
  <2>1. out'[t] = Append(out[t], new)
    BY <1>1 DEF TesterInv, TypeOK
  <2>2. QED
    BY <1>2, <1>3, <2>1
<1>5. /\ \A u \in Threads \ {t} : out'[u] = out[u] /\ pc'[u] = pc[u] /\ second'[u] = second[u]
      /\ pc'[t] = "check"
  BY <1>1 DEF TesterInv, TypeOK
<1>6. TypeOK'
  <2>1. out' \in [Threads -> Seq(RequestRecord)]
    BY <1>1, <1>4, <1>5 DEF TesterInv, TypeOK
  <2>2. \A u \in Threads : Len(out'[u]) <= MaxRecords
    <3>1. Len(out'[t]) <= MaxRecords
      BY <1>3, <1>4, Numbers
    <3>2. QED
      BY <1>5, <3>1 DEF TesterInv, TypeOK
  <2>3. 0 \in 0..(Duration - 1) /\ 0 \in 0..LastTick
    BY Numbers
  <2>4. QED
    BY <1>1, <2>1, <2>2, <2>3 DEF TesterInv, TypeOK
<1>7. TimeInv'
  BY <1>1, Numbers DEF TesterInv, TypeOK, TimeInv
<1>8. HistoryInv'
  <2>1. ASSUME NEW u \in Threads
        PROVE  /\ Len(admitted'[u]) = Len(out'[u]) + (IF InFlight(u)' THEN 1 ELSE 0)
               /\ \A i \in DOMAIN out'[u] : admitted'[u][i] = out'[u][i].second
               /\ InFlight(u)' => admitted'[u][Len(out'[u]) + 1] = second'[u]
               /\ InFlight(u)' => Len(out'[u]) < MaxRecords
    <3>1. CASE u = t
      <4>1. ~InFlight(t)' /\ admitted'[t] = admitted[t]
        BY <1>1, <1>5 DEF InFlight
      <4>2. Len(admitted'[t]) = Len(out'[t]) + 0
        BY <1>3, <1>4, <4>1
      <4>3. \A i \in DOMAIN out'[t] : admitted'[t][i] = out'[t][i].second
        BY <1>2, <1>3, <1>4, <4>1
      <4>4. QED
        BY <3>1, <4>1, <4>2, <4>3
    <3>2. CASE u # t
      <4>1. /\ admitted'[u] = admitted[u] /\ out'[u] = out[u] /\ second'[u] = second[u]
            /\ InFlight(u)' = InFlight(u)
        BY <1>1, <1>5, <3>2 DEF InFlight
      <4>2. QED
        BY <4>1 DEF TesterInv, HistoryInv
    <3>3. QED
      BY <3>1, <3>2
  <2>2. QED
    BY <2>1 DEF HistoryInv
<1>9. ReportInv'
  BY <1>1 DEF TesterInv, ReportInv
<1>10. QED
  BY <1>6, <1>7, <1>8, <1>9 DEF TesterInv

LEMMA NextTesterInv == TesterInv /\ [Next]_vars => TesterInv'
<1> SUFFICES ASSUME TesterInv, [Next]_vars PROVE TesterInv'
  OBVIOUS
<1>1. CASE Tick
  BY <1>1, TickInv
<1>2. ASSUME NEW t \in Threads, ThreadStep(t) \/ ServerStalls(t) PROVE TesterInv'
  <2>1. CASE SendFails(t)
    <3>1. 0 \in 0..LastTick /\ "none" \in Statuses
      BY Numbers DEF Statuses
    <3>2. QED
      BY <2>1, <3>1, RecordInv DEF SendFails
  <2>2. CASE Receive(t)
    <3>1. clock - t0[t] \in 0..LastTick
      BY Numbers DEF TesterInv, TypeOK, TimeInv
    <3>2. QED
      BY <2>2, <3>1, RecordInv DEF Receive
  <2>3. QED
    BY <1>2, <2>1, <2>2, CheckInv, SmallStepInv DEF ThreadStep
<1>3. CASE Report
  <2>1. /\ \A t \in Threads : pc[t] = "done"
        /\ report' = Printed
        /\ UNCHANGED <<clock, pc, second, t0, out, silent, admitted>>
    BY <1>3 DEF Report, threadVars
  <2>2. TypeOK' /\ TimeInv' /\ HistoryInv'
    BY <2>1 DEF TesterInv, TypeOK, TimeInv, HistoryInv, InFlight
  <2>3. ReportInv'
    BY <2>1, SamePrinted DEF ReportInv
  <2>4. QED
    BY <2>2, <2>3 DEF TesterInv
<1>4. CASE UNCHANGED vars
  <2>1. UNCHANGED <<clock, pc, second, t0, out, silent, admitted, report>>
    BY <1>4 DEF vars, threadVars
  <2>2. TypeOK' /\ TimeInv'
    BY <2>1 DEF TesterInv, TypeOK, TimeInv
  <2>3. QED
    BY <2>1, <2>2, QuietInv DEF InFlight
<1>5. QED
  BY <1>1, <1>2, <1>3, <1>4 DEF Next

(* The invariant holds for any number of threads and any duration. *)
THEOREM TesterInvariant == Spec => []TesterInv
BY InitTesterInv, NextTesterInv, PTL DEF Spec

(* Seconds, latencies and records stay in their ranges: no record falls     *)
(* into a second after the duration, however late its answer comes          *)
(* (tester.cpp:154-168).                                                    *)
THEOREM TesterTypeCorrect == Spec => []TypeOK
BY TesterInvariant, PTL DEF TesterInv

---------------------------------------------------------------------------
(* The report counts.                                                       *)

LEMMA AllFinite == TypeOK => IsFiniteSet(All)
<1> SUFFICES ASSUME TypeOK PROVE IsFiniteSet(All)
  OBVIOUS
<1>1. IsFiniteSet(Threads \X (1..MaxRecords))
  <2>1. MaxRecords \in Int /\ 1 \in Int
    BY Numbers
  <2>2. IsFiniteSet(1..MaxRecords)
    BY <2>1, FS_Interval
  <2>3. QED
    BY <2>2, ConfigAssumption, FS_Product
<1>2. \A t \in Threads : DOMAIN out[t] \subseteq 1..MaxRecords
  <2>1. ASSUME NEW t \in Threads PROVE DOMAIN out[t] \subseteq 1..MaxRecords
    <3>1. out[t] \in Seq(RequestRecord) /\ Len(out[t]) <= MaxRecords
      BY DEF TypeOK
    <3>2. QED
      BY <3>1, Numbers
  <2>2. QED
    BY <2>1
<1>3. All \in SUBSET (Threads \X (1..MaxRecords))
  BY <1>2 DEF All
<1>4. QED
  BY <1>1, <1>3, FS_Subset

(* What is at a place is a record. *)
LEMMA RecordType ==
    ASSUME TypeOK, NEW place \in All
    PROVE  RecordAt(place) \in RequestRecord
<1>1. PICK t \in Threads : place \in {t} \X DOMAIN out[t]
  BY DEF All
<1>2. place[1] = t /\ place[2] \in DOMAIN out[t] /\ out[t] \in Seq(RequestRecord)
  BY <1>1 DEF TypeOK
<1>3. out[t][place[2]] \in RequestRecord
  BY <1>2
<1>4. QED
  BY <1>2, <1>3 DEF RecordAt

(* Counts under disjoint sets of outcomes add up. *)
LEMMA CountsAdd ==
    ASSUME NEW S, IsFiniteSet(S), NEW A, NEW B, A \cap B = {}
    PROVE  /\ Count(S, A) + Count(S, B) = Count(S, A \cup B)
           /\ Count(S, A) \in Nat
<1> DEFINE With(C) == {x \in S : RecordAt(x).status \in C}
<1>1. IsFiniteSet(With(A)) /\ IsFiniteSet(With(B))
  BY FS_Subset
<1>2. /\ With(A) \cup With(B) = With(A \cup B)
      /\ With(A) \cap With(B) = {}
  OBVIOUS
<1>3. /\ Cardinality(With(A)) \in Nat
      /\ Cardinality(With(B)) \in Nat
      /\ Cardinality(With(A) \cap With(B)) = 0
  BY <1>1, <1>2, FS_CardinalityType, FS_EmptySet
<1>4. Cardinality(With(A) \cup With(B)) =
         Cardinality(With(A)) + Cardinality(With(B)) - Cardinality(With(A) \cap With(B))
  BY <1>1, FS_Union
<1>5. Cardinality(With(A \cup B)) = Cardinality(With(A)) + Cardinality(With(B)) - 0
  BY <1>2, <1>3, <1>4
<1>6. Count(S, A) + Count(S, B) = Cardinality(With(A)) + Cardinality(With(B))
  BY DEF Count
<1>7. Count(S, A \cup B) = Cardinality(With(A \cup B)) /\ Count(S, A) = Cardinality(With(A))
  BY DEF Count
<1> HIDE DEF With
<1>8. QED
  BY <1>3, <1>5, <1>6, <1>7

(* Every record is counted under some outcome. *)
LEMMA CountAll ==
    ASSUME TypeOK, NEW S \in SUBSET All
    PROVE  Count(S, Statuses) = Cardinality(S)
<1>1. \A x \in S : RecordAt(x).status \in Statuses
  BY RecordType DEF RequestRecord
<1>2. {x \in S : RecordAt(x).status \in Statuses} = S
  BY <1>1
<1>3. QED
  BY <1>2 DEF Count

(* When all threads have ended, the records of some seconds are as many as  *)
(* the checks that were passed in them: both are at the same places.       *)
LEMMA RecordsAreChecks ==
    ASSUME TesterInv, \A t \in Threads : pc[t] = "done", NEW seconds
    PROVE  {place \in All : RecordAt(place).second \in seconds} = Admitted(seconds)
<1>1. ASSUME NEW t \in Threads
      PROVE  /\ DOMAIN admitted[t] = DOMAIN out[t]
             /\ \A i \in DOMAIN out[t] : admitted[t][i] = out[t][i].second
  <2>1. /\ out[t] \in Seq(RequestRecord)
        /\ admitted[t] \in Seq(0..(Duration - 1))
        /\ ~InFlight(t)
    BY DEF TesterInv, TypeOK, InFlight
  <2>2. /\ Len(admitted[t]) = Len(out[t]) + 0
        /\ \A i \in DOMAIN out[t] : admitted[t][i] = out[t][i].second
    BY <2>1 DEF TesterInv, HistoryInv
  <2>3. Len(admitted[t]) = Len(out[t])
    BY <2>1, <2>2
  <2>4. QED
    BY <2>1, <2>2, <2>3
<1>2. UNION {{t} \X DOMAIN admitted[t] : t \in Threads} = All
  BY <1>1 DEF All
<1>3. ASSUME NEW place \in All
      PROVE  RecordAt(place).second = admitted[place[1]][place[2]]
  <2>1. PICK t \in Threads : place \in {t} \X DOMAIN out[t]
    BY DEF All
  <2>2. place[1] = t /\ place[2] \in DOMAIN out[t]
    BY <2>1
  <2>3. QED
    BY <1>1, <2>2 DEF RecordAt
<1>4. QED
  BY <1>2, <1>3 DEF Admitted

(* The report counts every request that passed its elapsed check after the  *)
(* warm-up, once and under one outcome, for any number of threads and       *)
(* whatever fails or answers late (tester.cpp:154-169, 240-290).            *)
THEOREM ReportCountsRequests == Spec => []EveryRequestIsCounted
<1>1. TesterInv => EveryRequestIsCounted
  <2> SUFFICES ASSUME TesterInv, report # <<>> PROVE EveryRequestIsCounted
    BY DEF EveryRequestIsCounted
  <2>1. report = Printed /\ \A t \in Threads : pc[t] = "done"
    BY DEF TesterInv, ReportInv
  <2>2. TypeOK /\ IsFiniteSet(All)
    BY AllFinite DEF TesterInv
  <2>3. /\ {"2xx"} \cup {"other", "none"} = Statuses
        /\ {"2xx", "other"} \cup {"none"} = Statuses
        /\ {"2xx"} \cup {"other"} = {"2xx", "other"}
        /\ {"2xx"} \cap {"other", "none"} = {}
        /\ {"2xx", "other"} \cap {"none"} = {}
        /\ {"2xx"} \cap {"other"} = {}
    BY DEF Statuses
  <2>4. ASSUME NEW sec \in InWindow
        PROVE  /\ report.lines[sec].count = Cardinality(Admitted({sec}))
               /\ report.lines[sec].success + report.lines[sec].error
                     = Cardinality(Admitted({sec}))
    <3>1. Bucket(sec) = {place \in All : RecordAt(place).second \in {sec}}
      BY DEF Bucket
    <3>2. Bucket(sec) = Admitted({sec})
      BY <2>1, <3>1, RecordsAreChecks
    <3>3. Bucket(sec) \in SUBSET All /\ IsFiniteSet(Bucket(sec))
      BY <2>2, FS_Subset DEF Bucket
    <3>4. Count(Bucket(sec), {"2xx"}) + Count(Bucket(sec), {"other", "none"})
             = Count(Bucket(sec), Statuses)
      BY <2>3, <3>3, CountsAdd
    <3>5. report.lines[sec] = Line(sec)
      BY <2>1 DEF Printed
    <3>6. /\ report.lines[sec].count = Cardinality(Bucket(sec))
          /\ report.lines[sec].success = Count(Bucket(sec), {"2xx"})
          /\ report.lines[sec].error = Count(Bucket(sec), {"other", "none"})
      BY <3>5 DEF Line
    <3>7. Count(Bucket(sec), Statuses) = Cardinality(Bucket(sec))
      BY <2>2, <3>3, CountAll
    <3>8. QED
      BY <3>2, <3>4, <3>6, <3>7
  <2>5. report.success + report.failed + report.connErrors = Cardinality(Admitted(InWindow))
    <3>1. Measured = Admitted(InWindow)
      BY <2>1, RecordsAreChecks DEF Measured
    <3>2. Measured \in SUBSET All /\ IsFiniteSet(Measured)
      BY <2>2, FS_Subset DEF Measured
    <3>3. Count(Measured, {"2xx"}) + Count(Measured, {"other"})
             = Count(Measured, {"2xx", "other"})
      BY <2>3, <3>2, CountsAdd
    <3>4. Count(Measured, {"2xx", "other"}) + Count(Measured, {"none"})
             = Count(Measured, Statuses)
      BY <2>3, <3>2, CountsAdd
    <3>5. report.success = Count(Measured, {"2xx"}) /\ report.failed = Count(Measured, {"other"})
             /\ report.connErrors = Count(Measured, {"none"})
      BY <2>1 DEF Printed
    <3>6. QED
      BY <2>2, <3>1, <3>2, <3>3, <3>4, <3>5, CountAll
  <2>6. QED
    BY <2>4, <2>5 DEF EveryRequestIsCounted
<1>2. QED
  BY <1>1, TesterInvariant, PTL

---------------------------------------------------------------------------
(* The percentiles.                                                         *)

(* The values of p and of the part between two neighbours, and the ranks of *)
(* the records at the places S.                                             *)
Thousandths == 0..999
Ranks(S) == 1..Cardinality(S)

LEMMA LatencyType ==
    ASSUME TypeOK, NEW S \in SUBSET All
    PROVE  \A x \in S : RecordAt(x).latency \in Nat /\ RecordAt(x).latency <= LastTick
BY RecordType, Numbers DEF RequestRecord

LEMMA CountTypes ==
    ASSUME TypeOK, NEW S \in SUBSET All
    PROVE  /\ IsFiniteSet(S)
           /\ Cardinality(S) \in Nat
           /\ \A v : Below(S, v) \in Nat /\ UpTo(S, v) \in Nat
<1>1. IsFiniteSet(S)
  BY AllFinite, FS_Subset
<1>2. ASSUME NEW T \in SUBSET S PROVE Cardinality(T) \in Nat
  BY <1>1, FS_Subset, FS_CardinalityType
<1>3. QED
  BY <1>1, <1>2 DEF Below, UpTo

(* The k-th of n latencies exists: it is the least value that k of them do  *)
(* not exceed.                                                              *)
LEMMA SortedIsRight ==
    ASSUME TypeOK, NEW S \in SUBSET All, NEW k \in Ranks(S)
    PROVE  /\ Sorted(S, k) \in Nat
           /\ Below(S, Sorted(S, k)) < k
           /\ k <= UpTo(S, Sorted(S, k))
<1> DEFINE T == {v \in Nat : k <= UpTo(S, v)}
<1>1. Cardinality(S) \in Nat /\ k \in Nat \ {0} /\ k <= Cardinality(S)
  BY CountTypes DEF Ranks
<1>2. LastTick \in T
  <2>1. {x \in S : RecordAt(x).latency <= LastTick} = S
    BY LatencyType
  <2>2. UpTo(S, LastTick) = Cardinality(S)
    BY <2>1 DEF UpTo
  <2>3. k <= UpTo(S, LastTick)
    BY <1>1, <2>2
  <2>4. QED
    BY <2>3, Numbers
<1>3. PICK v \in T : \A w \in T : v <= w
  BY <1>2, LeastElement
<1>4. Below(S, v) < k
  <2>1. CASE v = 0
    <3>1. {x \in S : RecordAt(x).latency < v} = {}
      BY <2>1, LatencyType
    <3>2. Below(S, v) = 0
      BY <3>1, FS_EmptySet DEF Below
    <3>3. QED
      BY <1>1, <3>2
  <2>2. CASE v # 0
    <3>1. v - 1 \in Nat /\ ~(v <= v - 1)
      BY <1>3, <2>2
    <3>2. v - 1 \notin T
      BY <1>3, <3>1
    <3>3. ~(k <= UpTo(S, v - 1))
      BY <3>1, <3>2
    <3>4. {x \in S : RecordAt(x).latency < v} = {x \in S : RecordAt(x).latency <= v - 1}
      BY <1>3, LatencyType
    <3>5. Below(S, v) = UpTo(S, v - 1)
      BY <3>4 DEF Below, UpTo
    <3>6. QED
      BY <1>1, <3>3, <3>5, CountTypes
  <2>3. QED
    BY <2>1, <2>2
<1>5. v \in {RecordAt(x).latency : x \in S}
  <2>1. SUFFICES ASSUME \A x \in S : RecordAt(x).latency # v PROVE FALSE
    OBVIOUS
  <2>2. {x \in S : RecordAt(x).latency < v} = {x \in S : RecordAt(x).latency <= v}
    BY <1>3, <2>1, LatencyType
  <2>3. Below(S, v) = UpTo(S, v)
    BY <2>2 DEF Below, UpTo
  <2>4. QED
    BY <1>1, <1>3, <1>4, <2>3, CountTypes
<1>6. Below(S, v) < k /\ k <= UpTo(S, v)
  BY <1>3, <1>4
<1>7. /\ Sorted(S, k) \in {RecordAt(x).latency : x \in S}
      /\ Below(S, Sorted(S, k)) < k
      /\ k <= UpTo(S, Sorted(S, k))
  BY <1>5, <1>6 DEF Sorted
<1>8. QED
  BY <1>7, LatencyType

LEMMA SortedIsMonotonic ==
    ASSUME TypeOK, NEW S \in SUBSET All,
           NEW j \in Ranks(S), NEW k \in Ranks(S), j <= k
    PROVE  Sorted(S, j) <= Sorted(S, k)
<1> DEFINE v == Sorted(S, j)
           w == Sorted(S, k)
<1>1. /\ v \in Nat /\ Below(S, v) < j
      /\ w \in Nat /\ k <= UpTo(S, w)
  BY SortedIsRight
<1> j \in Nat /\ k \in Nat
  BY CountTypes DEF Ranks
<1>2. SUFFICES ASSUME w < v PROVE FALSE
  BY <1>1
<1>3. {x \in S : RecordAt(x).latency <= w} \in SUBSET {x \in S : RecordAt(x).latency < v}
  BY <1>1, <1>2, LatencyType
<1>4. IsFiniteSet({x \in S : RecordAt(x).latency < v})
  BY CountTypes, FS_Subset
<1>5. UpTo(S, w) <= Below(S, v)
  BY <1>3, <1>4, FS_Subset DEF UpTo, Below
<1>6. QED
  BY <1>1, <1>5, CountTypes

(* Where a percentile falls in the sorted vector. *)
Index(n, p, q, r) ==
    /\ p * (n - 1) = 1000 * q + r
    /\ q = (p * (n - 1)) \div 1000
    /\ r = (p * (n - 1)) % 1000
    /\ q + 1 \in 1..n
    /\ r # 0 => q + 2 \in 1..n

LEMMA IndexRange ==
    ASSUME NEW n \in Nat \ {0}, NEW p \in Thousandths
    PROVE  \E q \in Nat, r \in Thousandths : Index(n, p, q, r)
<1>1. PICK i \in Nat : i = p * (n - 1)
  BY DEF Thousandths
<1>2. i <= 999 * (n - 1)
  <2>1. p \in Nat /\ p <= 999 /\ n - 1 \in Nat
    BY DEF Thousandths
  <2>2. PICK x \in Nat : x = 999 - p
    BY <2>1
  <2>3. PICK m \in Nat : m = n - 1
    BY <2>1
  <2>4. x * m \in Nat
    OBVIOUS
  <2>5. 999 * m = p * m + x * m
    <3>1. 999 = p + x
      BY <2>1, <2>2
    <3>2. (p + x) * m = p * m + x * m
      BY <2>1
    <3>3. QED
      BY <3>1, <3>2
  <2>6. QED
    BY <1>1, <2>1, <2>3, <2>4, <2>5
<1>3. PICK q \in Int, r \in Int : q = i \div 1000 /\ r = i % 1000
  OBVIOUS
<1>4. i = 1000 * q + r /\ r \in Thousandths /\ q \in Nat
  BY <1>3 DEF Thousandths
<1>5. q + 1 \in 1..n /\ (r # 0 => q + 2 \in 1..n)
  BY <1>2, <1>4 DEF Thousandths
<1>6. Index(n, p, q, r)
  BY <1>1, <1>3, <1>4, <1>5 DEF Index
<1>7. QED
  BY <1>4, <1>6

(* The percentile p lies r thousandths of the way from a to b, which are    *)
(* neighbours in the sorted vector, at the indices q and q + 1.             *)
Place(S, p, q, r, a, b) ==
    /\ p * (Cardinality(S) - 1) = 1000 * q + r
    /\ q + 1 \in Ranks(S)
    /\ a = Sorted(S, q + 1)
    /\ a <= b
    /\ r # 0 => q + 2 \in Ranks(S) /\ b = Sorted(S, q + 2)
    /\ Percentile(S, p) = 1000 * a + (b - a) * r

LEMMA PercentilePlace ==
    ASSUME TypeOK, NEW S \in SUBSET All, S # {}, NEW p \in Thousandths
    PROVE  /\ Cardinality(S) \in Nat \ {0}
           /\ \E q \in Nat, r \in Thousandths, a \in Nat, b \in Nat : Place(S, p, q, r, a, b)
<1>1. Cardinality(S) \in Nat \ {0}
  BY CountTypes, FS_EmptySet
<1>2. PICK q \in Nat, r \in Thousandths : Index(Cardinality(S), p, q, r)
  BY <1>1, IndexRange, Zenon
<1>3. q + 1 \in Ranks(S) /\ (r # 0 => q + 2 \in Ranks(S))
  BY <1>1, <1>2, Zenon DEF Index, Ranks
<1>4. /\ p * (Cardinality(S) - 1) = 1000 * q + r
      /\ q = (p * (Cardinality(S) - 1)) \div 1000
      /\ r = (p * (Cardinality(S) - 1)) % 1000
  BY <1>2, Zenon DEF Index
<1> DEFINE hi == IF r = 0 THEN q ELSE q + 1
           v(i) == Sorted(S, i)
           value(l, m, f) == 1000 * v(l + 1) + (v(m + 1) - v(l + 1)) * f
<1>5. Percentile(S, p) = value(q, hi, r)
  <2> DEFINE idx == p * (Cardinality(S) - 1)
  <2>1. Percentile(S, p) =
          value(idx \div 1000,
                IF idx % 1000 = 0 THEN idx \div 1000 ELSE (idx \div 1000) + 1, idx % 1000)
    BY Zenon DEF Percentile
  <2>2. idx \div 1000 = q /\ idx % 1000 = r
    BY <1>4
  <2>3. (IF idx % 1000 = 0 THEN idx \div 1000 ELSE (idx \div 1000) + 1) = hi
    BY <2>2
  <2> HIDE DEF idx, value, hi
  <2>4. QED
    BY <2>1, <2>2, <2>3
<1> HIDE DEF hi
<1>6. PICK a \in Nat : a = v(q + 1)
  BY <1>3, SortedIsRight
<1>7. CASE r = 0
  <2>1. hi = q
    BY <1>7 DEF hi
  <2>2. Percentile(S, p) = 1000 * a + (a - a) * r
    <3>1. v(q + 1) = a /\ v(hi + 1) = a
      BY <1>6, <2>1
    <3>2. value(q, hi, r) = 1000 * a + (a - a) * r
      BY <3>1
    <3>3. QED
      BY <1>5, <3>2, Zenon
  <2>3. a <= a
    OBVIOUS
  <2>4. Place(S, p, q, r, a, a)
    BY <1>3, <1>4, <1>6, <1>7, <2>2, <2>3, Zenon DEF Place
  <2>5. QED
    BY <1>1, <2>4
<1>8. CASE r # 0
  <2>1. PICK b \in Nat : b = v(q + 2)
    BY <1>3, <1>8, SortedIsRight
  <2>2. a <= b
    <3>1. q + 1 <= q + 2
      OBVIOUS
    <3>2. QED
      BY <1>3, <1>6, <1>8, <2>1, <3>1, SortedIsMonotonic
  <2>3. hi + 1 = q + 2
    BY <1>8 DEF hi
  <2>4. Percentile(S, p) = 1000 * a + (b - a) * r
    <3>1. v(q + 1) = a /\ v(hi + 1) = b
      BY <1>6, <2>1, <2>3
    <3>2. QED
      BY <1>5, <3>1, Zenon
  <2>5. Place(S, p, q, r, a, b)
    BY <1>3, <1>4, <1>6, <2>1, <2>2, <2>4, Zenon DEF Place
  <2>6. QED
    BY <1>1, <2>5
<1>9. QED
  BY <1>7, <1>8

LEMMA PlaceBetween ==
    ASSUME NEW S, NEW p, NEW q \in Nat, NEW r \in Thousandths, NEW a \in Nat, NEW b \in Nat,
           Place(S, p, q, r, a, b)
    PROVE  /\ Percentile(S, p) \in Int
           /\ 1000 * a <= Percentile(S, p)
           /\ Percentile(S, p) <= 1000 * b
           /\ r = 0 => Percentile(S, p) = 1000 * a
<1>1. r \in Nat /\ r <= 999
  BY DEF Thousandths
<1>2. PICK d \in Nat : d = b - a
  BY DEF Place
<1>3. PICK x \in Nat : x = 1000 - r
  BY <1>1
<1>4. d * r \in Nat /\ d * x \in Nat
  BY <1>1
<1>5. d * r + d * x = 1000 * d
  <2>1. d * (r + x) = d * r + d * x
    BY <1>1
  <2>2. r + x = 1000
    BY <1>1, <1>3
  <2>3. QED
    BY <2>1, <2>2
<1>6. r = 0 => d * r = 0
  OBVIOUS
<1>7. Percentile(S, p) = 1000 * a + d * r
  BY <1>2, Zenon DEF Place
<1>8. QED
  BY <1>2, <1>4, <1>5, <1>6, <1>7

(* Enough of the values are not above the percentile, enough not below. *)
LEMMA PercentileIsPercentile ==
    ASSUME TypeOK, NEW S \in SUBSET All, NEW p \in Thousandths
    PROVE  IsPercentile(S, p, Percentile(S, p))
<1>1. CASE S = {}
  BY <1>1, FS_EmptySet DEF IsPercentile
<1>2. CASE S # {}
  <2> DEFINE n == Cardinality(S)
  <2>1. n \in Nat \ {0}
    BY <1>2, PercentilePlace, Zenon
  <2>2. PICK q \in Nat, r \in Thousandths, a \in Nat, b \in Nat : Place(S, p, q, r, a, b)
    BY <1>2, PercentilePlace, Zenon
  <2>3. /\ p * (n - 1) = 1000 * q + r
        /\ q + 1 \in Ranks(S)
        /\ a = Sorted(S, q + 1)
        /\ r # 0 => q + 2 \in Ranks(S) /\ b = Sorted(S, q + 2)
    BY <2>2, Zenon DEF Place
  <2>4. PICK v \in Int : v = Percentile(S, p)
    BY <2>2, PlaceBetween
  <2>5. 1000 * a <= v /\ v <= 1000 * b /\ (r = 0 => v = 1000 * a)
    BY <2>2, <2>4, PlaceBetween
  <2> HIDE DEF n
  <2> DEFINE Low == {x \in S : 1000 * RecordAt(x).latency <= v}
             High == {x \in S : 1000 * RecordAt(x).latency >= v}
  <2>6. IsFiniteSet(S)
    BY CountTypes
  <2>7. /\ IsFiniteSet(Low) /\ Cardinality(Low) \in Nat
        /\ IsFiniteSet(High) /\ Cardinality(High) \in Nat
    BY <2>6, FS_Subset, FS_CardinalityType
  <2>8. Cardinality(Low) >= q + 1
    <3>1. {x \in S : RecordAt(x).latency <= a} \in SUBSET Low
      BY <2>5, LatencyType
    <3>2. UpTo(S, a) <= Cardinality(Low)
      BY <2>7, <3>1, FS_Subset DEF UpTo
    <3>3. q + 1 <= UpTo(S, a)
      BY <2>3, SortedIsRight
    <3>4. UpTo(S, a) \in Nat
      BY CountTypes
    <3>5. QED
      BY <2>7, <3>2, <3>3, <3>4
  <2>9. ASSUME NEW w \in Nat, v <= 1000 * w
        PROVE  n - Below(S, w) <= Cardinality(High)
    <3> DEFINE Under == {x \in S : RecordAt(x).latency < w}
    <3>1. S \ Under \in SUBSET High
      BY <2>9, LatencyType
    <3>2. Cardinality(S \ Under) <= Cardinality(High)
      BY <2>7, <3>1, FS_Subset
    <3>3. Cardinality(S \ Under) = Cardinality(S) - Cardinality(S \cap Under)
      BY <2>6, FS_Difference
    <3>4. S \cap Under = Under
      OBVIOUS
    <3>5. QED
      BY <2>1, <3>2, <3>3, <3>4 DEF Below, n
  <2>10. r \in Nat /\ r <= 999
    BY DEF Thousandths
  <2>11. p \in Nat
    BY DEF Thousandths
  <2>12. (1000 - p) * (n - 1) = 1000 * (n - 1) - (1000 * q + r)
    <3>1. PICK m \in Nat : m = n - 1
      BY <2>1
    <3>2. (1000 - p) * m = 1000 * m - p * m
      BY <2>11
    <3>3. QED
      BY <2>3, <3>1, <3>2
  <2> HIDE DEF Low, High
  <2>13. 1000 * Cardinality(High) > (1000 - p) * (n - 1)
    <3>1. CASE r = 0
      <4>1. Below(S, a) < q + 1
        BY <2>3, SortedIsRight
      <4>2. Below(S, a) \in Nat
        BY CountTypes
      <4>3. n - Below(S, a) <= Cardinality(High)
        BY <2>5, <2>9, <3>1
      <4>4. n - Cardinality(High) <= q
        BY <2>1, <2>7, <4>1, <4>2, <4>3
      <4>5. 1000 * Cardinality(High) >= 1000 * n - 1000 * q
        BY <2>1, <2>7, <4>4
      <4>6. QED
        BY <2>1, <2>7, <2>12, <3>1, <4>5
    <3>2. CASE r # 0
      <4>1. Below(S, b) < q + 2
        BY <2>3, <3>2, SortedIsRight
      <4>2. Below(S, b) \in Nat
        BY CountTypes
      <4>3. n - Below(S, b) <= Cardinality(High)
        BY <2>5, <2>9
      <4>4. n - Cardinality(High) <= q + 1
        BY <2>1, <2>7, <4>1, <4>2, <4>3
      <4>5. 1000 * Cardinality(High) >= 1000 * n - 1000 * q - 1000
        BY <2>1, <2>7, <4>4
      <4>6. QED
        BY <2>1, <2>7, <2>10, <2>12, <3>2, <4>5
    <3>3. QED
      BY <3>1, <3>2
  <2>14. 1000 * Cardinality(Low) > p * (n - 1)
    BY <2>1, <2>3, <2>7, <2>8, <2>10
  <2>15. QED
    <3>1. /\ 1000 * Cardinality(High) > (1000 - p) * (Cardinality(S) - 1)
          /\ 1000 * Cardinality(Low) > p * (Cardinality(S) - 1)
      BY <2>13, <2>14, Zenon DEF n
    <3>2. /\ Low = {x \in S : 1000 * RecordAt(x).latency <= Percentile(S, p)}
          /\ High = {x \in S : 1000 * RecordAt(x).latency >= Percentile(S, p)}
      BY <2>4 DEF Low, High
    <3>3. QED
      BY <3>1, <3>2 DEF IsPercentile
<1>3. QED
  BY <1>1, <1>2

(* A higher percentile is not a smaller value. *)
LEMMA PercentileIsMonotonic ==
    ASSUME TypeOK, NEW S \in SUBSET All,
           NEW p \in Thousandths, NEW h \in Thousandths, p <= h
    PROVE  Percentile(S, p) <= Percentile(S, h)
<1>1. CASE S = {}
  <2>1. Percentile(S, p) = 0 /\ Percentile(S, h) = 0
    BY <1>1 DEF Percentile
  <2>2. QED
    BY <2>1
<1>2. CASE S # {}
  <2>1. PICK n \in Nat \ {0} : n = Cardinality(S)
    BY <1>2, PercentilePlace, Zenon
  <2>2. PICK q \in Nat, r \in Thousandths, a \in Nat, b \in Nat : Place(S, p, q, r, a, b)
    BY <1>2, PercentilePlace, Zenon
  <2>3. PICK k \in Nat, t \in Thousandths, c \in Nat, d \in Nat : Place(S, h, k, t, c, d)
    BY <1>2, PercentilePlace, Zenon
  <2>4. /\ p * (n - 1) = 1000 * q + r
        /\ q + 1 \in Ranks(S)
        /\ a = Sorted(S, q + 1)
        /\ a <= b
        /\ r # 0 => q + 2 \in Ranks(S) /\ b = Sorted(S, q + 2)
        /\ Percentile(S, p) = 1000 * a + (b - a) * r
    BY <2>1, <2>2, Zenon DEF Place
  <2>5. /\ h * (n - 1) = 1000 * k + t
        /\ k + 1 \in Ranks(S)
        /\ c = Sorted(S, k + 1)
        /\ c <= d
        /\ t # 0 => k + 2 \in Ranks(S) /\ d = Sorted(S, k + 2)
        /\ Percentile(S, h) = 1000 * c + (d - c) * t
    BY <2>1, <2>3, Zenon DEF Place
  <2>6. r \in Nat /\ r <= 999 /\ t \in Nat /\ t <= 999
    BY DEF Thousandths
  <2>7. 1000 * q + r <= 1000 * k + t
    <3>1. p \in Nat /\ h \in Nat
      BY DEF Thousandths
    <3>2. PICK m \in Nat : m = n - 1
      OBVIOUS
    <3>3. PICK x \in Nat : x = h - p
      BY <3>1
    <3>4. h * m = p * m + x * m
      BY <3>1, <3>3
    <3>5. p * m \in Nat /\ x * m \in Nat
      BY <3>1
    <3>6. p * m <= h * m
      BY <3>4, <3>5
    <3>7. QED
      BY <2>4, <2>5, <3>2, <3>6
  <2>8. PICK u \in Int, w \in Int : u = Percentile(S, p) /\ w = Percentile(S, h)
    BY <2>2, <2>3, PlaceBetween
  <2>9. /\ 1000 * a <= u /\ u <= 1000 * b /\ (r = 0 => u = 1000 * a)
        /\ 1000 * c <= w /\ w <= 1000 * d
    BY <2>2, <2>3, <2>8, PlaceBetween
  <2>10. CASE q = k
    <3>1. a = c /\ r <= t
      BY <2>4, <2>5, <2>6, <2>7, <2>10
    <3>2. CASE r = 0
      BY <2>8, <2>9, <3>1, <3>2
    <3>3. CASE r # 0
      <4>1. b = d
        BY <2>4, <2>5, <2>6, <2>10, <3>1, <3>3
      <4>2. PICK e \in Nat : e = b - a
        BY <2>4
      <4>3. PICK x \in Nat : x = t - r
        BY <2>6, <3>1
      <4>4. e * t = e * r + e * x
        BY <2>6, <4>3
      <4>5. e * r \in Nat /\ e * x \in Nat
        BY <2>6
      <4>6. u = 1000 * a + e * r /\ w = 1000 * a + e * t
        <5>1. u = 1000 * a + (b - a) * r
          BY <2>4, <2>8, Zenon
        <5>2. w = 1000 * a + (b - a) * t
          BY <2>5, <2>8, <3>1, <4>1, Zenon
        <5>3. QED
          BY <4>2, <5>1, <5>2, Zenon
      <4>7. QED
        BY <2>8, <4>4, <4>5, <4>6
    <3>4. QED
      BY <3>2, <3>3
  <2>11. CASE q < k
    <3>1. CASE r = 0
      <4>1. q + 1 <= k + 1
        BY <2>11
      <4>2. a <= c
        BY <2>4, <2>5, <4>1, SortedIsMonotonic
      <4>3. QED
        BY <2>8, <2>9, <3>1, <4>2
    <3>2. CASE r # 0
      <4>1. q + 2 <= k + 1
        BY <2>11
      <4>2. b <= c
        BY <2>4, <2>5, <3>2, <4>1, SortedIsMonotonic
      <4>3. QED
        BY <2>8, <2>9, <4>2
    <3>3. QED
      BY <3>1, <3>2
  <2>12. q <= k
    BY <2>6, <2>7
  <2>13. QED
    BY <2>10, <2>11, <2>12
<1>3. QED
  BY <1>1, <1>2

(* The printed percentiles are percentiles of the latencies of the requests *)
(* that got an answer, and do not fall as p rises (tester.cpp:178-186,      *)
(* 240-267, 296-299).                                                      *)
THEOREM ReportedPercentiles == Spec => []PercentilesAreRight
<1>1. TesterInv => PercentilesAreRight
  <2> SUFFICES ASSUME TesterInv, report # <<>> PROVE PercentilesAreRight
    BY DEF PercentilesAreRight
  <2> DEFINE P == {500, 950, 990, 999}
             answered == {x \in Measured : RecordAt(x).status \in {"2xx", "other"}}
  <2>1. TypeOK /\ report = Printed
    BY DEF TesterInv, ReportInv
  <2>2. Measured \in SUBSET All
    BY DEF Measured
  <2>3. answered = Answered(Measured)
    <3>1. \A x \in Measured : RecordAt(x).status \in Statuses
      BY <2>1, <2>2, RecordType DEF RequestRecord
    <3>2. QED
      BY <3>1 DEF Answered, Statuses
  <2>4. Answered(Measured) \in SUBSET All
    BY <2>2 DEF Answered
  <2>5. report.percentiles = [p \in P |-> Percentile(Answered(Measured), p)]
    BY <2>1 DEF Printed
  <2>6. P \subseteq Thousandths
    BY DEF Thousandths
  <2> HIDE DEF P, answered
  <2>7. ASSUME NEW p \in P PROVE IsPercentile(answered, p, report.percentiles[p])
    <3>1. IsPercentile(answered, p, Percentile(answered, p))
      BY <2>1, <2>3, <2>4, <2>6, PercentileIsPercentile
    <3>2. report.percentiles[p] = Percentile(answered, p)
      BY <2>3, <2>5
    <3>3. QED
      BY <3>1, <3>2
  <2>8. ASSUME NEW p \in P, NEW q \in P, p <= q
        PROVE  report.percentiles[p] <= report.percentiles[q]
    <3>1. Percentile(answered, p) <= Percentile(answered, q)
      BY <2>1, <2>3, <2>4, <2>6, <2>8, PercentileIsMonotonic
    <3>2. report.percentiles[p] = Percentile(answered, p)
             /\ report.percentiles[q] = Percentile(answered, q)
      BY <2>3, <2>5
    <3>3. QED
      BY <3>1, <3>2
  <2>9. ASSUME NEW sec \in InWindow PROVE report.lines[sec].p95 <= report.lines[sec].p99
    <3>1. /\ report.lines[sec].p95 = Percentile(Answered(Bucket(sec)), 950)
          /\ report.lines[sec].p99 = Percentile(Answered(Bucket(sec)), 990)
      BY <2>1 DEF Printed, Line
    <3>2. Answered(Bucket(sec)) \in SUBSET All
      BY DEF Answered, Bucket
    <3>3. Percentile(Answered(Bucket(sec)), 950) <= Percentile(Answered(Bucket(sec)), 990)
      <4>1. 950 \in Thousandths /\ 990 \in Thousandths /\ 950 <= 990
        BY DEF Thousandths
      <4>2. QED
        BY <2>1, <3>2, <4>1, PercentileIsMonotonic
    <3>4. QED
      BY <3>1, <3>3
  <2>10. DOMAIN report.percentiles = P
    BY <2>5
  <2>11. QED
    BY <2>7, <2>8, <2>9, <2>10 DEF PercentilesAreRight, answered
<1>2. QED
  BY <1>1, TesterInvariant, PTL
=============================================================================
