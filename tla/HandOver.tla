-------------------------------- MODULE HandOver --------------------------------
(***************************************************************************)
(* What the worker service promises about the payloads on background_jobs, *)
(* without its dispatcher, channel, pool and watchdog: an at-most-once     *)
(* hand-over in the order of the pushes.  AsyncWorker implements it;       *)
(* Phase3System puts it behind the business engine.                        *)
(*                                                                         *)
(* A payload is taken from the list once, oldest first, and is then only   *)
(* in the worker's memory, which holds at most Capacity of them, until it  *)
(* gets its audit row or is lost.                                          *)
(***************************************************************************)
EXTENDS Naturals, FiniteSets

CONSTANTS
    MaxPush,       \* payloads are 1..MaxPush, numbered by their LPUSHes
    Capacity       \* payloads the worker process can hold

VARIABLE stage     \* how far each payload has come

Payloads == 1..MaxPush
Stages == {"unsent", "queued", "held", "audited", "lost"}

At(s) == {t \in Payloads : stage[t] = s}

Oldest(t, s) == t \in At(s) /\ \A u \in At(s) : t <= u

Advance(ts, s) == stage' = [t \in Payloads |-> IF t \in ts THEN s ELSE stage[t]]

Init == stage = [t \in Payloads |-> "unsent"]

(* LPUSH. *)
Send == \E t \in Payloads : Oldest(t, "unsent") /\ Advance({t}, "queued")

(* Seeded fault: BRPOP and LPUSH at the same end of the list. *)
Take_Newest ==
    /\ Cardinality(At("held")) < Capacity
    /\ \E t \in At("queued") :
          /\ \A u \in At("queued") : u <= t
          /\ Advance({t}, "held")

(* BRPOP, whose reply arrives, *)
Take ==
    /\ Cardinality(At("held")) < Capacity
    /\ \E t \in Payloads : Oldest(t, "queued") /\ Advance({t}, "held")

(* or does not. *)
Miss == \E t \in Payloads : Oldest(t, "queued") /\ Advance({t}, "lost")

(* The outcome of a payload is stored, *)
Audit == \E t \in At("held") : Advance({t}, "audited")

(* or it is not: a failed INSERT or a shutdown takes one payload, a crash   *)
(* all the process holds.                                                  *)
Lose == \E ts \in SUBSET At("held") : Advance(ts, "lost")

Next == Send \/ Take \/ Miss \/ Audit \/ Lose

Spec == Init /\ [][Next]_stage
=============================================================================
