------------------------------ MODULE RecordTs ------------------------------
(***************************************************************************)
(* stats.recordTs of tools/tsbsrw/main.go: goroutines fold the timestamps  *)
(* they encode into minTsMs and maxTsMs, two atomics, with one compare-    *)
(* and-swap loop each and no lock.  0 in minTsMs means that nothing has    *)
(* been recorded.                                                          *)
(*                                                                         *)
(* A call is one call of recordTs; calls that would follow one another on  *)
(* a worker may overlap here, which only adds behaviours.  TSBS            *)
(* timestamps are positive; with 0 or a negative one the sentinel would    *)
(* not work, so the model assumes them away.                               *)
(*                                                                         *)
(* Names that TsbsRw has too begin with Record: TsbsToolsProofs has both.  *)
(***************************************************************************)
EXTENDS Integers

CONSTANTS Calls,            \* the calls of recordTs
          Stamps            \* the timestamps a line can carry, in ms

ASSUME StampsAssumption == Stamps \subseteq Nat \ {0}

VARIABLES ts,               \* the argument of each call
          pc,               \* "loadMin", "casMin", "loadMax", "casMax", "done"
          cur,              \* the local the two loops load into
          minTsMs, maxTsMs  \* the atomics

recordVars == <<ts, pc, cur, minTsMs, maxTsMs>>

RecordInit ==
    /\ ts \in [Calls -> Stamps]
    /\ pc = [c \in Calls |-> "loadMin"]
    /\ cur = [c \in Calls |-> 0]
    /\ minTsMs = 0
    /\ maxTsMs = 0

Goto(c, from, to) ==
    /\ pc[c] = from
    /\ pc' = [pc EXCEPT ![c] = to]

\* cur := minTsMs.Load(); break when it is already small enough.
BugStrictly(c) == minTsMs # 0 /\ minTsMs < ts[c]
BugNoSentinel(c) == minTsMs <= ts[c]
MinCovers(c) == minTsMs # 0 /\ minTsMs <= ts[c]

LoadMin(c) ==
    /\ cur' = [cur EXCEPT ![c] = minTsMs]
    /\ Goto(c, "loadMin", IF MinCovers(c) THEN "loadMax" ELSE "casMin")
    /\ UNCHANGED <<ts, minTsMs, maxTsMs>>

\* minTsMs.CompareAndSwap(cur, ms); a failure goes round the loop again.
MinUnchanged(c) == minTsMs = cur[c]

CasMin(c) ==
    \/ /\ MinUnchanged(c)
       /\ minTsMs' = ts[c]
       /\ Goto(c, "casMin", "loadMax")
       /\ UNCHANGED <<ts, cur, maxTsMs>>
    \/ /\ ~MinUnchanged(c)
       /\ Goto(c, "casMin", "loadMin")
       /\ UNCHANGED <<ts, cur, minTsMs, maxTsMs>>

LoadMax(c) ==
    /\ cur' = [cur EXCEPT ![c] = maxTsMs]
    /\ Goto(c, "loadMax", IF maxTsMs >= ts[c] THEN "done" ELSE "casMax")
    /\ UNCHANGED <<ts, minTsMs, maxTsMs>>

MaxUnchanged(c) == maxTsMs = cur[c]

RetryMax(c) == Goto(c, "casMax", "loadMax")

CasMax(c) ==
    \/ /\ MaxUnchanged(c)
       /\ maxTsMs' = ts[c]
       /\ Goto(c, "casMax", "done")
       /\ UNCHANGED <<ts, cur, minTsMs>>
    \/ /\ ~MaxUnchanged(c)
       /\ RetryMax(c)
       /\ UNCHANGED <<ts, cur, minTsMs, maxTsMs>>

AllDone == \A c \in Calls : pc[c] = "done"
Returned == AllDone /\ UNCHANGED recordVars

RecordTs(c) == LoadMin(c) \/ CasMin(c) \/ LoadMax(c) \/ CasMax(c)

RecordNext == (\E c \in Calls : RecordTs(c)) \/ Returned

RecordSpec == RecordInit /\ [][RecordNext]_recordVars

-----------------------------------------------------------------------------
(* Properties *)

\* Types; and a compare-and-swap is attempted only by a call that loaded a bound
\* its timestamp would move outwards.
RecordTypeOK ==
    /\ ts \in [Calls -> Stamps]
    /\ pc \in [Calls -> {"loadMin", "casMin", "loadMax", "casMax", "done"}]
    /\ cur \in [Calls -> Nat]
    /\ minTsMs \in Nat /\ maxTsMs \in Nat
    /\ \A c \in Calls :
        /\ pc[c] = "casMin" => cur[c] = 0 \/ ts[c] < cur[c]
        /\ pc[c] = "casMax" => cur[c] < ts[c]

\* No update is lost: a call that has left a loop is covered by its bound from
\* then on, whoever writes after it.
NoLostUpdate ==
    \A c \in Calls :
        /\ pc[c] \in {"loadMax", "casMax", "done"} => minTsMs # 0 /\ minTsMs <= ts[c]
        /\ pc[c] = "done" => ts[c] <= maxTsMs

\* The summary's first_ts_ms and last_ts_ms are exactly the extremes of what
\* was encoded.
ExactWhenDone ==
    AllDone /\ Calls # {} =>
        /\ minTsMs \in {ts[c] : c \in Calls} /\ \A c \in Calls : minTsMs <= ts[c]
        /\ maxTsMs \in {ts[c] : c \in Calls} /\ \A c \in Calls : maxTsMs >= ts[c]

\* The recorded interval only widens, so two progress snapshots never contradict
\* each other.
OnlyWidens ==
    [][ /\ minTsMs # 0 => minTsMs' # 0 /\ minTsMs' <= minTsMs
        /\ maxTsMs' >= maxTsMs ]_recordVars
=============================================================================
