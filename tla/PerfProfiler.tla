---------------------------- MODULE PerfProfiler -----------------------------
(***************************************************************************)
(* A profiling domain: scopes that measure nested blocks of the GUI        *)
(* thread, and for each stage the rolling statistics over a ring of its    *)
(* last measurements.  Another thread may turn the domain on and off at    *)
(* any time, in the middle of a scope too; flush() logs and starts again.  *)
(***************************************************************************)
EXTENDS Integers, Sequences, SequencesExt, FiniteSetsExt

CONSTANTS Capacity,   \* of every ring: 256 in the code
          Stages,     \* names of stages
          Times,      \* what a scope may measure
          MaxScopes   \* bound: blocks one inside the other

ASSUME PerfAssumption == Capacity \in Nat /\ MaxScopes \in Nat /\ Times \subseteq Nat

VARIABLES
  m_enabled,
  m_stages,   \* the statistics of a stage, created by its first measurement
  scopes,     \* the Scope objects on the stack, innermost last
  measured    \* what was recorded for a stage since its last reset, Capacity at most

perfVars == <<m_enabled, m_stages, scopes, measured>>

RollingStats == [m_ring |-> [i \in 0 .. Capacity - 1 |-> 0], m_size |-> 0, m_head |-> 0, m_sum |-> 0]

PerfInit ==
  /\ m_enabled = FALSE /\ scopes = <<>>
  /\ m_stages = [s \in {} |-> RollingStats] /\ measured = [s \in Stages |-> <<>>]
-----------------------------------------------------------------------------
NextIndex(i) == (i + 1) % Capacity

add(stats, value) ==
  IF Capacity = 0 THEN stats
  ELSE LET full == stats.m_size = Capacity
       IN  [m_ring |-> [stats.m_ring EXCEPT ![stats.m_head] = value],
            m_size |-> IF full THEN stats.m_size ELSE stats.m_size + 1,
            m_head |-> NextIndex(stats.m_head),
            m_sum  |-> stats.m_sum + value - IF full THEN stats.m_ring[stats.m_head] ELSE 0]

(* The ring keeps the values of before.                                    *)
reset(stats) == [stats EXCEPT !.m_size = 0, !.m_head = 0, !.m_sum = 0]

Valid(stats) == {stats.m_ring[i] : i \in 0 .. stats.m_size - 1}

avg(stats)   == IF stats.m_size = 0 THEN -1 ELSE stats.m_sum \div stats.m_size
least(stats) == IF stats.m_size = 0 THEN -1 ELSE Min(Valid(stats))
most(stats)  == IF stats.m_size = 0 THEN -1 ELSE Max(Valid(stats))
-----------------------------------------------------------------------------
setEnabled(on) == m_enabled' = on /\ UNCHANGED <<m_stages, scopes, measured>>

(* Scope::Scope: the clock is read only when the domain is enabled.        *)
EnterScope(stage) ==
  /\ Len(scopes) < MaxScopes
  /\ scopes' = Append(scopes, [stage |-> stage, m_active |-> m_enabled])
  /\ UNCHANGED <<m_enabled, m_stages, measured>>

(* Domain::record                                                          *)
record(stage, time) ==
  LET stats == IF stage \in DOMAIN m_stages THEN m_stages[stage] ELSE RollingStats
      all   == Append(measured[stage], time)
  IN  /\ m_stages' = [s \in DOMAIN m_stages \cup {stage} |-> IF s = stage THEN add(stats, time) ELSE m_stages[s]]
      /\ measured' = [measured EXCEPT ![stage] = IF Len(all) > Capacity THEN Tail(all) ELSE all]

(* Scope::~Scope: what was begun is recorded only if still enabled.        *)
LeaveScope(time) ==
  /\ scopes # <<>>
  /\ scopes' = Front(scopes)
  /\ IF Last(scopes).m_active /\ m_enabled THEN record(Last(scopes).stage, time)
     ELSE UNCHANGED <<m_stages, measured>>
  /\ UNCHANGED m_enabled

flush ==
  /\ m_stages' = [s \in DOMAIN m_stages |-> IF m_stages[s].m_size = 0 THEN m_stages[s] ELSE reset(m_stages[s])]
  /\ measured' = [s \in Stages |-> <<>>]
  /\ UNCHANGED <<m_enabled, scopes>>

PerfNext ==
  \/ \E on \in BOOLEAN : setEnabled(on)
  \/ \E stage \in Stages : EnterScope(stage)
  \/ \E time \in Times : LeaveScope(time)
  \/ flush

PerfSpec == PerfInit /\ [][PerfNext]_perfVars
-----------------------------------------------------------------------------
(* The type invariant.                                                     *)
PerfTypeOK ==
  /\ m_enabled \in BOOLEAN
  /\ DOMAIN m_stages \subseteq Stages
  /\ \A s \in DOMAIN m_stages :
       /\ m_stages[s].m_size \in 0 .. Capacity /\ m_stages[s].m_sum \in Nat
       /\ m_stages[s].m_head = 0 \/ m_stages[s].m_head \in 0 .. Capacity - 1
       /\ m_stages[s].m_ring \in [0 .. Capacity - 1 -> Times \cup {0}]
  /\ scopes \in Seq([stage : Stages, m_active : BOOLEAN])
  /\ measured \in [Stages -> Seq(Times)]

Total(seq) ==
  LET sum[n \in 0 .. Len(seq)] == IF n = 0 THEN 0 ELSE sum[n - 1] + seq[n]
  IN  sum[Len(seq)]

(* Average, least and most are those of the last Capacity measurements of  *)
(* the stage since the last flush, although the sum is kept by differences *)
(* and the ring holds values of before the flush behind its head.          *)
FiguresAreOfTheLast ==
  \A s \in DOMAIN m_stages :
    LET stats == m_stages[s]
        last  == measured[s]
    IN  /\ stats.m_size = Len(last)
        /\ last # <<>> => /\ avg(stats) = Total(last) \div Len(last)
                          /\ least(stats) = Min(ToSet(last)) /\ most(stats) = Max(ToSet(last))
=============================================================================
