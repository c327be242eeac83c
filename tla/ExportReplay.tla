---------------------------- MODULE ExportReplay ----------------------------
(***************************************************************************)
(* replay_by_time (helpers/exporting/mod.rs) and the replay of a process   *)
(* (process.rs), without state of their own.  A process has sequences of   *)
(* samples and of maps, each with a time, and times of creation and of     *)
(* exit, 0 standing for None.                                              *)
(***************************************************************************)
EXTENDS Naturals, Sequences, SequencesExt, FiniteSets, FiniteSetsExt, Functions

CONSTANT MaxTime \* u64::MAX: later than every time

ASSUME MaxTimeAssumption == MaxTime \in Nat

(* A stable sort: how many elements are not after the i-th, and the one    *)
(* that comes as the k-th.                                                 *)
NotAfter(s, i) ==
    {j \in DOMAIN s : \/ s[j].time < s[i].time
                      \/ s[j].time = s[i].time /\ j <= i}

Comes(s, k) == CHOOSE i \in DOMAIN s : Cardinality(NotAfter(s, i)) = k

SortByTime(s) == [k \in DOMAIN s |-> s[Comes(s, k)]]

SampleEvent(e, r) == r.si <= Len(e.samples) /\ e.samples[r.si].time = r.time
MappingEvent(e, r) == r.mi <= Len(e.maps) /\ e.maps[r.mi].time = r.time
CreatedEvent(e, r) == e.create # 0 /\ e.create = r.time
ExitedEvent(e, r) == e.exit # 0 /\ e.exit = r.time

(* Mutant of Advance: all samples of one time are passed over at once. *)
Advance_SkipsTies(e, r) ==
    LET si == IF SampleEvent(e, r)
              THEN 1 + Cardinality({i \in DOMAIN e.samples :
                                        e.samples[i].time <= r.time}) ELSE r.si
        mi == IF MappingEvent(e, r) THEN r.mi + 1 ELSE r.mi
        next == {e.samples[i].time : i \in {si} \cap DOMAIN e.samples}
                \cup {e.maps[i].time : i \in {mi} \cap DOMAIN e.maps}
                \cup {t \in {e.create} : ~r.created /\ t # 0}
                \cup {t \in {e.exit} : ~r.exited /\ t # 0}
        time == Min(next \cup {MaxTime})
    IN  [time |-> time, si |-> si, mi |-> mi,
         created |-> r.created \/ e.create \in {0, time},
         exited |-> r.exited \/ e.exit \in {0, time}]

(* ExportProcessReplay::advance.                                           *)
Advance(e, r) ==
    LET si == IF SampleEvent(e, r) THEN r.si + 1 ELSE r.si
        mi == IF MappingEvent(e, r) THEN r.mi + 1 ELSE r.mi
        next == {e.samples[i].time : i \in {si} \cap DOMAIN e.samples}
                \cup {e.maps[i].time : i \in {mi} \cap DOMAIN e.maps}
                \cup {t \in {e.create} : ~r.created /\ t # 0}
                \cup {t \in {e.exit} : ~r.exited /\ t # 0}
        time == Min(next \cup {MaxTime})
    IN  [time |-> time, si |-> si, mi |-> mi,
         created |-> r.created \/ e.create \in {0, time},
         exited |-> r.exited \/ e.exit \in {0, time}]

StartOfReplay(e) ==
    Advance(e, [time |-> MaxTime, si |-> 1, mi |-> 1,
                created |-> FALSE, exited |-> FALSE])

(* What the callback is given.                                             *)
Call(p, e, r) ==
    [pid |-> p, sample |-> IF SampleEvent(e, r) THEN r.si ELSE 0,
     map |-> IF MappingEvent(e, r) THEN r.mi ELSE 0,
     created |-> CreatedEvent(e, r), exited |-> ExitedEvent(e, r)]

(* A round of the loop: the replays that are at the earliest time are      *)
(* called, in the order of a hash map, and advance.                        *)
ReplayRound(table, state) ==
    LET earliest == Min({state.at[p].time : p \in DOMAIN table} \cup {MaxTime})
        now == {p \in DOMAIN table : state.at[p].time = earliest}
    IN  IF earliest = MaxTime THEN state
        ELSE [at |-> [p \in DOMAIN table |->
                        IF p \in now THEN Advance(table[p], state.at[p])
                                     ELSE state.at[p]],
              log |-> Append(state.log,
                        [time |-> earliest,
                         calls |-> {Call(p, table[p], state.at[p]) : p \in now}])]

(* What there is to give of a process, and of all of them.                 *)
Things(e) ==
    ({"sample"} \X DOMAIN e.samples) \cup ({"map"} \X DOMAIN e.maps)
        \cup ({"create", "exit"} \X {0})

AllThings(table) == UNION {{p} \X Things(table[p]) : p \in DOMAIN table}

(* The loop: the state after each round.                                   *)
StateAfter(table, most) ==
    LET after[n \in 0 .. most] ==
            IF n = 0 THEN [at |-> [p \in DOMAIN table |-> StartOfReplay(table[p])],
                           log |-> << >>]
            ELSE LET before == after[n - 1] IN ReplayRound(table, before)
    IN  after

(* It cannot need more rounds than there are things to give.               *)
ReplayRounds(table) ==
    LET most == Cardinality(AllThings(table)) IN StateAfter(table, most)[most].log
=============================================================================
